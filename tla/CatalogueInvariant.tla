------------------------- MODULE CatalogueInvariant -------------------------
(***************************************************************************)
(* The catalogue's inductive invariant, for any number of owners,          *)
(* listings, photographs, versions and requests in flight, and the steps   *)
(* that only read or that write a listing keep it.                         *)
(***************************************************************************)
EXTENDS Catalogue, FiniteSetTheorems, TLAPS

Ops == {"idle", "create", "edit", "publish", "pause", "moderate", "reconfigure", "book", "add", "remove", "reorder",
        "erase"}

Stages == {"", "pin", "insert", "option", "place", "complete", "write", "read", "audit", "count", "put", "position",
           "row", "discard", "booked", "list", "bytes", "media", "rows"}

Contents == {f.content : f \in Forms}
Postcodes == {f.postcode : f \in Forms} \ {None}

Records == [content : Contents, pin : Nat, status : Statuses, moderation : ModerationStates,
            postcode : Postcodes \cup {None}, located : BOOLEAN]

Decisions == [state : ModerationStates, reason : BOOLEAN]

Users   == Owners \cup {None}
Targets == ListingIds \cup {None}

\* What a request may have been sent, have read, and have found a place for.
Sent  == Forms \cup Decisions \cup Configurations \cup {None}
Seen  == Records \cup Nat \cup Seq(PhotoIds) \cup {None}
Spots == Places \cup Fuzzed \cup PhotoIds \cup {None}

Req == [op : Ops, at : Stages, user : Users, id : Targets,
        form : Sent, pin : Nat \cup {None}, seen : Seen, place : Spots,
        owned : SUBSET ListingIds, kept : SUBSET ListingIds, photos : SUBSET PhotoIds]

\* Where an edit has decided to put the listing: nowhere without a postcode, where it was only if the
\* postcode is the one it had, and otherwise where the postcode is.
Placed(c) ==
  /\ c.place \in Places
  /\ c.place.kind = "cleared" <=> c.form.postcode = None
  /\ c.place.kind = "address-only" => c.form.postcode = c.seen.postcode /\ c.seen.located = TRUE
  /\ c.place.kind = "relocated" /\ c.place.point # None => c.place.point.of = c.form.postcode

\* What a request of each kind has been asked and has read; it stays so whatever others do.
Shape(c) ==
  /\ c.op \in OwnerOps => c.user \in Owners
  /\ c.op \in {"edit", "publish", "pause", "add", "remove", "reorder", "moderate", "book"} => c.id \in ListingIds
  /\ c.op \in {"create", "edit"} => c.form \in Forms
  /\ c.op = "moderate" => c.form \in Decisions
  /\ c.op = "reconfigure" => c.form \in Configurations /\ c.seen \in Nat /\ c.seen < MaxVersions
  /\ c.op = "create" => c.place \in Fuzzed \cup {None} /\ (c.place # None => c.place.of = c.form.postcode)
  /\ c.op = "edit" => c.seen \in Records
  /\ c.op = "edit" /\ c.at \in {"complete", "pin", "write"} => Placed(c)
  /\ c.op = "publish" /\ c.at = "complete" => c.seen \in Records
  /\ c.op = "add" /\ c.at \in {"position", "row"} => c.place \in PhotoIds
  /\ c.op = "add" /\ c.at = "row" => c.seen \in Nat
  /\ c.op = "reorder" => c.seen \in Seq(PhotoIds)
  /\ c.kept \subseteq c.owned
  /\ c.op \notin {"remove", "erase"} => c.photos = {}
  /\ c.op = "erase" /\ c.at \notin {"bytes", "media", "rows"} => c.photos = {}

Types ==
  /\ TypeOK /\ usage \in Usages /\ req \in [Requests -> Req]
  /\ IsFiniteSet({p \in PhotoIds : media[p] # None})
  /\ \A r \in Requests : Shape(req[r])

\* A form that was accepted was made for a version the category has, and answers that one.
Fits(f) ==
  /\ f.version \in 1..Latest
  /\ validateAttributeValues(versions[f.version], f.content.answers)
  /\ f.content.transport # None => offersTransportRequirement(versions[f.version], f.content.transport)

\* The version a row is about to be written under is the one its form was made for.
Pinned(c) ==
  /\ c.op = "create" \/ (c.op = "edit" /\ c.at # "option") => Fits(c.form)
  /\ (c.op = "create" /\ c.at = "insert") \/ (c.op = "edit" /\ c.at = "write") => c.pin = c.form.version
  /\ c.op = "reconfigure" => c.seen <= Latest

Valid == PinnedAnswersFit /\ \A r \in Requests : Pinned(req[r])

Alone ==
  \A r, s \in Requests :
    req[r].op \in OwnerOps /\ req[s].op \in OwnerOps /\ req[r].user = req[s].user => r = s

\* What publication asks of the form.
Answered(content, config) ==
  /\ content.described /\ content.daily
  /\ config.required \subseteq content.answers
  /\ config.transports # {} => content.transport # None

Postcode(loc) == IF loc = None THEN None ELSE loc.postcode

Sited(loc) == loc # None /\ loc.point # None

Mine(row, o) == row # None /\ row.owner = o

AsRead(seen, row, loc) ==
  /\ seen.content = row.content /\ seen.pin = row.pin /\ seen.status = row.status
  /\ seen.postcode = Postcode(loc)
  /\ seen.located = TRUE <=> Sited(loc)

\* A published row has what publication asks for, but for the address an erasure has taken.
Whole(row, loc, configs) ==
  row.status = "PUBLISHED" =>
    Answered(row.content, configs[row.pin]) /\ (Sited(loc) \/ row.collapsed = TRUE)

\* A request that will write what it makes of the listing it has read.
Relies(c) == c.op = "edit" \/ (c.op = "publish" /\ c.at \in {"complete", "write"})

CurrentIn(c, rows, locs, configs) ==
  /\ Relies(c) => Mine(rows[c.id], c.user)
  /\ c.op = "edit" \/ (c.op = "publish" /\ c.at = "complete") => AsRead(c.seen, rows[c.id], locs[c.id])
  /\ c.op = "edit" /\ c.at \in {"pin", "write"} /\ c.seen.status = "PUBLISHED" =>
       Answered(c.form.content, configs[c.form.version]) /\ willBeLocated(c.place)
  /\ c.op = "publish" /\ c.at = "write" =>
       Answered(rows[c.id].content, configs[rows[c.id].pin]) /\ Sited(locs[c.id])
  /\ c.op = "erase" => \A id \in c.owned : rows[id] # None => rows[id].owner = c.user

\* Where an owner waits for each reply, what a request has read of a listing is still so.
Current(c) == CurrentIn(c, listings, locations, versions)

InTurn ==
  usage.serial =>
    /\ Alone /\ PointMatchesAddress
    /\ \A id \in ListingIds : Exists(id) => Whole(listings[id], locations[id], versions)
    /\ \A r \in Requests : Current(req[r])

Uploaded(c) == c.op = "add" /\ c.at \in {"position", "row"}

\* A row stands for bytes that are there, unless an erasure has set out to delete them.
Backed == \A p \in PhotoIds : media[p] # None /\ media[p].discarded = FALSE => Keys(p) \subseteq objects

\* The photograph an upload is about to record is its own, and its bytes are there; the rows of one
\* whose bytes are being deleted have gone, or are an erasure's to delete.
Stored ==
  /\ Backed
  /\ \A r \in Requests : Uploaded(req[r]) =>
       /\ Keys(req[r].place) \subseteq objects /\ media[req[r].place] = None
       /\ \A s \in Requests : req[r].place \notin req[s].photos
       /\ \A s \in Requests : Uploaded(req[s]) /\ req[s].place = req[r].place => s = r
  /\ \A r \in Requests : \A p \in req[r].photos :
       media[p] = None \/ (req[r].op = "erase" /\ req[r].at \in {"bytes", "media"} /\ media[p].listing \in req[r].owned)

\* Uploads to a listing that have been counted in and have not ended.
Adding(id) == {r \in Requests : req[r].op = "add" /\ req[r].at \in {"put", "position", "row"} /\ req[r].id = id}

Within ==
  \A id \in ListingIds : Cardinality(listFor(id)) + Cardinality(Adding(id)) <= MediaLimit - 1 + Cardinality(Requests)

IInv == Types /\ Valid /\ InTurn /\ Stored /\ Within
-----------------------------------------------------------------------------
(* Requests *)

LEMMA Appended ==
  ASSUME NEW S, NEW q \in Seq(S), NEW e \in S
  PROVE  /\ Append(q, e) \in Seq(S) /\ Len(Append(q, e)) = Len(q) + 1
         /\ \A n \in 1..Len(q) : Append(q, e)[n] = q[n]
OBVIOUS

LEMMA PointOf ==
  ASSUME NEW postcode, NEW offset, NEW p, locate(postcode, p) \/ relocate(postcode, offset, p), p # None
  PROVE  p.of = postcode
BY DEF locate, relocate

LEMMA Values ==
  /\ Forms \subseteq Sent /\ Decisions \subseteq Sent /\ Configurations \subseteq Sent /\ None \in Sent
  /\ Records \subseteq Seen /\ Nat \subseteq Seen /\ Seq(PhotoIds) \subseteq Seen /\ None \in Seen
  /\ Places \subseteq Spots /\ Fuzzed \subseteq Spots /\ PhotoIds \subseteq Spots /\ None \in Spots
BY DEF Sent, Seen, Spots

\* An answered request leaves nothing behind.
LEMMA IdleFields ==
  /\ Idle \in Req /\ Idle.op = "idle" /\ Idle.owned = {} /\ Idle.kept = {} /\ Idle.photos = {}
  /\ Shape(Idle) /\ Pinned(Idle) /\ Current(Idle)
<1>1. Idle \in Req /\ Idle.op = "idle" /\ Idle.owned = {} /\ Idle.kept = {} /\ Idle.photos = {}
  BY Values DEF Idle, Req, Ops, Stages, Users, Targets
<1> HIDE DEF Idle
<1>2. Shape(Idle) /\ Pinned(Idle) /\ Current(Idle)
  BY <1>1 DEF Shape, Pinned, Current, CurrentIn, Relies, OwnerOps
<1> QED BY <1>1, <1>2

\* c is d further on.
Further(c, d) ==
  /\ c.op = d.op /\ c.user = d.user /\ c.id = d.id /\ c.form = d.form
  /\ c.owned = d.owned

LEMMA AdvanceFields ==
  ASSUME NEW r \in Requests, req \in [Requests -> Req], NEW at \in Stages, Advance(r, at)
  PROVE  \E c \in Req : /\ req' = [req EXCEPT ![r] = c] /\ Further(c, req[r]) /\ c.at = at
                        /\ c.pin = req[r].pin /\ c.seen = req[r].seen /\ c.place = req[r].place
                        /\ c.kept = req[r].kept /\ c.photos = req[r].photos
<1> DEFINE c == [req[r] EXCEPT !.at = at]
<1>1. c \in Req /\ Further(c, req[r]) /\ c.at = at
                /\ c.pin = req[r].pin /\ c.seen = req[r].seen /\ c.place = req[r].place
                /\ c.kept = req[r].kept /\ c.photos = req[r].photos
  BY DEF Req, Further
<1>2. req' = [req EXCEPT ![r] = c]
  BY DEF Advance
<1> QED BY Zenon, <1>1, <1>2

LEMMA PinFields ==
  ASSUME NEW r \in Requests, req \in [Requests -> Req], NEW at \in Stages, Latest \in Nat, Pin(r, at)
  PROVE  \E c \in Req : /\ req' = [req EXCEPT ![r] = c] /\ Further(c, req[r]) /\ c.at = at
                        /\ c.pin = Latest /\ c.seen = req[r].seen /\ c.place = req[r].place
                        /\ c.kept = req[r].kept /\ c.photos = req[r].photos
<1> DEFINE c == [req[r] EXCEPT !.at = at, !.pin = Latest]
<1>1. c \in Req /\ Further(c, req[r]) /\ c.at = at
                /\ c.pin = Latest /\ c.seen = req[r].seen /\ c.place = req[r].place
                /\ c.kept = req[r].kept /\ c.photos = req[r].photos
  BY Zenon DEF Req, Further
<1>2. req' = [req EXCEPT ![r] = c]
  BY Zenon DEF Pin
<1> QED BY Zenon, <1>1, <1>2
-----------------------------------------------------------------------------
(* Steps of one request *)

\* The shapes of the tables after a step, and the shape of the request that took it.
LEMMA TypesStep ==
  ASSUME Types, NEW r \in Requests, NEW c \in Req, Shape(c), req' = [req EXCEPT ![r] = c], usage' = usage,
         TypeOK', IsFiniteSet({p \in PhotoIds : media'[p] # None})
  PROVE  Types'
<1>1. \A s \in Requests : req'[s] = IF s = r THEN c ELSE req[s]
  BY DEF Types
<1>2. req' \in [Requests -> Req]
  BY DEF Types
<1>3. \A s \in Requests : Shape(req[s])'
  BY <1>1 DEF Types, Shape, Placed
<1> QED BY <1>2, <1>3 DEF Types

LEMMA TypesKept ==
  ASSUME Types, UNCHANGED <<versions, listings, locations, media, objects>>, booked' \subseteq ListingIds,
         draws' \in 0..MaxDraws, trail' \in [ListingIds -> SUBSET ModerationStates]
  PROVE  TypeOK' /\ IsFiniteSet({p \in PhotoIds : media'[p] # None})
BY DEF Types, TypeOK, Exists, Latest

LEMMA ValidStep ==
  ASSUME Types, Valid, NEW r \in Requests, NEW c \in Req, Pinned(c), req' = [req EXCEPT ![r] = c],
         UNCHANGED <<versions, listings>>
  PROVE  Valid'
<1>1. \A s \in Requests : req'[s] = IF s = r THEN c ELSE req[s]
  BY DEF Types
<1>2. PinnedAnswersFit'
  BY DEF Valid, PinnedAnswersFit, Exists, Latest
<1>3. \A s \in Requests : Pinned(req[s])'
  BY <1>1 DEF Valid, Pinned, Fits, Latest
<1> QED BY <1>2, <1>3 DEF Valid

LEMMA PinnedKept ==
  ASSUME NEW s \in Requests, NEW d, d = req'[s], Pinned(d), versions' = versions
  PROVE  Pinned(req[s])'
BY Zenon DEF Pinned, Fits, Latest

\* Who asks: the owner whose request it was, one who has no other in flight, or no owner.
MayGoOn(r, c) ==
  \/ c.op \notin OwnerOps
  \/ req[r].op \in OwnerOps /\ req[r].user = c.user
  \/ usage.serial => \A s \in Requests : ~(req[s].op \in OwnerOps /\ req[s].user = c.user)

LEMMA AloneStep ==
  ASSUME Types, NEW r \in Requests, NEW c \in Req, req' = [req EXCEPT ![r] = c], usage' = usage, MayGoOn(r, c),
         usage.serial => Alone
  PROVE  usage'.serial => Alone'
<1>1. \A s \in Requests : req'[s] = IF s = r THEN c ELSE req[s]
  BY DEF Types
<1> QED BY <1>1 DEF Alone, MayGoOn

LEMMA InTurnStep ==
  ASSUME Types, InTurn, NEW r \in Requests, NEW c \in Req, req' = [req EXCEPT ![r] = c], MayGoOn(r, c),
         usage.serial => Current(c), UNCHANGED <<versions, listings, locations, usage>>
  PROVE  InTurn'
<1>1. \A s \in Requests : req'[s] = IF s = r THEN c ELSE req[s]
  BY DEF Types
<1>2. usage'.serial => Alone'
  BY Zenon, AloneStep DEF InTurn
<1>3. ASSUME usage.serial, NEW s \in Requests
      PROVE  Current(req[s])'
  BY <1>1, <1>3 DEF InTurn, Current
<1>4. usage'.serial => PointMatchesAddress'
  BY DEF InTurn, PointMatchesAddress, IsLocated
<1>5. usage'.serial =>
        \A id \in ListingIds : Exists(id)' => Whole(listings'[id], locations'[id], versions')
  BY DEF InTurn, Exists
<1> QED BY <1>2, <1>3, <1>4, <1>5 DEF InTurn

\* A step that touches no row and removes no bytes, and is no upload's past its bytes.
LEMMA StoredStep ==
  ASSUME Types, Stored, NEW r \in Requests, NEW c \in Req, req' = [req EXCEPT ![r] = c],
         media' = media, objects \subseteq objects',
         c.photos = {}, Uploaded(c) => Uploaded(req[r]) /\ c.place = req[r].place
  PROVE  Stored'
<1>1. \A s \in Requests : req'[s] = IF s = r THEN c ELSE req[s]
  BY DEF Types
<1>2. Backed'
  BY DEF Stored, Backed
<1>3. \A s \in Requests : Uploaded(req[s])' =>
       /\ Keys(req'[s].place) \subseteq objects' /\ media'[req'[s].place] = None
       /\ \A t \in Requests : req'[s].place \notin req'[t].photos
       /\ \A t \in Requests : Uploaded(req[t])' /\ req'[t].place = req'[s].place => t = s
  BY <1>1 DEF Stored, Uploaded
<1>4. \A s \in Requests : \A p \in req'[s].photos :
       media'[p] = None
         \/ (req'[s].op = "erase" /\ req'[s].at \in {"bytes", "media"} /\ media'[p].listing \in req'[s].owned)
  BY <1>1 DEF Stored
<1> QED BY <1>2, <1>3, <1>4 DEF Stored

\* The sets that are counted are finite.
LEMMA Counted ==
  ASSUME Types, NEW id \in ListingIds
  PROVE  /\ IsFiniteSet(listFor(id)) /\ Cardinality(listFor(id)) \in Nat
         /\ IsFiniteSet(Adding(id)) /\ Cardinality(Adding(id)) \in Nat /\ Cardinality(Adding(id)) <= Cardinality(Requests)
         /\ Cardinality(Requests) \in Nat
<1>1. listFor(id) \subseteq {p \in PhotoIds : media[p] # None}
  BY DEF listFor, listForListings
<1>2. IsFiniteSet(listFor(id)) /\ Cardinality(listFor(id)) \in Nat
  BY <1>1, FS_Subset, FS_CardinalityType DEF Types
<1>3. Adding(id) \subseteq Requests
  BY DEF Adding
<1>4. IsFiniteSet(Adding(id)) /\ Cardinality(Adding(id)) <= Cardinality(Requests)
  BY <1>3, FS_Subset, ListingsAssumption
<1>5. Cardinality(Adding(id)) \in Nat /\ Cardinality(Requests) \in Nat
  BY <1>4, FS_CardinalityType, ListingsAssumption
<1> QED BY <1>2, <1>4, <1>5

\* A step that writes no row for a photograph and counts no upload in.
LEMMA WithinStep ==
  ASSUME Types, Within, NEW r \in Requests, NEW c \in Req, req' = [req EXCEPT ![r] = c],
         \A id \in ListingIds : listFor(id)' \subseteq listFor(id),
         c.op = "add" /\ c.at \in {"put", "position", "row"} =>
           req[r].op = "add" /\ req[r].at \in {"put", "position", "row"} /\ c.id = req[r].id
  PROVE  Within'
<1> SUFFICES ASSUME NEW id \in ListingIds
             PROVE  Cardinality(listFor(id)') + Cardinality(Adding(id)') <= MediaLimit - 1 + Cardinality(Requests)
  BY DEF Within
<1>1. \A s \in Requests : req'[s] = IF s = r THEN c ELSE req[s]
  BY DEF Types
<1>2. Adding(id)' \subseteq Adding(id)
  BY <1>1 DEF Adding
<1>3. Cardinality(Adding(id)') <= Cardinality(Adding(id)) /\ Cardinality(Adding(id)') \in Nat
  BY <1>2, Counted, FS_Subset, FS_CardinalityType
<1>4. Cardinality(listFor(id)') <= Cardinality(listFor(id)) /\ Cardinality(listFor(id)') \in Nat
  BY Counted, FS_Subset, FS_CardinalityType
<1>5. Cardinality(listFor(id)) + Cardinality(Adding(id)) <= MediaLimit - 1 + Cardinality(Requests)
  BY DEF Within
<1> QED BY <1>3, <1>4, <1>5, Counted, ListingsAssumption

\* A step of a request that changes none of the tables the invariant is about.
LEMMA QuietStep ==
  ASSUME IInv, NEW r \in Requests, NEW c \in Req, req' = [req EXCEPT ![r] = c],
         UNCHANGED <<versions, listings, locations, media, objects, usage>>,
         booked' \subseteq ListingIds, draws' \in 0..MaxDraws, trail' \in [ListingIds -> SUBSET ModerationStates],
         Shape(c), Pinned(c), usage.serial => Current(c), MayGoOn(r, c),
         c.photos = {}, Uploaded(c) => Uploaded(req[r]) /\ c.place = req[r].place,
         c.op = "add" /\ c.at \in {"put", "position", "row"} =>
           req[r].op = "add" /\ req[r].at \in {"put", "position", "row"} /\ c.id = req[r].id
  PROVE  IInv'
<1>1. Types /\ Valid /\ InTurn /\ Stored /\ Within
  BY DEF IInv
<1>2. TypeOK' /\ IsFiniteSet({p \in PhotoIds : media'[p] # None})
  BY <1>1, TypesKept
<1>3. Types'
  BY Zenon, <1>1, <1>2, TypesStep
<1>4. Valid'
  BY Zenon, <1>1, ValidStep
<1>5. InTurn'
  BY Zenon, <1>1, InTurnStep
<1>6. Stored'
  BY Zenon, <1>1, StoredStep
<1>7. \A id \in ListingIds : listFor(id)' \subseteq listFor(id)
  BY DEF listFor, listForListings
<1>8. Within'
  BY Zenon, <1>1, <1>7, WithinStep
<1> QED BY <1>3, <1>4, <1>5, <1>6, <1>8 DEF IInv
\* A request that is asked and has only read.
LEMMA AskStep ==
  ASSUME IInv, NEW r \in Requests, NEW c \in Req, req[r] = Idle, req' = [req EXCEPT ![r] = c],
         UNCHANGED <<stored, outside>>, draws' \in 0..MaxDraws,
         Shape(c), Pinned(c), usage.serial => Current(c), c.photos = {}, c.op # "add" \/ c.at = "count",
         c.op \in OwnerOps => MayAsk(r, c.op, c.user)
  PROVE  IInv'
<1>1. UNCHANGED <<versions, listings, locations, media, objects, usage>> /\ booked' = booked /\ trail' = trail
  BY DEF stored, outside
<1>2. booked' \subseteq ListingIds /\ trail' \in [ListingIds -> SUBSET ModerationStates]
  BY <1>1 DEF IInv, Types, TypeOK
<1>3. MayGoOn(r, c)
  BY DEF MayGoOn, MayAsk
<1> QED BY Zenon, <1>1, <1>2, <1>3, QuietStep DEF Uploaded

\* A request that goes on, having read and written nothing.
LEMMA GoOnStep ==
  ASSUME IInv, NEW r \in Requests, NEW c \in Req, req' = [req EXCEPT ![r] = c],
         req[r].op \notin {"add", "remove", "erase"}, c.op = req[r].op, c.user = req[r].user,
         UNCHANGED <<stored, outside>>, draws' \in 0..MaxDraws,
         Shape(c), Pinned(c), usage.serial => Current(c)
  PROVE  IInv'
<1>1. UNCHANGED <<versions, listings, locations, media, objects, usage>> /\ booked' = booked /\ trail' = trail
  BY DEF stored, outside
<1>2. booked' \subseteq ListingIds /\ trail' \in [ListingIds -> SUBSET ModerationStates]
  BY <1>1 DEF IInv, Types, TypeOK
<1>3. MayGoOn(r, c)
  BY DEF MayGoOn
<1>4. c.photos = {}
  BY DEF Shape
<1> QED BY Zenon, <1>1, <1>2, <1>3, <1>4, QuietStep DEF Uploaded

\* A request that is answered, having changed none of the tables the invariant is about.
LEMMA EndStep ==
  ASSUME IInv, NEW r \in Requests, Finish(r),
         UNCHANGED <<versions, listings, locations, media, objects, usage>>,
         booked' \subseteq ListingIds, draws' \in 0..MaxDraws, trail' \in [ListingIds -> SUBSET ModerationStates]
  PROVE  IInv'
<1>1. req' = [req EXCEPT ![r] = Idle]
  BY DEF Finish
<1>2. MayGoOn(r, Idle) /\ ~Uploaded(Idle) /\ Idle.op # "add"
  BY IdleFields DEF MayGoOn, Uploaded, OwnerOps
<1> QED BY Zenon, <1>1, <1>2, IdleFields, QuietStep

LEMMA RefuseStep ==
  ASSUME IInv, NEW r \in Requests, Finish(r), UNCHANGED <<stored, outside, draws>>
  PROVE  IInv'
<1>1. UNCHANGED <<versions, listings, locations, media, objects, usage, booked, trail, draws>>
  BY DEF stored, outside
<1>2. booked' \subseteq ListingIds /\ draws' \in 0..MaxDraws /\ trail' \in [ListingIds -> SUBSET ModerationStates]
  BY <1>1 DEF IInv, Types, TypeOK
<1> QED BY <1>1, <1>2, EndStep

LEMMA Drawn ==
  ASSUME IInv, draws' = draws
  PROVE  draws' \in 0..MaxDraws
BY DEF IInv, Types, TypeOK

LEMMA LatestIs ==
  ASSUME IInv
  PROVE  Latest \in Nat /\ Latest \in 1..Latest
BY DEF IInv, Types, TypeOK

LEMMA Requested ==
  ASSUME IInv
  PROVE  /\ req \in [Requests -> Req]
         /\ "place" \in Stages /\ "pin" \in Stages /\ "insert" \in Stages /\ "write" \in Stages /\ "audit" \in Stages
         /\ "put" \in Stages /\ "media" \in Stages /\ "rows" \in Stages
BY DEF IInv, Types, Stages

\* The record of a row is one.
LEMMA RecordOf ==
  ASSUME IInv, NEW id \in ListingIds, NEW o \in Owners, findOwnedBy(id, o) # None
  PROVE  /\ Mine(listings[id], o) /\ findOwnedBy(id, o) \in Records
         /\ AsRead(findOwnedBy(id, o), listings[id], locations[id])
<1>1. Mine(listings[id], o) /\ findOwnedBy(id, o) = toRecord(id)
  BY DEF findOwnedBy, Mine, Exists
<1>2. listings[id] \in ListingRows /\ locations[id] \in LocationRows \cup {None}
  BY <1>1 DEF IInv, Types, TypeOK, Mine
<1>3. listings[id].content \in Contents /\ listings[id].pin \in Nat /\ listings[id].status \in Statuses
      /\ listings[id].moderation \in ModerationStates
  BY <1>2, ListingsAssumption DEF ListingRows, Contents
<1>4. Postcode(locations[id]) \in Postcodes \cup {None}
  BY <1>2 DEF Postcode, LocationRows, Postcodes
<1> DEFINE b == IsLocated(id)
<1>5. b \in BOOLEAN /\ (b <=> Sited(locations[id]))
  BY DEF IsLocated, Sited
<1>6. toRecord(id) = [content |-> listings[id].content, pin |-> listings[id].pin, status |-> listings[id].status,
                      moderation |-> listings[id].moderation, postcode |-> Postcode(locations[id]), located |-> b]
  BY DEF toRecord, Postcode
<1> HIDE DEF b
<1>7. toRecord(id) \in Records /\ toRecord(id).located = b
      /\ toRecord(id).content = listings[id].content /\ toRecord(id).pin = listings[id].pin
      /\ toRecord(id).status = listings[id].status /\ toRecord(id).postcode = Postcode(locations[id])
  BY <1>3, <1>4, <1>5, <1>6 DEF Records
<1>8. (toRecord(id).located = TRUE) <=> Sited(locations[id])
  BY Zenon, <1>7, <1>5
<1> QED BY <1>1, <1>7, <1>8 DEF AsRead
-----------------------------------------------------------------------------
(* Creating and editing *)

LEMMA createDraftKeeps ==
  ASSUME IInv, NEW r \in Requests, NEW o \in Owners, NEW f \in usage.forms, createDraft(r, o, f)
  PROVE  IInv'
<1>1. f \in Forms /\ req[r] = Idle /\ UNCHANGED <<stored, outside>> /\ MayAsk(r, "create", o)
  BY ListingsAssumption DEF createDraft, MayAsk, IInv, Types
<1>2. PICK place \in Fuzzed \cup {None} :
        /\ IF f.postcode = None THEN place = None /\ UNCHANGED draws ELSE locate(f.postcode, place)
        /\ req' = [req EXCEPT ![r] = [Ask(r, "create", "pin", o, None) EXCEPT !.form = f, !.place = place]]
  BY Zenon DEF createDraft
<1>3. draws' \in 0..MaxDraws /\ (place # None => place.of = f.postcode)
  BY <1>2, ListingsAssumption DEF locate, IInv, Types, TypeOK
<1> DEFINE c == [Ask(r, "create", "pin", o, None) EXCEPT !.form = f, !.place = place]
<1>4. c \in Req /\ c.op = "create" /\ c.at = "pin" /\ c.user = o /\ c.form = f /\ c.place = place
      /\ c.owned = {} /\ c.kept = {} /\ c.photos = {}
  <2>1. "create" \in Ops /\ "pin" \in Stages
    BY DEF Ops, Stages
  <2> QED BY Zenon, <1>1, <2>1, Values DEF Ask, Idle, Req, Users, Targets
<1>5. req' = [req EXCEPT ![r] = c]
  BY <1>2
<1> HIDE DEF c
<1>6. Shape(c)
  BY <1>1, <1>3, <1>4 DEF Shape, OwnerOps
<1>7. Pinned(c)
  BY Zenon, <1>4, LatestIs DEF Pinned, Fits, createDraft, FormAccepted
<1>8. Current(c)
  BY <1>4 DEF Current, CurrentIn, Relies
<1> QED BY Zenon, <1>1, <1>3, <1>4, <1>5, <1>6, <1>7, <1>8, AskStep

LEMMA createDraftPinKeeps ==
  ASSUME IInv, NEW r \in Requests, createDraftPin(r)
  PROVE  IInv'
<1>1. req[r].op = "create" /\ req[r].at = "pin" /\ UNCHANGED <<stored, outside, draws>>
  BY DEF createDraftPin
<1>2. CASE Finish(r)
  BY <1>1, <1>2, RefuseStep
<1>3. CASE req[r].form.version = Latest /\ Pin(r, "insert")
  <2>1. PICK c \in Req : /\ req' = [req EXCEPT ![r] = c] /\ Further(c, req[r]) /\ c.at = "insert"
                         /\ c.pin = Latest /\ c.seen = req[r].seen /\ c.place = req[r].place
                         /\ c.kept = req[r].kept /\ c.photos = req[r].photos
    BY Zenon, <1>3, PinFields, LatestIs, Requested
  <2>2. Shape(req[r]) /\ Pinned(req[r])
    BY DEF IInv, Types, Valid
  <2>3. Shape(c) /\ Pinned(c) /\ Current(c)
    BY Zenon, <1>1, <1>3, <2>1, <2>2 DEF Shape, Pinned, Current, CurrentIn, Relies, Further, OwnerOps
  <2> QED BY Zenon, <1>1, <2>1, <2>3, Drawn, GoOnStep DEF Further
<1> QED BY <1>2, <1>3 DEF createDraftPin

LEMMA editKeeps ==
  ASSUME IInv, NEW r \in Requests, NEW o \in Owners, NEW id \in ListingIds, NEW f \in usage.forms, edit(r, o, id, f)
  PROVE  IInv'
<1>1. f \in Forms /\ req[r] = Idle /\ UNCHANGED <<stored, outside, draws>> /\ MayAsk(r, "edit", o)
  BY ListingsAssumption DEF edit, MayAsk, IInv, Types
<1>2. findOwnedBy(id, o) # None
  BY DEF edit
<1>3. PICK seen : seen = findOwnedBy(id, o)
  OBVIOUS
<1>4. Mine(listings[id], o) /\ seen \in Records /\ AsRead(seen, listings[id], locations[id])
  BY <1>2, <1>3, RecordOf
<1> DEFINE c == [Ask(r, "edit", "option", o, id) EXCEPT !.form = f, !.seen = seen]
<1>5. c \in Req /\ c.op = "edit" /\ c.at = "option" /\ c.user = o /\ c.id = id /\ c.form = f /\ c.seen = seen
      /\ c.owned = {} /\ c.kept = {} /\ c.photos = {}
  <2>1. "edit" \in Ops /\ "option" \in Stages
    BY DEF Ops, Stages
  <2> QED BY Zenon, <1>1, <1>4, <2>1, Values DEF Ask, Idle, Req, Users, Targets
<1>6. req' = [req EXCEPT ![r] = c]
  BY Zenon, <1>3 DEF edit
<1> HIDE DEF c
<1>7. Shape(c) /\ Pinned(c)
  BY Zenon, <1>1, <1>4, <1>5 DEF Shape, Pinned, OwnerOps
<1>8. Current(c)
  BY Zenon, <1>4, <1>5 DEF Current, CurrentIn, Relies
<1> QED BY Zenon, <1>1, <1>5, <1>6, <1>7, <1>8, AskStep, Drawn
LEMMA editOptionKeeps ==
  ASSUME IInv, NEW r \in Requests, editOption(r)
  PROVE  IInv'
<1>1. req[r].op = "edit" /\ req[r].at = "option" /\ UNCHANGED <<stored, outside, draws>>
  BY DEF editOption
<1>2. CASE Finish(r)
  BY <1>1, <1>2, RefuseStep
<1>3. CASE FormAccepted(req[r].form) /\ Advance(r, "place")
  <2>1. PICK c \in Req : /\ req' = [req EXCEPT ![r] = c] /\ Further(c, req[r]) /\ c.at = "place"
                         /\ c.pin = req[r].pin /\ c.seen = req[r].seen /\ c.place = req[r].place
                         /\ c.kept = req[r].kept /\ c.photos = req[r].photos
    BY Zenon, <1>3, AdvanceFields, Requested
  <2>2. Shape(req[r]) /\ (usage.serial => Current(req[r]))
    BY DEF IInv, Types, InTurn
  <2>3. Shape(c)
    BY Zenon, <1>1, <2>1, <2>2 DEF Shape, Further, OwnerOps
  <2>4. Pinned(c)
    BY Zenon, <1>1, <1>3, <2>1, LatestIs DEF Pinned, Fits, FormAccepted, Further
  <2>5. usage.serial => Current(c)
    BY <1>1, <2>1, <2>2 DEF Current, CurrentIn, Relies, Further
  <2> QED BY Zenon, <1>1, <2>1, <2>3, <2>4, <2>5, Drawn, GoOnStep DEF Further
<1> QED BY <1>2, <1>3 DEF editOption

LEMMA editPlaceKeeps ==
  ASSUME IInv, NEW r \in Requests, editPlace(r)
  PROVE  IInv'
<1>1. req[r].op = "edit" /\ req[r].at = "place" /\ UNCHANGED <<stored, outside>> /\ req[r] \in Req
  BY DEF editPlace, IInv, Types
<1>2. PICK place \in Places : editedLocation(r, place)
                              /\ req' = [req EXCEPT ![r].at = "complete", ![r].place = place]
  BY Zenon DEF editPlace
<1> DEFINE c == [req[r] EXCEPT !.at = "complete", !.place = place]
<1>3. c \in Req /\ c.op = "edit" /\ c.at = "complete" /\ c.place = place
      /\ c.user = req[r].user /\ c.id = req[r].id /\ c.form = req[r].form /\ c.seen = req[r].seen
      /\ c.owned = req[r].owned /\ c.kept = req[r].kept /\ c.photos = req[r].photos
  BY Zenon, <1>1, Values DEF Req, Stages
<1>4. req' = [req EXCEPT ![r] = c]
  BY Zenon, <1>2 DEF IInv, Types
<1> HIDE DEF c
<1>5. Shape(req[r]) /\ Pinned(req[r]) /\ (usage.serial => Current(req[r]))
  BY Zenon DEF IInv, Types, Valid, InTurn
<1>6. req[r].seen \in Records
  BY <1>1, <1>5 DEF Shape
<1>7. draws' \in 0..MaxDraws
  BY <1>2, ListingsAssumption DEF editedLocation, locate, relocate, IInv, Types, TypeOK
<1>8. /\ place.kind = "cleared" <=> c.form.postcode = None
      /\ place.kind = "address-only" => c.form.postcode = c.seen.postcode /\ c.seen.located = TRUE
      /\ place.kind = "relocated" /\ place.point # None => place.point.of = c.form.postcode
  <2>1. CASE req[r].form.postcode = None
    <3>1. place = [kind |-> "cleared"]
      BY Zenon, <1>2, <2>1 DEF editedLocation
    <3>2. place.kind = "cleared"
      BY <3>1
    <3> QED BY Zenon, <1>3, <2>1, <3>2
  <2>2. CASE req[r].form.postcode # None /\ req[r].seen.postcode = req[r].form.postcode /\ req[r].seen.located
    <3>1. place = [kind |-> "address-only"]
      BY Zenon, <1>2, <2>2 DEF editedLocation
    <3>2. place.kind = "address-only"
      BY <3>1
    <3>3. req[r].seen.located = TRUE
      BY Zenon, <1>6, <2>2 DEF Records
    <3> QED BY Zenon, <1>3, <2>2, <3>2, <3>3
  <2>3. CASE req[r].form.postcode # None /\ ~(req[r].seen.postcode = req[r].form.postcode /\ req[r].seen.located)
    <3>1. /\ place.kind = "relocated"
          /\ \/ locate(req[r].form.postcode, place.point)
             \/ relocate(req[r].form.postcode, findFuzzOffset(req[r].id), place.point)
      BY Zenon, <1>2, <2>3 DEF editedLocation
    <3>2. place.point # None => place.point.of = req[r].form.postcode
      BY Zenon, <3>1, PointOf
    <3> QED BY Zenon, <1>3, <2>3, <3>1, <3>2
  <2> QED BY Zenon, <2>1, <2>2, <2>3
<1>9. Shape(c)
  BY Zenon, <1>1, <1>3, <1>5, <1>8 DEF Shape, Placed, OwnerOps
<1>10. Pinned(c)
  BY <1>1, <1>3, <1>5 DEF Pinned
<1>11. usage.serial => Current(c)
  BY Zenon, <1>1, <1>3, <1>5 DEF Current, CurrentIn, Relies
<1> QED BY Zenon, <1>1, <1>3, <1>4, <1>7, <1>9, <1>10, <1>11, GoOnStep

LEMMA editCompleteKeeps ==
  ASSUME IInv, NEW r \in Requests, editComplete(r)
  PROVE  IInv'
<1>1. req[r].op = "edit" /\ req[r].at = "complete" /\ UNCHANGED <<stored, outside, draws>>
  BY DEF editComplete
<1>2. CASE Finish(r)
  BY <1>1, <1>2, RefuseStep
<1>3. CASE ~(/\ req[r].seen.status = "PUBLISHED"
             /\ publicationBlockers(req[r].form.content, versions[req[r].form.version],
                                    req[r].place.kind # "cleared", willBeLocated(req[r].place),
                                    ownerStatus[req[r].user]) # {})
           /\ Advance(r, "pin")
  <2>1. PICK c \in Req : /\ req' = [req EXCEPT ![r] = c] /\ Further(c, req[r]) /\ c.at = "pin"
                         /\ c.pin = req[r].pin /\ c.seen = req[r].seen /\ c.place = req[r].place
                         /\ c.kept = req[r].kept /\ c.photos = req[r].photos
    BY Zenon, <1>3, AdvanceFields, Requested
  <2>2. Shape(req[r]) /\ Pinned(req[r]) /\ (usage.serial => Current(req[r]))
    BY DEF IInv, Types, Valid, InTurn
  <2>3. Shape(c)
    BY Zenon, <1>1, <2>1, <2>2 DEF Shape, Placed, Further, OwnerOps
  <2>4. Pinned(c)
    BY Zenon, <1>1, <2>1, <2>2 DEF Pinned, Further
  <2>5. req[r].seen.status = "PUBLISHED" =>
          Answered(req[r].form.content, versions[req[r].form.version]) /\ willBeLocated(req[r].place)
    BY Zenon, <1>3 DEF publicationBlockers, Answered
  <2>6. usage.serial => Current(c)
    BY Zenon, <1>1, <2>1, <2>2, <2>5 DEF Current, CurrentIn, Relies, Further
  <2> QED BY Zenon, <1>1, <2>1, <2>3, <2>4, <2>6, Drawn, GoOnStep DEF Further
<1> QED BY Zenon, <1>2, <1>3 DEF editComplete

LEMMA updatePinKeeps ==
  ASSUME IInv, NEW r \in Requests, updatePin(r)
  PROVE  IInv'
<1>1. req[r].op = "edit" /\ req[r].at = "pin" /\ UNCHANGED <<stored, outside, draws>>
  BY DEF updatePin
<1>2. CASE Finish(r)
  BY <1>1, <1>2, RefuseStep
<1>3. CASE req[r].form.version = Latest /\ Pin(r, "write")
  <2>1. PICK c \in Req : /\ req' = [req EXCEPT ![r] = c] /\ Further(c, req[r]) /\ c.at = "write"
                         /\ c.pin = Latest /\ c.seen = req[r].seen /\ c.place = req[r].place
                         /\ c.kept = req[r].kept /\ c.photos = req[r].photos
    BY Zenon, <1>3, PinFields, LatestIs, Requested
  <2>2. Shape(req[r]) /\ Pinned(req[r]) /\ (usage.serial => Current(req[r]))
    BY DEF IInv, Types, Valid, InTurn
  <2>3. Shape(c)
    BY Zenon, <1>1, <2>1, <2>2 DEF Shape, Placed, Further, OwnerOps
  <2>4. Pinned(c)
    BY <1>1, <1>3, <2>1, <2>2 DEF Pinned, Further
  <2>5. usage.serial => Current(c)
    BY Zenon, <1>1, <2>1, <2>2 DEF Current, CurrentIn, Relies, Further
  <2> QED BY Zenon, <1>1, <2>1, <2>3, <2>4, <2>5, Drawn, GoOnStep DEF Further
<1> QED BY <1>2, <1>3 DEF updatePin
-----------------------------------------------------------------------------
(* Publishing, pausing, moderating, and the category: what is only read *)

LEMMA publishKeeps ==
  ASSUME IInv, NEW r \in Requests, NEW o \in Owners, NEW id \in ListingIds, publish(r, o, id)
  PROVE  IInv'
<1>1. req[r] = Idle /\ UNCHANGED <<stored, outside, draws>> /\ MayAsk(r, "publish", o)
  BY DEF publish, MayAsk
<1> DEFINE c == Ask(r, "publish", "read", o, id)
<1>2. c \in Req /\ c.op = "publish" /\ c.at = "read" /\ c.user = o /\ c.id = id
      /\ c.owned = {} /\ c.kept = {} /\ c.photos = {}
  <2>1. "publish" \in Ops /\ "read" \in Stages
    BY DEF Ops, Stages
  <2> QED BY Zenon, <2>1, Values DEF Ask, Idle, Req, Users, Targets
<1>3. req' = [req EXCEPT ![r] = c]
  BY DEF publish
<1> HIDE DEF c
<1>4. Shape(c) /\ Pinned(c) /\ Current(c)
  BY Zenon, <1>2 DEF Shape, Pinned, Current, CurrentIn, Relies, OwnerOps
<1> QED BY Zenon, <1>1, <1>2, <1>3, <1>4, AskStep, Drawn

LEMMA publishReadKeeps ==
  ASSUME IInv, NEW r \in Requests, publishRead(r)
  PROVE  IInv'
<1>1. req[r].op = "publish" /\ req[r].at = "read" /\ UNCHANGED <<stored, outside, draws>> /\ req[r] \in Req
  BY DEF publishRead, IInv, Types
<1>2. CASE Finish(r)
  BY <1>1, <1>2, RefuseStep
<1>3. CASE ~Finish(r)
  <2>1. PICK seen : seen = findOwnedBy(req[r].id, req[r].user)
    OBVIOUS
  <2>2. seen # None /\ req' = [req EXCEPT ![r].at = "complete", ![r].seen = seen]
    BY Zenon, <1>3, <2>1 DEF publishRead
  <2>3. Shape(req[r]) /\ req[r].user \in Owners /\ req[r].id \in ListingIds
    BY <1>1 DEF IInv, Types, Shape, OwnerOps
  <2>4. Mine(listings[req[r].id], req[r].user) /\ seen \in Records
        /\ AsRead(seen, listings[req[r].id], locations[req[r].id])
    BY <2>1, <2>2, <2>3, RecordOf
  <2> DEFINE c == [req[r] EXCEPT !.at = "complete", !.seen = seen]
  <2>5. c \in Req /\ c.op = "publish" /\ c.at = "complete" /\ c.seen = seen
        /\ c.user = req[r].user /\ c.id = req[r].id
        /\ c.owned = req[r].owned /\ c.kept = req[r].kept /\ c.photos = req[r].photos
    BY Zenon, <1>1, <2>4, Values DEF Req, Stages
  <2>6. req' = [req EXCEPT ![r] = c]
    BY Zenon, <2>2 DEF IInv, Types
  <2> HIDE DEF c
  <2>7. Shape(c) /\ Pinned(c)
    BY Zenon, <1>1, <2>3, <2>4, <2>5 DEF Shape, Pinned, OwnerOps
  <2>8. Current(c)
    BY Zenon, <2>4, <2>5 DEF Current, CurrentIn, Relies
  <2> QED BY Zenon, <1>1, <2>5, <2>6, <2>7, <2>8, Drawn, GoOnStep
<1> QED BY <1>2, <1>3

LEMMA publishCompleteKeeps ==
  ASSUME IInv, NEW r \in Requests, publishComplete(r)
  PROVE  IInv'
<1>1. req[r].op = "publish" /\ req[r].at = "complete" /\ UNCHANGED <<stored, outside, draws>>
  BY Zenon DEF publishComplete
<1>2. CASE Finish(r)
  BY <1>1, <1>2, RefuseStep
<1>3. CASE publicationBlockers(req[r].seen.content, versions[req[r].seen.pin], req[r].seen.postcode # None,
                               req[r].seen.located, ownerStatus[req[r].user]) = {}
           /\ Advance(r, "write")
  <2>1. PICK c \in Req : /\ req' = [req EXCEPT ![r] = c] /\ Further(c, req[r]) /\ c.at = "write"
                         /\ c.pin = req[r].pin /\ c.seen = req[r].seen /\ c.place = req[r].place
                         /\ c.kept = req[r].kept /\ c.photos = req[r].photos
    BY Zenon, <1>3, AdvanceFields, Requested
  <2>2. Shape(req[r]) /\ Pinned(req[r]) /\ (usage.serial => Current(req[r]))
    BY DEF IInv, Types, Valid, InTurn
  <2>3. Shape(c) /\ Pinned(c)
    BY <1>1, <2>1, <2>2 DEF Shape, Pinned, Further, OwnerOps
  <2>4. Answered(req[r].seen.content, versions[req[r].seen.pin])
    BY Zenon, <1>3 DEF publicationBlockers, Answered
  <2>5. req[r].seen.located = TRUE
    <3>1. req[r].seen.located \in BOOLEAN
      BY Zenon, <1>1, <2>2 DEF Shape, Records
    <3>2. ~(~req[r].seen.located)
      BY <1>3 DEF publicationBlockers
    <3> QED BY Zenon, <3>1, <3>2
  <2>6. usage.serial => Current(c)
    <3>1. usage.serial => /\ Mine(listings[req[r].id], req[r].user)
                          /\ AsRead(req[r].seen, listings[req[r].id], locations[req[r].id])
      BY Zenon, <1>1, <2>2 DEF Current, CurrentIn, Relies
    <3>2. usage.serial => /\ Answered(listings[req[r].id].content, versions[listings[req[r].id].pin])
                          /\ Sited(locations[req[r].id])
      BY <2>4, <2>5, <3>1 DEF AsRead
    <3> QED BY Zenon, <1>1, <2>1, <3>1, <3>2 DEF Current, CurrentIn, Relies, Further
  <2> QED BY Zenon, <1>1, <2>1, <2>3, <2>6, Drawn, GoOnStep DEF Further
<1> QED BY Zenon, <1>2, <1>3 DEF publishComplete

LEMMA pauseKeeps ==
  ASSUME IInv, NEW r \in Requests, NEW o \in Owners, NEW id \in ListingIds, pause(r, o, id)
  PROVE  IInv'
<1>1. req[r] = Idle /\ UNCHANGED <<stored, outside, draws>> /\ MayAsk(r, "pause", o)
  BY DEF pause, MayAsk
<1> DEFINE c == Ask(r, "pause", "write", o, id)
<1>2. c \in Req /\ c.op = "pause" /\ c.at = "write" /\ c.user = o /\ c.id = id
      /\ c.owned = {} /\ c.kept = {} /\ c.photos = {}
  <2>1. "pause" \in Ops /\ "write" \in Stages
    BY DEF Ops, Stages
  <2> QED BY Zenon, <2>1, Values DEF Ask, Idle, Req, Users, Targets
<1>3. req' = [req EXCEPT ![r] = c]
  BY DEF pause
<1> HIDE DEF c
<1>4. Shape(c) /\ Pinned(c) /\ Current(c)
  BY Zenon, <1>2 DEF Shape, Pinned, Current, CurrentIn, Relies, OwnerOps
<1> QED BY Zenon, <1>1, <1>2, <1>3, <1>4, AskStep, Drawn

LEMMA moderateKeeps ==
  ASSUME IInv, NEW r \in Requests, NEW id \in ListingIds, NEW state \in ModerationStates, NEW reason \in BOOLEAN,
         moderate(r, id, state, reason)
  PROVE  IInv'
<1>1. req[r] = Idle /\ UNCHANGED <<stored, outside, draws>>
  BY DEF moderate
<1>2. PICK form \in Decisions : form = [state |-> state, reason |-> reason]
  BY Zenon DEF Decisions
<1> DEFINE c == [Ask(r, "moderate", "write", None, id) EXCEPT !.form = form]
<1>3. c \in Req /\ c.op = "moderate" /\ c.at = "write" /\ c.id = id /\ c.form = form
      /\ c.owned = {} /\ c.kept = {} /\ c.photos = {}
  <2>1. "moderate" \in Ops /\ "write" \in Stages
    BY DEF Ops, Stages
  <2> QED BY Zenon, <2>1, Values DEF Ask, Idle, Req, Users, Targets
<1>4. req' = [req EXCEPT ![r] = c]
  BY <1>2 DEF moderate
<1> HIDE DEF c
<1>5. Shape(c) /\ Pinned(c) /\ Current(c)
  BY Zenon, <1>3 DEF Shape, Pinned, Current, CurrentIn, Relies, OwnerOps
<1> QED BY Zenon, <1>1, <1>3, <1>4, <1>5, AskStep, Drawn DEF OwnerOps

LEMMA moderateAuditKeeps ==
  ASSUME IInv, NEW r \in Requests, moderateAudit(r)
  PROVE  IInv'
<1>1. req[r].op = "moderate" /\ Finish(r)
      /\ UNCHANGED <<versions, listings, locations, media, objects, usage, booked, draws>>
  BY Zenon DEF moderateAudit, outside
<1>2. req[r].id \in ListingIds /\ req[r].form.state \in ModerationStates
  BY <1>1 DEF IInv, Types, Shape, Decisions
<1>3. trail' = [trail EXCEPT ![req[r].id] = @ \cup {req[r].form.state}]
  BY DEF moderateAudit
<1>4. booked' \subseteq ListingIds /\ draws' \in 0..MaxDraws /\ trail' \in [ListingIds -> SUBSET ModerationStates]
  BY <1>1, <1>2, <1>3 DEF IInv, Types, TypeOK
<1> QED BY <1>1, <1>4, EndStep

LEMMA reconfigureKeeps ==
  ASSUME IInv, NEW r \in Requests, NEW config \in Configurations, reconfigure(r, config)
  PROVE  IInv'
<1>1. req[r] = Idle /\ UNCHANGED <<stored, outside, draws>> /\ Latest \in Nat /\ Latest < MaxVersions
  BY LatestIs DEF reconfigure
<1> DEFINE c == [Ask(r, "reconfigure", "insert", None, None) EXCEPT !.form = config, !.seen = Latest]
<1>2. c \in Req /\ c.op = "reconfigure" /\ c.at = "insert" /\ c.form = config /\ c.seen = Latest
      /\ c.owned = {} /\ c.kept = {} /\ c.photos = {}
  <2>1. "reconfigure" \in Ops /\ "insert" \in Stages
    BY DEF Ops, Stages
  <2> QED BY Zenon, <1>1, <2>1, Values DEF Ask, Idle, Req, Users, Targets
<1>3. req' = [req EXCEPT ![r] = c]
  BY DEF reconfigure
<1> HIDE DEF c
<1>4. Shape(c) /\ Pinned(c) /\ Current(c)
  <2>1. Shape(c) /\ Current(c)
    BY Zenon, <1>1, <1>2 DEF Shape, Current, CurrentIn, Relies, OwnerOps
  <2>2. Pinned(c)
    BY <1>1, <1>2 DEF Pinned
  <2> QED BY <2>1, <2>2
<1> QED BY Zenon, <1>1, <1>2, <1>3, <1>4, AskStep, Drawn DEF OwnerOps

LEMMA requestBookingKeeps ==
  ASSUME IInv, NEW r \in Requests, NEW id \in ListingIds, requestBooking(r, id)
  PROVE  IInv'
<1>1. req[r] = Idle /\ UNCHANGED <<stored, outside, draws>>
  BY DEF requestBooking
<1> DEFINE c == Ask(r, "book", "insert", None, id)
<1>2. c \in Req /\ c.op = "book" /\ c.at = "insert" /\ c.id = id
      /\ c.owned = {} /\ c.kept = {} /\ c.photos = {}
  <2>1. "book" \in Ops /\ "insert" \in Stages
    BY DEF Ops, Stages
  <2> QED BY Zenon, <2>1, Values DEF Ask, Idle, Req, Users, Targets
<1>3. req' = [req EXCEPT ![r] = c]
  BY DEF requestBooking
<1> HIDE DEF c
<1>4. Shape(c) /\ Pinned(c) /\ Current(c)
  BY Zenon, <1>2 DEF Shape, Pinned, Current, CurrentIn, Relies, OwnerOps
<1> QED BY Zenon, <1>1, <1>2, <1>3, <1>4, AskStep, Drawn DEF OwnerOps

LEMMA insertBookingKeeps ==
  ASSUME IInv, NEW r \in Requests, insertBooking(r)
  PROVE  IInv'
<1>1. req[r].op = "book" /\ Finish(r)
      /\ UNCHANGED <<versions, listings, locations, media, objects, usage, trail, draws>>
  BY DEF insertBooking, stored
<1>2. req[r].id \in ListingIds
  BY Zenon, <1>1 DEF IInv, Types, Shape
<1>3. booked' \subseteq ListingIds /\ draws' \in 0..MaxDraws /\ trail' \in [ListingIds -> SUBSET ModerationStates]
  BY <1>1, <1>2 DEF insertBooking, IInv, Types, TypeOK
<1> QED BY <1>1, <1>3, EndStep
-----------------------------------------------------------------------------
(* Writing a listing *)

\* What a request has read stays so while nobody touches the listing, the versions and the ownership
\* that it is about.
LEMMA CurrentKept ==
  ASSUME NEW c, NEW rows, NEW locs, NEW configs, NEW rows2, NEW locs2, NEW configs2,
         CurrentIn(c, rows, locs, configs),
         Relies(c) => /\ Mine(rows2[c.id], c.user) /\ locs2[c.id] = locs[c.id]
                      /\ rows2[c.id].content = rows[c.id].content /\ rows2[c.id].pin = rows[c.id].pin
                      /\ rows2[c.id].status = rows[c.id].status,
         c.op = "edit" /\ c.at \in {"pin", "write"} => configs2[c.form.version] = configs[c.form.version],
         c.op = "publish" /\ c.at = "write" => configs2[rows[c.id].pin] = configs[rows[c.id].pin],
         c.op = "erase" => \A id \in c.owned : rows2[id] # None => rows2[id].owner = c.user
  PROVE  CurrentIn(c, rows2, locs2, configs2)
<1>1. c.op = "edit" \/ (c.op = "publish" /\ c.at = "complete") => AsRead(c.seen, rows2[c.id], locs2[c.id])
  BY Zenon DEF CurrentIn, Relies, AsRead
<1>2. c.op = "publish" /\ c.at = "write" =>
        Answered(rows2[c.id].content, configs2[rows2[c.id].pin]) /\ Sited(locs2[c.id])
  BY Zenon DEF CurrentIn, Relies
<1> QED BY Zenon, <1>1, <1>2 DEF CurrentIn

\* A step that writes no row for a photograph.
LEMMA RowStep ==
  ASSUME IInv, NEW r \in Requests, NEW c \in Req, req' = [req EXCEPT ![r] = c],
         UNCHANGED <<media, objects, usage>>, Shape(c), c.op # "add", c.photos = {},
         TypeOK', Valid', InTurn'
  PROVE  IInv'
<1>1. Types /\ Stored /\ Within
  BY DEF IInv
<1>2. IsFiniteSet({p \in PhotoIds : media'[p] # None})
  BY <1>1 DEF Types
<1>3. Types'
  BY Zenon, <1>1, <1>2, TypesStep
<1>4. Stored'
  BY Zenon, <1>1, StoredStep DEF Uploaded
<1>5. \A id \in ListingIds : listFor(id)' \subseteq listFor(id)
  BY DEF listFor, listForListings
<1>6. Within'
  BY Zenon, <1>1, <1>5, WithinStep
<1> QED BY <1>3, <1>4, <1>6 DEF IInv

\* A row that is written under its id, with its address: by its owner, or with everything a request may
\* have read of it as it was.
LEMMA WriteStep ==
  ASSUME IInv, NEW r \in Requests, NEW c \in Req, req' = [req EXCEPT ![r] = c],
         NEW id \in ListingIds, NEW row \in ListingRows, NEW loc \in LocationRows \cup {None},
         Exists(id), listings' = [listings EXCEPT ![id] = row], locations' = [locations EXCEPT ![id] = loc],
         UNCHANGED <<versions, media, objects, usage, booked, draws, trail>>,
         Shape(c), Pinned(c), c.op \notin OwnerOps, c.photos = {},
         row.owner = listings[id].owner, row.pin \in 1..Latest,
         validateAttributeValues(versions[row.pin], row.content.answers),
         row.content.transport # None => offersTransportRequirement(versions[row.pin], row.content.transport),
         usage.serial => (loc # None /\ loc.point # None => loc.point.of = loc.postcode),
         usage.serial => Whole(row, loc, versions),
         \/ req[r].op \in OwnerOps /\ req[r].user = listings[id].owner
         \/ /\ loc = locations[id] /\ row.content = listings[id].content /\ row.pin = listings[id].pin
            /\ row.status = listings[id].status
  PROVE  IInv'
<1>1. Types /\ Valid /\ InTurn
  BY Zenon DEF IInv
<1>2. \A s \in Requests : req'[s] = IF s = r THEN c ELSE req[s]
  BY Zenon, <1>1 DEF Types
<1>3. \A i \in ListingIds : /\ listings'[i] = IF i = id THEN row ELSE listings[i]
                            /\ locations'[i] = IF i = id THEN loc ELSE locations[i]
  BY Zenon, <1>1 DEF Types, TypeOK
<1>4. row # None
  BY Zenon, ListingsAssumption
<1>5. TypeOK'
  <2>1. listings' \in [ListingIds -> ListingRows \cup {None}] /\ locations' \in [ListingIds -> LocationRows \cup {None}]
    BY Zenon, <1>1 DEF Types, TypeOK
  <2>2. \A i \in ListingIds : ~Exists(i)' => locations'[i] = None
    BY Zenon, <1>1, <1>3, <1>4 DEF Types, TypeOK, Exists
  <2> QED BY Zenon, <1>1, <2>1, <2>2 DEF Types, TypeOK, Latest
<1>6. Valid'
  <2>1. PinnedAnswersFit'
    BY Zenon, <1>1, <1>3 DEF Valid, PinnedAnswersFit, Exists, Latest
  <2>2. ASSUME NEW s \in Requests
        PROVE  Pinned(req[s])'
    <3>1. Pinned(req[s])
      BY Zenon, <1>1 DEF Valid
    <3> QED BY Zenon, <1>2, <3>1, PinnedKept
  <2> QED BY <2>1, <2>2 DEF Valid
<1>7. ASSUME usage.serial
      PROVE  /\ Alone' /\ PointMatchesAddress'
             /\ \A i \in ListingIds : Exists(i)' => Whole(listings'[i], locations'[i], versions')
             /\ \A s \in Requests : Current(req[s])'
  <2>0. Alone /\ PointMatchesAddress
    BY Zenon, <1>1, <1>7 DEF InTurn
  <2>1. Alone'
    BY Zenon, <1>1, <1>7, <2>0, AloneStep DEF MayGoOn
  <2>2. PointMatchesAddress'
    <3>1. ASSUME NEW i \in ListingIds, IsLocated(i)'
          PROVE  locations'[i].point.of = locations'[i].postcode
      <4>1. CASE i = id
        BY Zenon, <1>3, <1>7, <3>1, <4>1 DEF IsLocated
      <4>2. CASE i # id
        <5>1. locations'[i] = locations[i]
          BY <1>3, <4>2
        <5> QED BY Zenon, <2>0, <3>1, <5>1 DEF PointMatchesAddress, IsLocated
      <4> QED BY Zenon, <4>1, <4>2
    <3> QED BY Zenon, <3>1 DEF PointMatchesAddress
  <2>3. \A i \in ListingIds : Exists(i)' => Whole(listings'[i], locations'[i], versions')
    <3>1. ASSUME NEW i \in ListingIds, Exists(i)'
          PROVE  Whole(listings'[i], locations'[i], versions')
      <4>1. CASE i = id
        <5>1. listings'[i] = row /\ locations'[i] = loc
          BY Zenon, <1>3, <4>1
        <5> QED BY Zenon, <1>7, <3>1, <5>1
      <4>2. CASE i # id
        <5>1. listings'[i] = listings[i] /\ locations'[i] = locations[i]
          BY Zenon, <1>3, <4>2
        <5> QED BY Zenon, <1>1, <1>7, <3>1, <5>1 DEF InTurn, Exists
      <4> QED BY <4>1, <4>2
    <3> QED BY Zenon, <3>1
  <2>4. ASSUME NEW s \in Requests
        PROVE  Current(req[s])'
    <3>1. CASE s = r
      BY <1>2, <2>4, <3>1 DEF Current, CurrentIn, Relies, OwnerOps
    <3>2. CASE s # r
      <4>1. req'[s] = req[s] /\ Current(req[s]) /\ Shape(req[s]) /\ req[s] \in Req
        BY Zenon, <1>1, <1>2, <1>7, <2>4, <3>2 DEF InTurn, Types
      <4>2. req[s].owned \subseteq ListingIds
        BY Zenon, <4>1 DEF Req
      <4>3. CASE /\ loc = locations[id] /\ row.content = listings[id].content /\ row.pin = listings[id].pin
                 /\ row.status = listings[id].status
        <5>1. \A i \in ListingIds : /\ listings'[i].content = listings[i].content /\ listings'[i].pin = listings[i].pin
                                    /\ listings'[i].status = listings[i].status /\ locations'[i] = locations[i]
                                    /\ listings'[i].owner = listings[i].owner /\ (Exists(i)' <=> Exists(i))
          BY <1>3, <1>4, <4>3 DEF Exists
        <5>2. Relies(req[s]) => req[s].id \in ListingIds /\ Mine(listings[req[s].id], req[s].user)
          BY Zenon, <4>1 DEF Current, CurrentIn, Relies, Shape
        <5>3. Relies(req[s]) =>
                /\ Mine(listings'[req[s].id], req[s].user) /\ locations'[req[s].id] = locations[req[s].id]
                /\ listings'[req[s].id].content = listings[req[s].id].content
                /\ listings'[req[s].id].pin = listings[req[s].id].pin
                /\ listings'[req[s].id].status = listings[req[s].id].status
          BY <5>1, <5>2 DEF Mine, Exists
        <5>4. req[s].op = "erase" => \A i \in req[s].owned : listings'[i] # None => listings'[i].owner = req[s].user
          BY Zenon, <4>1, <4>2, <5>1 DEF Current, CurrentIn, Exists
        <5>5. CurrentIn(req[s], listings', locations', versions)
          BY Zenon, <4>1, <5>3, <5>4, CurrentKept DEF Current
        <5> QED BY Zenon, <4>1, <5>5 DEF Current
      <4>4. CASE req[r].op \in OwnerOps /\ req[r].user = listings[id].owner
        <5>1. req[s].op \in OwnerOps /\ Mine(listings[req[s].id], req[s].user) => req[s].id # id
          BY Zenon, <1>1, <1>7, <2>4, <3>2, <4>4 DEF InTurn, Alone, Mine
        <5>2. \A i \in ListingIds : i # id =>
                                      listings'[i] = listings[i] /\ locations'[i] = locations[i]
          BY Zenon, <1>3
        <5>3. \A i \in ListingIds : listings'[i].owner = listings[i].owner /\ (Exists(i)' <=> Exists(i))
          BY <1>3, <1>4 DEF Exists
        <5>4. Relies(req[s]) => /\ Mine(listings[req[s].id], req[s].user)
                               /\ listings'[req[s].id] = listings[req[s].id]
                               /\ locations'[req[s].id] = locations[req[s].id]
          BY Zenon, <4>1, <5>1, <5>2 DEF Current, CurrentIn, Relies, Shape, OwnerOps
        <5>5. req[s].op = "erase" => \A i \in req[s].owned : listings'[i] # None => listings'[i].owner = req[s].user
          BY Zenon, <4>1, <4>2, <5>3 DEF Current, CurrentIn, Exists
        <5>6. CurrentIn(req[s], listings', locations', versions)
          BY Zenon, <4>1, <5>4, <5>5, CurrentKept DEF Current
        <5> QED BY Zenon, <4>1, <5>6 DEF Current
      <4> QED BY Zenon, <4>3, <4>4
    <3> QED BY Zenon, <3>1, <3>2
  <2> QED BY Zenon, <2>1, <2>2, <2>3, <2>4
<1>8. InTurn'
  BY Zenon, <1>7 DEF InTurn
<1> QED BY Zenon, <1>5, <1>6, <1>8, RowStep DEF OwnerOps
LEMMA createDraftInsertKeeps ==
  ASSUME IInv, NEW r \in Requests, NEW id \in ListingIds, createDraftInsert(r, id)
  PROVE  IInv'
<1>1. Types /\ Valid /\ InTurn
  BY Zenon DEF IInv
<1>2. /\ req[r].op = "create" /\ req[r].at = "insert" /\ ~Exists(id)
      /\ \A s \in Requests : req[s].id # id /\ id \notin req[s].owned
      /\ req' = [req EXCEPT ![r] = Idle]
      /\ UNCHANGED <<versions, media, objects, usage, booked, draws>>
  BY Zenon DEF createDraftInsert, Finish, outside
<1>3. /\ req[r].user \in Owners /\ req[r].form \in Forms /\ req[r].place \in Fuzzed \cup {None}
      /\ req[r].place # None => req[r].place.of = req[r].form.postcode
  BY Zenon, <1>1, <1>2 DEF Types, Shape, OwnerOps
<1>4. Fits(req[r].form) /\ req[r].pin = req[r].form.version
  BY Zenon, <1>1, <1>2 DEF Valid, Pinned
<1> DEFINE b == req[r].form.postcode # None
           row == [owner |-> req[r].user, pin |-> req[r].pin, content |-> req[r].form.content,
                   district |-> b, status |-> "DRAFT", moderation |-> "APPROVED", reason |-> FALSE,
                   collapsed |-> FALSE]
           loc == IF req[r].form.postcode = None THEN None
                  ELSE [postcode |-> req[r].form.postcode, point |-> req[r].place]
<1>5. listings' = [listings EXCEPT ![id] = row] /\ locations' = [locations EXCEPT ![id] = loc]
      /\ trail' = [trail EXCEPT ![id] = {}]
  BY Zenon DEF createDraftInsert
<1>6. req[r].pin \in 1..Latest /\ Latest \in 1..MaxVersions
  BY Zenon, <1>1, <1>4 DEF Fits, Types, TypeOK
<1>7. b \in BOOLEAN
  OBVIOUS
<1>8. loc \in LocationRows \cup {None} /\ (loc # None /\ loc.point # None => loc.point.of = loc.postcode)
  <2>1. CASE req[r].form.postcode = None
    BY <2>1
  <2>2. CASE req[r].form.postcode # None
    <3>1. loc = [postcode |-> req[r].form.postcode, point |-> req[r].place]
      BY Zenon, <2>2
    <3> HIDE DEF loc
    <3> QED BY Zenon, <1>3, <2>2, <3>1 DEF LocationRows
  <2> QED BY <2>1, <2>2
<1> HIDE DEF b
<1>9. row \in ListingRows /\ row.owner = req[r].user /\ row.pin = req[r].pin /\ row.content = req[r].form.content
      /\ row.status = "DRAFT"
  <2>1. req[r].form.content \in {f.content : f \in Forms}
    BY Zenon, <1>3
  <2>2. "DRAFT" \in Statuses /\ "APPROVED" \in ModerationStates
    BY DEF Statuses, ModerationStates
  <2>3. req[r].pin \in 1..MaxVersions
    <3>1. MaxVersions \in Nat
      BY Zenon, ListingsAssumption
    <3> QED BY <1>6, <3>1
  <2> QED BY Zenon, <1>3, <1>7, <2>1, <2>2, <2>3 DEF ListingRows
<1> HIDE DEF row, loc
<1>10. row # None
  BY <1>9, ListingsAssumption
<1>11. \A i \in ListingIds : /\ listings'[i] = IF i = id THEN row ELSE listings[i]
                             /\ locations'[i] = IF i = id THEN loc ELSE locations[i]
  BY <1>1, <1>5 DEF Types, TypeOK
<1>12. \A s \in Requests : req'[s] = IF s = r THEN Idle ELSE req[s]
  BY Zenon, <1>1, <1>2 DEF Types
<1>13. TypeOK'
  <2>1. listings' \in [ListingIds -> ListingRows \cup {None}] /\ locations' \in [ListingIds -> LocationRows \cup {None}]
    BY Zenon, <1>1, <1>5, <1>8, <1>9 DEF Types, TypeOK
  <2>2. \A i \in ListingIds : ~Exists(i)' => locations'[i] = None
    BY <1>1, <1>10, <1>11 DEF Types, TypeOK, Exists
  <2>3. trail' \in [ListingIds -> SUBSET ModerationStates]
    BY <1>1, <1>5 DEF Types, TypeOK
  <2> QED BY Zenon, <1>1, <1>2, <2>1, <2>2, <2>3 DEF Types, TypeOK, Latest
<1>14. Valid'
  <2>1. PinnedAnswersFit'
    BY Zenon, <1>1, <1>2, <1>4, <1>9, <1>11 DEF Valid, PinnedAnswersFit, Fits, Exists, Latest
  <2>2. ASSUME NEW s \in Requests
        PROVE  Pinned(req[s])'
    <3>1. Pinned(req[s]) /\ Pinned(Idle)
      BY Zenon, <1>1, IdleFields DEF Valid
    <3> QED BY Zenon, <1>2, <1>12, <3>1, PinnedKept
  <2> QED BY <2>1, <2>2 DEF Valid
<1>15. ASSUME usage.serial
       PROVE  /\ Alone' /\ PointMatchesAddress'
              /\ \A i \in ListingIds : Exists(i)' => Whole(listings'[i], locations'[i], versions')
              /\ \A s \in Requests : Current(req[s])'
  <2>0. Alone /\ PointMatchesAddress
    BY Zenon, <1>1, <1>15 DEF InTurn
  <2>1. Alone'
    BY Zenon, <1>12, <2>0, IdleFields DEF Alone, OwnerOps
  <2>2. PointMatchesAddress'
    BY Zenon, <1>1, <1>8, <1>11, <1>15 DEF InTurn, PointMatchesAddress, IsLocated
  <2>3. \A i \in ListingIds : Exists(i)' => Whole(listings'[i], locations'[i], versions')
    BY Zenon, <1>1, <1>2, <1>9, <1>11, <1>15 DEF InTurn, Exists, Whole
  <2>4. ASSUME NEW s \in Requests
        PROVE  Current(req[s])'
    <3>1. CASE s = r
      BY Zenon, <1>12, <2>4, <3>1, IdleFields DEF Current, CurrentIn, Relies
    <3>2. CASE s # r
      <4>1. req'[s] = req[s] /\ Current(req[s]) /\ Shape(req[s]) /\ req[s] \in Req
        BY <1>1, <1>12, <1>15, <2>4, <3>2 DEF InTurn, Types
      <4>2. \A i \in ListingIds : i # id => listings'[i] = listings[i] /\ locations'[i] = locations[i]
        BY <1>11
      <4>3. req[s].id # id /\ id \notin req[s].owned
        BY <1>2, <2>4
      <4>4. Relies(req[s]) => /\ Mine(listings[req[s].id], req[s].user)
                             /\ listings'[req[s].id] = listings[req[s].id]
                             /\ locations'[req[s].id] = locations[req[s].id]
        BY Zenon, <4>1, <4>2, <4>3 DEF Current, CurrentIn, Relies, Shape
      <4>5. req[s].op = "erase" => \A i \in req[s].owned : listings'[i] # None => listings'[i].owner = req[s].user
        BY Zenon, <4>1, <4>2, <4>3 DEF Current, CurrentIn, Req
      <4>6. CurrentIn(req[s], listings', locations', versions)
        BY Zenon, <4>1, <4>4, <4>5, CurrentKept DEF Current
      <4> QED BY Zenon, <1>2, <4>1, <4>6 DEF Current
    <3> QED BY <3>1, <3>2
  <2> QED BY Zenon, <2>1, <2>2, <2>3, <2>4
<1>16. InTurn'
  BY Zenon, <1>2, <1>15 DEF InTurn
<1> QED BY Zenon, <1>2, <1>13, <1>14, <1>16, IdleFields, RowStep

\* A request whose write found no row is answered, and nothing has changed.
LEMMA MissedStep ==
  ASSUME IInv, NEW r \in Requests, Finish(r),
         UNCHANGED <<versions, listings, locations, media, objects, trail, outside, draws>>
  PROVE  IInv'
BY RefuseStep DEF stored

\* A row keeps what is not written.
LEMMA RowFits ==
  ASSUME IInv, NEW id \in ListingIds, Exists(id)
  PROVE  /\ listings[id] \in ListingRows /\ locations[id] \in LocationRows \cup {None}
         /\ listings[id].pin \in 1..Latest
         /\ validateAttributeValues(versions[listings[id].pin], listings[id].content.answers)
         /\ listings[id].content.transport # None =>
              offersTransportRequirement(versions[listings[id].pin], listings[id].content.transport)
         /\ usage.serial =>
              (locations[id] # None /\ locations[id].point # None => locations[id].point.of = locations[id].postcode)
         /\ usage.serial => Whole(listings[id], locations[id], versions)
<1>1. listings[id] \in ListingRows /\ locations[id] \in LocationRows \cup {None}
  BY Zenon DEF IInv, Types, TypeOK, Exists
<1>2. /\ listings[id].pin \in 1..Latest
      /\ validateAttributeValues(versions[listings[id].pin], listings[id].content.answers)
      /\ listings[id].content.transport # None =>
           offersTransportRequirement(versions[listings[id].pin], listings[id].content.transport)
  BY DEF IInv, Valid, PinnedAnswersFit
<1>3. /\ usage.serial =>
           (locations[id] # None /\ locations[id].point # None => locations[id].point.of = locations[id].postcode)
      /\ usage.serial => Whole(listings[id], locations[id], versions)
  BY DEF IInv, InTurn, PointMatchesAddress, IsLocated
<1> QED BY Zenon, <1>1, <1>2, <1>3

LEMMA updateWriteKeeps ==
  ASSUME IInv, NEW r \in Requests, updateWrite(r)
  PROVE  IInv'
<1> DEFINE q == req[r]
<1>1. q.op = "edit" /\ q.at = "write" /\ Finish(r)
      /\ UNCHANGED <<versions, media, objects, trail, outside, draws>>
  BY DEF updateWrite
<1>2. q.id \in ListingIds /\ q.user \in Owners /\ q.form \in Forms /\ q.seen \in Records /\ Placed(q)
  BY Zenon, <1>1 DEF IInv, Types, Shape, OwnerOps
<1>3. Fits(q.form) /\ q.pin = q.form.version
  BY Zenon, <1>1 DEF IInv, Valid, Pinned
<1>4. usage.serial => Current(q)
  BY DEF IInv, InTurn
<1>5. CASE UNCHANGED <<listings, locations>>
  BY <1>1, <1>5, MissedStep
<1>6. CASE ~UNCHANGED <<listings, locations>>
  <2>1. /\ existsOwnedBy(q.id, q.user)
        /\ q.place.kind = "address-only" => locations[q.id] # None
        /\ listings' = [listings EXCEPT ![q.id].pin = q.pin, ![q.id].content = q.form.content,
                                        ![q.id].district = q.place.kind # "cleared", ![q.id].collapsed = FALSE]
        /\ locations' = [locations EXCEPT ![q.id] = writeLocation(q.id, q.form.postcode, q.place)]
    BY <1>6 DEF updateWrite
  <2>2. Exists(q.id) /\ listings[q.id].owner = q.user
    BY <2>1 DEF existsOwnedBy
  <2> DEFINE b == q.place.kind # "cleared"
             row == [listings[q.id] EXCEPT !.pin = q.pin, !.content = q.form.content, !.district = b,
                                             !.collapsed = FALSE]
             loc == writeLocation(q.id, q.form.postcode, q.place)
  <2>3. listings' = [listings EXCEPT ![q.id] = row]
    BY Zenon, <1>2, <2>1 DEF IInv, Types, TypeOK
  <2>4. b \in BOOLEAN
    BY Zenon
  <2>5. listings[q.id] \in ListingRows /\ locations[q.id] \in LocationRows \cup {None}
    BY Zenon, <1>2, <2>2, RowFits
  <2>6. q.pin \in 1..Latest /\ q.pin \in 1..MaxVersions
    <3>1. q.pin \in 1..Latest
      BY Zenon, <1>3 DEF Fits
    <3>2. Latest \in 1..MaxVersions /\ MaxVersions \in Nat
      BY Zenon, ListingsAssumption DEF IInv, Types, TypeOK
    <3> QED BY <3>1, <3>2
  <2>7. q.form.postcode # None => q.form.postcode \in {f.postcode : f \in Forms} \ {None}
    BY <1>2
  <2> HIDE DEF b, q
  <2>9. row \in ListingRows /\ row.owner = listings[q.id].owner /\ row.pin = q.pin /\ row.content = q.form.content
        /\ row.status = listings[q.id].status
    BY Zenon, <1>2, <2>4, <2>5, <2>6 DEF ListingRows
  <2> HIDE DEF row
  <2>10. /\ loc \in LocationRows \cup {None}
         /\ usage.serial => (loc # None /\ loc.point # None => loc.point.of = loc.postcode)
         /\ usage.serial => Whole(row, loc, versions)
    <3>1. usage.serial /\ row.status = "PUBLISHED" =>
            Answered(row.content, versions[row.pin]) /\ willBeLocated(q.place)
      BY Zenon, <1>1, <1>3, <1>4, <2>9 DEF Current, CurrentIn, Relies, AsRead
    <3>2. CASE q.place.kind = "cleared"
      <4>1. loc = None
        BY <3>2 DEF writeLocation
      <4>2. ~willBeLocated(q.place)
        BY <3>2 DEF willBeLocated
      <4> QED BY Zenon, <3>1, <4>1, <4>2 DEF Whole
    <3>3. CASE q.place.kind = "address-only"
      <4>1. loc = [locations[q.id] EXCEPT !.postcode = q.form.postcode]
        BY Zenon, <3>3 DEF writeLocation
      <4>2. locations[q.id] \in LocationRows /\ q.form.postcode # None
        BY <1>2, <2>1, <2>5, <3>3 DEF Placed, q
      <4>3. loc \in LocationRows /\ loc.point = locations[q.id].point /\ loc.postcode = q.form.postcode
        BY <2>7, <4>1, <4>2 DEF LocationRows
      <4>4. usage.serial => locations[q.id].postcode = q.form.postcode /\ locations[q.id].point # None
                            /\ locations[q.id] # None
        BY Zenon, <1>1, <1>2, <1>4, <3>3 DEF Current, CurrentIn, Relies, AsRead, Placed, Postcode, Sited
      <4>5. usage.serial => (locations[q.id] # None /\ locations[q.id].point # None
                               => locations[q.id].point.of = locations[q.id].postcode)
        BY Zenon, <1>2, <2>2, RowFits
      <4>6. loc # None
        BY <4>3, ListingsAssumption
      <4> HIDE DEF loc
      <4> QED BY <3>1, <4>3, <4>4, <4>5, <4>6 DEF Whole, Sited
    <3>4. CASE q.place.kind = "relocated"
      <4>1. loc = [postcode |-> q.form.postcode, point |-> q.place.point]
        BY Zenon, <3>4 DEF writeLocation
      <4>2. q.form.postcode # None /\ q.place.point \in Fuzzed \cup {None}
            /\ (q.place.point # None => q.place.point.of = q.form.postcode)
        BY <1>2, <3>4 DEF Placed, Places
      <4>3. loc \in LocationRows /\ loc.point = q.place.point /\ loc.postcode = q.form.postcode
        BY <2>7, <4>1, <4>2 DEF LocationRows
      <4>4. usage.serial /\ row.status = "PUBLISHED" => q.place.point # None
        BY <3>1, <3>4 DEF willBeLocated
      <4> HIDE DEF loc
      <4>5. loc # None
        BY <4>3, ListingsAssumption
      <4> QED BY Zenon, <3>1, <4>2, <4>3, <4>4, <4>5 DEF Whole, Sited
    <3>5. q.place.kind \in {"cleared", "address-only", "relocated"}
      BY <1>2 DEF Placed, Places
    <3> QED BY Zenon, <3>2, <3>3, <3>4, <3>5
  <2>11. req' = [req EXCEPT ![r] = Idle] /\ UNCHANGED <<versions, media, objects, usage, booked, draws, trail>>
    BY <1>1 DEF Finish, outside
  <2>12. Idle.op \notin OwnerOps /\ q.op \in OwnerOps /\ q.user = listings[q.id].owner /\ q = req[r]
    BY Zenon, <1>1, <2>2, IdleFields DEF OwnerOps, q
  <2>13. /\ validateAttributeValues(versions[row.pin], row.content.answers)
         /\ row.content.transport # None => offersTransportRequirement(versions[row.pin], row.content.transport)
         /\ row.pin \in 1..Latest
    BY <1>3, <2>6, <2>9 DEF Fits
  <2>14. locations' = [locations EXCEPT ![q.id] = loc]
    BY Zenon, <2>1
  <2> HIDE DEF loc
  <2> QED BY Zenon, <1>2, <2>2, <2>3, <2>9, <2>10, <2>11, <2>12, <2>13, <2>14, IdleFields, WriteStep
<1> QED BY Zenon, <1>5, <1>6
\* Publishing or pausing sets the status of the owner's row and nothing else.
LEMMA SetStatusStep ==
  ASSUME IInv, NEW r \in Requests, req[r].op \in {"publish", "pause"}, NEW status \in Statuses,
         SetStatus(req[r].id, req[r].user, status), Finish(r),
         UNCHANGED <<versions, locations, media, objects, trail, outside, draws>>,
         usage.serial /\ status = "PUBLISHED" =>
           Answered(listings[req[r].id].content, versions[listings[req[r].id].pin]) /\ IsLocated(req[r].id)
  PROVE  IInv'
<1>1. req[r].id \in ListingIds /\ req[r].user \in Owners /\ req[r].op \in OwnerOps
  BY Zenon DEF IInv, Types, Shape, OwnerOps
<1>2. CASE ~existsOwnedBy(req[r].id, req[r].user)
  <2>1. listings' = listings
    BY <1>2 DEF SetStatus
  <2> QED BY Zenon, <1>1, <2>1, MissedStep
<1>3. CASE existsOwnedBy(req[r].id, req[r].user)
  <2>1. PICK id \in ListingIds : id = req[r].id
    BY Zenon, <1>1
  <2>2. Exists(id) /\ listings[id].owner = req[r].user
    BY Zenon, <1>3, <2>1 DEF existsOwnedBy
  <2> DEFINE row == [listings[id] EXCEPT !.status = status]
  <2>3. listings' = [listings EXCEPT ![id] = row]
    BY <1>3, <2>1 DEF SetStatus, IInv, Types, TypeOK
  <2>4. listings[id] \in ListingRows
    BY Zenon, <2>2, RowFits
  <2>5. row \in ListingRows /\ row.owner = listings[id].owner /\ row.pin = listings[id].pin
        /\ row.content = listings[id].content /\ row.status = status
    BY <2>4 DEF ListingRows
  <2> HIDE DEF row
  <2>6. PICK loc : loc = locations[id]
    BY Zenon
  <2>7. loc \in LocationRows \cup {None} /\ locations' = [locations EXCEPT ![id] = loc]
    BY Zenon, <2>2, <2>6, RowFits DEF IInv, Types, TypeOK
  <2>8. req' = [req EXCEPT ![r] = Idle] /\ UNCHANGED <<versions, media, objects, usage, booked, draws, trail>>
    BY Zenon DEF Finish, outside
  <2>9. row.pin \in 1..Latest /\ validateAttributeValues(versions[row.pin], row.content.answers)
        /\ (row.content.transport # None => offersTransportRequirement(versions[row.pin], row.content.transport))
    BY Zenon, <2>2, <2>5, RowFits
  <2>10. usage.serial => (loc # None /\ loc.point # None => loc.point.of = loc.postcode)
    BY Zenon, <2>2, <2>6, RowFits
  <2>11. usage.serial => Whole(row, loc, versions)
    BY Zenon, <2>1, <2>5, <2>6 DEF IsLocated, Whole, Sited
  <2>12. Idle.op \notin OwnerOps
    BY Zenon, IdleFields DEF OwnerOps
  <2> QED BY Zenon, <1>1, <2>2, <2>3, <2>5, <2>7, <2>8, <2>9, <2>10, <2>11, <2>12, IdleFields, WriteStep
<1> QED BY <1>2, <1>3

LEMMA publishWriteKeeps ==
  ASSUME IInv, NEW r \in Requests, publishWrite(r)
  PROVE  IInv'
<1>1. req[r].op = "publish" /\ req[r].at = "write" /\ SetStatus(req[r].id, req[r].user, "PUBLISHED") /\ Finish(r)
      /\ UNCHANGED <<versions, locations, media, objects, trail, outside, draws>>
  BY Zenon DEF publishWrite
<1>2. usage.serial =>
        Answered(listings[req[r].id].content, versions[listings[req[r].id].pin]) /\ IsLocated(req[r].id)
  BY Zenon, <1>1 DEF IInv, InTurn, Current, CurrentIn, Relies, IsLocated, Sited
<1> QED BY Zenon, <1>1, <1>2, SetStatusStep DEF Statuses

LEMMA pauseWriteKeeps ==
  ASSUME IInv, NEW r \in Requests, pauseWrite(r)
  PROVE  IInv'
<1>1. req[r].op = "pause" /\ SetStatus(req[r].id, req[r].user, "PAUSED") /\ Finish(r)
      /\ UNCHANGED <<versions, locations, media, objects, trail, outside, draws>>
  BY Zenon DEF pauseWrite
<1> QED BY Zenon, <1>1, SetStatusStep DEF Statuses

LEMMA moderateWriteKeeps ==
  ASSUME IInv, NEW r \in Requests, moderateWrite(r)
  PROVE  IInv'
<1>1. req[r].op = "moderate" /\ req[r].at = "write" /\ req[r].id \in ListingIds /\ req[r].form \in Decisions
      /\ UNCHANGED <<versions, locations, media, objects, trail, outside, draws>>
  BY DEF moderateWrite, IInv, Types, Shape
<1>2. CASE ~Exists(req[r].id)
  <2>1. listings' = listings /\ Finish(r)
    BY <1>2 DEF moderateWrite
  <2> QED BY <1>1, <2>1, MissedStep
<1>3. CASE Exists(req[r].id)
  <2>1. PICK id \in ListingIds, state \in ModerationStates, reason \in BOOLEAN :
          id = req[r].id /\ state = req[r].form.state /\ reason = req[r].form.reason
    BY <1>1 DEF Decisions
  <2>2. Exists(id) /\ Advance(r, "audit")
    BY <1>3, <2>1 DEF moderateWrite
  <2> DEFINE row == [listings[id] EXCEPT !.moderation = state, !.reason = reason]
  <2>3. listings' = [listings EXCEPT ![id] = row]
    BY Zenon, <1>3, <2>1 DEF moderateWrite, IInv, Types, TypeOK
  <2>4. listings[id] \in ListingRows
    BY Zenon, <2>2, RowFits
  <2>5. row \in ListingRows /\ row.owner = listings[id].owner /\ row.pin = listings[id].pin
        /\ row.content = listings[id].content /\ row.status = listings[id].status /\ row.collapsed = listings[id].collapsed
    BY Zenon, <2>4 DEF ListingRows
  <2> HIDE DEF row
  <2>6. PICK loc : loc = locations[id]
    OBVIOUS
  <2>7. loc \in LocationRows \cup {None} /\ locations' = [locations EXCEPT ![id] = loc]
    BY Zenon, <1>1, <2>2, <2>6, RowFits DEF IInv, Types, TypeOK
  <2>8. UNCHANGED <<versions, media, objects, usage, booked, draws, trail>>
    BY Zenon, <1>1 DEF outside
  <2>9. row.pin \in 1..Latest /\ validateAttributeValues(versions[row.pin], row.content.answers)
        /\ (row.content.transport # None => offersTransportRequirement(versions[row.pin], row.content.transport))
    BY Zenon, <2>2, <2>5, RowFits
  <2>10. usage.serial => (loc # None /\ loc.point # None => loc.point.of = loc.postcode)
    BY <2>2, <2>6, RowFits
  <2>11. usage.serial => Whole(row, loc, versions)
    BY Zenon, <2>2, <2>5, <2>6, RowFits DEF Whole
  <2>12. PICK c \in Req : /\ req' = [req EXCEPT ![r] = c] /\ Further(c, req[r]) /\ c.at = "audit"
                          /\ c.pin = req[r].pin /\ c.seen = req[r].seen /\ c.place = req[r].place
                          /\ c.kept = req[r].kept /\ c.photos = req[r].photos
    BY Zenon, <2>2, AdvanceFields, Requested
  <2>13. Shape(req[r])
    BY DEF IInv, Types
  <2>14. c.op = "moderate" /\ Shape(c) /\ Pinned(c) /\ c.photos = {} /\ c.op \notin OwnerOps
    BY Zenon, <1>1, <2>12, <2>13 DEF Shape, Pinned, Further, OwnerOps
  <2> QED BY Zenon, <1>1, <2>2, <2>3, <2>5, <2>6, <2>7, <2>8, <2>9, <2>10, <2>11, <2>12, <2>14, WriteStep
<1> QED BY <1>2, <1>3

\* A new version is added after the others, which stay as they are.
LEMMA addVersionKeeps ==
  ASSUME IInv, NEW r \in Requests, addVersion(r)
  PROVE  IInv'
<1>1. /\ req[r].op = "reconfigure" /\ req[r].at = "insert" /\ Finish(r)
      /\ UNCHANGED <<listings, locations, media, objects, trail, outside, draws>>
  BY DEF addVersion
<1>2. req[r].form \in Configurations /\ req[r].seen \in Nat /\ req[r].seen < MaxVersions
  BY Zenon, <1>1 DEF IInv, Types, Shape
<1>3. req[r].seen <= Latest
  BY Zenon, <1>1 DEF IInv, Valid, Pinned
<1>4. CASE ~(req[r].seen + 1 > Latest)
  <2>1. versions' = versions
    BY <1>4 DEF addVersion
  <2> QED BY <1>1, <2>1, MissedStep
<1>5. CASE req[r].seen + 1 > Latest
  <2>1. versions' = Append(versions, req[r].form)
    BY <1>5 DEF addVersion
  <2>2. Types /\ Valid /\ InTurn /\ versions \in Seq(Configurations \cup {FirstConfiguration})
        /\ Latest \in 1..MaxVersions /\ MaxVersions \in Nat
    BY ListingsAssumption DEF IInv, Types, TypeOK
  <2>3. /\ versions' \in Seq(Configurations \cup {FirstConfiguration}) /\ Latest' = Latest + 1
        /\ \A n \in 1..Latest : versions'[n] = versions[n]
    <3>1. versions \in Seq(Configurations \cup {FirstConfiguration})
          /\ req[r].form \in Configurations \cup {FirstConfiguration}
      BY Zenon, <1>2, <2>2
    <3>2. /\ Append(versions, req[r].form) \in Seq(Configurations \cup {FirstConfiguration})
          /\ Len(Append(versions, req[r].form)) = Len(versions) + 1
          /\ \A n \in 1..Len(versions) : Append(versions, req[r].form)[n] = versions[n]
      BY Zenon, <3>1, Appended
    <3> QED BY Zenon, <2>1, <3>2 DEF Latest
  <2>4. Latest' \in 1..MaxVersions
    BY <1>2, <1>3, <1>5, <2>2, <2>3
  <2>5. TypeOK'
    BY Zenon, <1>1, <2>2, <2>3, <2>4 DEF Types, TypeOK, Exists, outside
  <2>6. req' = [req EXCEPT ![r] = Idle] /\ usage' = usage
    BY <1>1 DEF Finish, outside
  <2>7. \A s \in Requests : req'[s] = IF s = r THEN Idle ELSE req[s]
    BY <2>2, <2>6 DEF Types
  <2>8. \A f : Fits(f) => Fits(f)' /\ (f.version \in 1..Latest /\ versions'[f.version] = versions[f.version])
    <3> SUFFICES ASSUME NEW f, Fits(f)
                 PROVE  Fits(f)' /\ (f.version \in 1..Latest /\ versions'[f.version] = versions[f.version])
      OBVIOUS
    <3>1. f.version \in 1..Latest
      BY Zenon DEF Fits
    <3>2. versions'[f.version] = versions[f.version] /\ f.version \in 1..Latest'
      BY <2>2, <2>3, <3>1
    <3> QED BY Zenon, <3>1, <3>2 DEF Fits
  <2>9. Valid'
    <3>1. PinnedAnswersFit'
      <4>1. ASSUME NEW id \in ListingIds, Exists(id)
            PROVE  /\ listings[id].pin \in 1..Latest' /\ versions'[listings[id].pin] = versions[listings[id].pin]
                   /\ validateAttributeValues(versions[listings[id].pin], listings[id].content.answers)
                   /\ listings[id].content.transport # None =>
                        offersTransportRequirement(versions[listings[id].pin], listings[id].content.transport)
        <5>1. listings[id].pin \in 1..Latest
          BY Zenon, <2>2, <4>1 DEF Valid, PinnedAnswersFit
        <5>2. listings[id].pin \in 1..Latest'
          BY <2>2, <2>3, <5>1
        <5> QED BY Zenon, <2>2, <2>3, <4>1, <5>1, <5>2 DEF Valid, PinnedAnswersFit
      <4> QED BY Zenon, <1>1, <4>1 DEF PinnedAnswersFit, Exists
    <3>2. ASSUME NEW s \in Requests
          PROVE  Pinned(req[s])'
      <4>1. CASE s = r
        BY Zenon, <2>7, <4>1, IdleFields DEF Pinned
      <4>2. CASE s # r
        <5>1. PICK d \in Req : d = req[s]
          BY <2>2 DEF Types
        <5>2. Shape(d) /\ Pinned(d)
          BY <2>2, <5>1 DEF Types, Valid
        <5>3. Pinned(d)'
          <6>1. d.op = "reconfigure" => d.seen \in Nat /\ d.seen <= Latest
            BY Zenon, <5>2 DEF Pinned, Shape
          <6>2. d.op = "reconfigure" => d.seen <= Latest'
            BY <2>2, <2>3, <6>1
          <6> QED BY Zenon, <2>8, <5>2, <6>2 DEF Pinned
        <5>4. d = req'[s]
          BY Zenon, <2>7, <4>2, <5>1
        <5> QED BY Zenon, <5>3, <5>4 DEF Pinned, Fits
      <4> QED BY Zenon, <4>1, <4>2
    <3> QED BY Zenon, <3>1, <3>2 DEF Valid
  <2>10. ASSUME usage.serial
         PROVE  /\ Alone' /\ PointMatchesAddress'
                /\ \A i \in ListingIds : Exists(i)' => Whole(listings'[i], locations'[i], versions')
                /\ \A s \in Requests : Current(req[s])'
    <3>0. Alone
      BY Zenon, <2>2, <2>10 DEF InTurn
    <3>1. Alone'
      BY <2>7, <3>0, IdleFields DEF Alone, OwnerOps
    <3>2. PointMatchesAddress'
      BY Zenon, <1>1, <2>2, <2>10 DEF InTurn, PointMatchesAddress, IsLocated
    <3>3. \A i \in ListingIds : Exists(i) => versions'[listings[i].pin] = versions[listings[i].pin]
      BY Zenon, <2>2, <2>3 DEF Valid, PinnedAnswersFit
    <3>4. \A i \in ListingIds : Exists(i)' => Whole(listings'[i], locations'[i], versions')
      BY <1>1, <2>2, <2>10, <3>3 DEF InTurn, Exists, Whole
    <3>5. ASSUME NEW s \in Requests
          PROVE  Current(req[s])'
      <4>1. CASE s = r
        BY Zenon, <2>7, <3>5, <4>1, IdleFields DEF Current, CurrentIn, Relies
      <4>2. CASE s # r
        <5>1. req'[s] = req[s] /\ Current(req[s]) /\ Shape(req[s]) /\ Pinned(req[s])
          BY Zenon, <2>2, <2>7, <2>10, <3>5, <4>2 DEF InTurn, Types, Valid
        <5>2. req[s].op = "edit" /\ req[s].at \in {"pin", "write"} =>
                versions'[req[s].form.version] = versions[req[s].form.version]
          BY Zenon, <2>3, <5>1 DEF Pinned, Fits
        <5>3. req[s].op = "publish" /\ req[s].at = "write" =>
                versions'[listings[req[s].id].pin] = versions[listings[req[s].id].pin]
          BY Zenon, <3>3, <5>1 DEF Current, CurrentIn, Relies, Shape, Mine, Exists
        <5>4. CurrentIn(req[s], listings, locations, versions')
          BY Zenon, <5>1, <5>2, <5>3, CurrentKept DEF Current, CurrentIn
        <5> QED BY Zenon, <1>1, <5>1, <5>4 DEF Current
      <4> QED BY <4>1, <4>2
    <3> QED BY <3>1, <3>2, <3>4, <3>5
  <2>11. InTurn'
    BY Zenon, <2>6, <2>10 DEF InTurn
  <2> QED BY Zenon, <1>1, <2>5, <2>6, <2>9, <2>11, IdleFields, RowStep
<1> QED BY Zenon, <1>4, <1>5
=============================================================================
