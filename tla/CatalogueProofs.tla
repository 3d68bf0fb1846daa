-------------------------- MODULE CatalogueProofs --------------------------
(***************************************************************************)
(* What the catalogue guarantees for any number of owners, listings,       *)
(* photographs, versions and requests in flight.                           *)
(***************************************************************************)
EXTENDS CatalogueInvariant

(* Photographs *)

\* A step of a request that changes the tables of photographs only.
LEMMA PhotoStep ==
  ASSUME IInv, NEW r \in Requests, NEW c \in Req, req' = [req EXCEPT ![r] = c],
         UNCHANGED <<versions, listings, locations, trail, outside, draws>>,
         media' \in [PhotoIds -> MediaRows \cup {None}],
         IsFiniteSet({p \in PhotoIds : media'[p] # None}), objects' \subseteq (PhotoIds \X Renditions),
         Shape(c), Pinned(c), usage.serial => Current(c), MayGoOn(r, c), Stored', Within'
  PROVE  IInv'
<1>1. Types /\ Valid /\ InTurn
  BY DEF IInv
<1>2. UNCHANGED <<versions, listings, locations, trail, draws, booked, usage>>
  BY DEF outside
<1>3. TypeOK'
  BY <1>1, <1>2 DEF Types, TypeOK, Exists, Latest
<1>4. Types'
  BY Zenon, <1>1, <1>2, <1>3, TypesStep
<1>5. Valid'
  BY Zenon, <1>1, <1>2, ValidStep
<1>6. InTurn'
  BY Zenon, <1>1, <1>2, InTurnStep
<1> QED BY <1>4, <1>5, <1>6 DEF IInv

\* No photograph is recorded that was not, nor under another listing.
Fewer == \A p \in PhotoIds : media'[p] # None => media[p] # None /\ media'[p].listing = media[p].listing

LEMMA FewerRows ==
  ASSUME Types, Fewer
  PROVE  IsFiniteSet({p \in PhotoIds : media'[p] # None}) /\ \A id \in ListingIds : listFor(id)' \subseteq listFor(id)
<1>1. {p \in PhotoIds : media'[p] # None} \subseteq {p \in PhotoIds : media[p] # None}
  BY DEF Fewer
<1>2. IsFiniteSet({p \in PhotoIds : media'[p] # None})
  BY <1>1, FS_Subset DEF Types
<1>3. \A id \in ListingIds : listFor(id)' \subseteq listFor(id)
  BY DEF Fewer, listFor, listForListings
<1> QED BY <1>2, <1>3

\* No row loses its bytes but one that says so.
Admitted ==
  \A p \in PhotoIds : media'[p] # None /\ media'[p].discarded = FALSE =>
    media[p].discarded = FALSE /\ (Keys(p) \subseteq objects => Keys(p) \subseteq objects')

\* A step that records no photograph, and removes the bytes of none but its own: the rows of those have
\* gone, or are an erasure's to delete.
LEMMA FewerStored ==
  ASSUME Types, Stored, NEW r \in Requests, NEW c \in Req, req' = [req EXCEPT ![r] = c], Fewer, ~Uploaded(c),
         \A p \in PhotoIds : p \notin req[r].photos /\ Keys(p) \subseteq objects => Keys(p) \subseteq objects',
         Admitted,
         \A p \in c.photos : p \in req[r].photos \/ media[p] # None,
         \A p \in c.photos :
           media'[p] = None \/ (c.op = "erase" /\ c.at \in {"bytes", "media"} /\ media'[p].listing \in c.owned)
  PROVE  Stored'
<1>1. \A s \in Requests : req'[s] = IF s = r THEN c ELSE req[s]
  BY DEF Types
<1>2. \A s \in Requests : req[s].photos \subseteq PhotoIds /\ (Uploaded(req[s]) => req[s].place \in PhotoIds)
  BY Zenon DEF Types, Req, Shape, Uploaded
<1>3. Backed'
  BY DEF Stored, Backed, Fewer, Admitted
<1>4. ASSUME NEW s \in Requests, Uploaded(req[s])'
      PROVE  /\ Keys(req[s].place)' \subseteq objects' /\ media'[req'[s].place] = None
             /\ \A t \in Requests : req'[s].place \notin req'[t].photos
             /\ \A t \in Requests : Uploaded(req[t])' /\ req'[t].place = req'[s].place => t = s
  <2>1. s # r /\ req'[s] = req[s] /\ Uploaded(req[s])
    BY <1>1, <1>4 DEF Uploaded
  <2>2. /\ Keys(req[s].place) \subseteq objects /\ media[req[s].place] = None /\ req[s].place \in PhotoIds
        /\ \A t \in Requests : req[s].place \notin req[t].photos
        /\ \A t \in Requests : Uploaded(req[t]) /\ req[t].place = req[s].place => t = s
    BY Zenon, <1>2, <2>1 DEF Stored
  <2>3. Keys(req[s].place)' \subseteq objects'
    BY <2>1, <2>2 DEF Keys, Renditions
  <2>4. media'[req'[s].place] = None
    BY <2>1, <2>2 DEF Fewer
  <2>5. \A t \in Requests : req'[s].place \notin req'[t].photos
    BY <1>1, <2>1, <2>2
  <2>6. \A t \in Requests : Uploaded(req[t])' /\ req'[t].place = req'[s].place => t = s
    BY <1>1, <2>1, <2>2 DEF Uploaded
  <2> QED BY Zenon, <2>3, <2>4, <2>5, <2>6
<1>5. \A s \in Requests : \A p \in req'[s].photos :
       media'[p] = None
         \/ (req'[s].op = "erase" /\ req'[s].at \in {"bytes", "media"} /\ media'[p].listing \in req'[s].owned)
  BY <1>1, <1>2 DEF Stored, Fewer
<1> QED BY Zenon, <1>3, <1>4, <1>5 DEF Stored

LEMMA addKeeps ==
  ASSUME IInv, NEW r \in Requests, NEW o \in Owners, NEW id \in ListingIds, add(r, o, id)
  PROVE  IInv'
<1>1. req[r] = Idle /\ UNCHANGED <<stored, outside, draws>> /\ MayAsk(r, "add", o)
  BY Zenon DEF add, MayAsk
<1> DEFINE c == Ask(r, "add", "count", o, id)
<1>2. c \in Req /\ c.op = "add" /\ c.at = "count" /\ c.user = o /\ c.id = id
      /\ c.owned = {} /\ c.kept = {} /\ c.photos = {}
  <2>1. "add" \in Ops /\ "count" \in Stages
    BY DEF Ops, Stages
  <2> QED BY Zenon, <2>1, Values DEF Ask, Idle, Req, Users, Targets
<1>3. req' = [req EXCEPT ![r] = c]
  BY DEF add
<1> HIDE DEF c
<1>4. Shape(c) /\ Pinned(c) /\ Current(c)
  BY Zenon, <1>2 DEF Shape, Pinned, Current, CurrentIn, Relies, OwnerOps
<1> QED BY Zenon, <1>1, <1>2, <1>3, <1>4, AskStep, Drawn
\* An upload is counted in while the listing has room, and there are no more of them than requests.
LEMMA addCountKeeps ==
  ASSUME IInv, NEW r \in Requests, addCount(r)
  PROVE  IInv'
<1>1. req[r].op = "add" /\ req[r].at = "count" /\ UNCHANGED <<stored, outside, draws>>
  BY Zenon DEF addCount
<1>2. CASE Finish(r)
  BY <1>1, <1>2, RefuseStep
<1>3. CASE ~(Cardinality(listFor(req[r].id)) >= MediaLimit) /\ Advance(r, "put")
  <2>1. Types /\ Stored /\ Within /\ Shape(req[r]) /\ req[r].id \in ListingIds
    BY Zenon, <1>1 DEF IInv, Types, Shape
  <2>2. PICK c \in Req : /\ req' = [req EXCEPT ![r] = c] /\ Further(c, req[r]) /\ c.at = "put"
                         /\ c.pin = req[r].pin /\ c.seen = req[r].seen /\ c.place = req[r].place
                         /\ c.kept = req[r].kept /\ c.photos = req[r].photos
    BY Zenon, <1>3, <2>1, AdvanceFields, Requested
  <2>3. Shape(c) /\ Pinned(c) /\ Current(c) /\ c.photos = {} /\ ~Uploaded(c) /\ MayGoOn(r, c)
    BY Zenon, <1>1, <2>1, <2>2 DEF Shape, Pinned, Current, CurrentIn, Relies, Further, OwnerOps, Uploaded, MayGoOn
  <2>4. UNCHANGED <<versions, listings, locations, media, objects, trail, outside, draws>>
    BY <1>1 DEF stored
  <2>5. Stored'
    BY Zenon, <1>1, <2>1, <2>2, <2>3, <2>4, StoredStep
  <2>6. ASSUME NEW id \in ListingIds
        PROVE  (Cardinality(listFor(id)) + Cardinality(Adding(id)))' <= MediaLimit - 1 + Cardinality(Requests)
    <3>1. listFor(id)' = listFor(id)
      BY <2>4 DEF listFor, listForListings
    <3>2. CASE id # req[r].id
      <4>1. Adding(id)' = Adding(id)
        BY <1>1, <2>1, <2>2, <3>2 DEF Adding, Types, Further
      <4> QED BY <2>1, <3>1, <4>1 DEF Within
    <3>3. CASE id = req[r].id
      <4>1. Adding(id)' \subseteq Requests
        BY DEF Adding
      <4>2. Cardinality(Adding(id)') <= Cardinality(Requests) /\ Cardinality(Adding(id)') \in Nat
            /\ Cardinality(Requests) \in Nat
        BY Zenon, <4>1, FS_Subset, FS_CardinalityType, ListingsAssumption
      <4>3. Cardinality(listFor(id)) \in Nat
        BY <2>1, Counted
      <4>4. MediaLimit \in Nat
        BY Zenon, ListingsAssumption
      <4> QED BY <1>3, <3>1, <3>3, <4>2, <4>3, <4>4
    <3> QED BY <3>2, <3>3
  <2>7. Within'
    BY <2>6 DEF Within
  <2>8. media' \in [PhotoIds -> MediaRows \cup {None}]
        /\ IsFiniteSet({p \in PhotoIds : media'[p] # None}) /\ objects' \subseteq (PhotoIds \X Renditions)
    BY <2>1, <2>4 DEF Types, TypeOK
  <2> QED BY Zenon, <2>2, <2>3, <2>4, <2>5, <2>7, <2>8, PhotoStep
<1> QED BY Zenon, <1>2, <1>3 DEF addCount

\* The bytes of a photograph are stored under a name nothing else has.
LEMMA addPutKeeps ==
  ASSUME IInv, NEW r \in Requests, NEW p \in PhotoIds, addPut(r, p)
  PROVE  IInv'
<1>1. req[r].op = "add" /\ req[r].at = "put" /\ ~InUse(p)
      /\ UNCHANGED <<versions, listings, locations, media, trail, outside, draws>>
  BY DEF addPut
<1>2. Types /\ Stored /\ Within /\ Shape(req[r]) /\ req[r].id \in ListingIds /\ req[r] \in Req
  BY Zenon, <1>1 DEF IInv, Types, Shape
<1>3. objects \subseteq objects' /\ objects' \subseteq (PhotoIds \X Renditions)
  BY <1>2 DEF addPut, Types, TypeOK, Keys, Renditions
<1>4. media' \in [PhotoIds -> MediaRows \cup {None}]
      /\ IsFiniteSet({x \in PhotoIds : media'[x] # None})
  BY <1>1, <1>2 DEF Types, TypeOK
<1>5. \A id \in ListingIds : listFor(id)' \subseteq listFor(id)
  BY Zenon, <1>1 DEF listFor, listForListings
<1>6. CASE Finish(r)
  <2>1. req' = [req EXCEPT ![r] = Idle]
    BY <1>6 DEF Finish
  <2>2. ~Uploaded(Idle) /\ MayGoOn(r, Idle) /\ Idle.op # "add"
    BY Zenon, IdleFields DEF Uploaded, MayGoOn, OwnerOps
  <2>3. Stored'
    BY Zenon, <1>1, <1>2, <1>3, <2>1, <2>2, StoredStep, IdleFields
  <2>4. Within'
    BY Zenon, <1>2, <1>5, <2>1, <2>2, WithinStep, IdleFields
  <2> QED BY Zenon, <1>1, <1>3, <1>4, <2>1, <2>2, <2>3, <2>4, PhotoStep, IdleFields
<1>7. CASE objects' = objects \cup Keys(p) /\ req' = [req EXCEPT ![r].at = "position", ![r].place = p]
  <2> DEFINE c == [req[r] EXCEPT !.at = "position", !.place = p]
  <2>1. c \in Req /\ c.op = "add" /\ c.at = "position" /\ c.place = p /\ c.user = req[r].user /\ c.id = req[r].id
        /\ c.owned = req[r].owned /\ c.kept = req[r].kept /\ c.photos = req[r].photos
    BY Zenon, <1>1, <1>2, Values DEF Req, Stages
  <2>2. req' = [req EXCEPT ![r] = c]
    BY Zenon, <1>2, <1>7 DEF Types
  <2> HIDE DEF c
  <2>3. Shape(c) /\ Pinned(c) /\ Current(c) /\ c.photos = {} /\ MayGoOn(r, c)
    BY Zenon, <1>1, <1>2, <2>1 DEF Shape, Pinned, Current, CurrentIn, Relies, OwnerOps, MayGoOn
  <2>4. \A s \in Requests : req'[s] = IF s = r THEN c ELSE req[s]
    BY <1>2, <2>2 DEF Types
  <2>5. media[p] = None /\ \A s \in Requests : req[s].place # p /\ p \notin req[s].photos
    BY <1>1 DEF InUse
  <2>6. Backed'
    BY <1>1, <1>2, <1>3 DEF Stored, Backed
  <2>7. ASSUME NEW s \in Requests, Uploaded(req[s])'
        PROVE  /\ Keys(req[s].place)' \subseteq objects' /\ media'[req'[s].place] = None
               /\ \A t \in Requests : req'[s].place \notin req'[t].photos
               /\ \A t \in Requests : Uploaded(req[t])' /\ req'[t].place = req'[s].place => t = s
    <3>1. CASE s = r
      BY Zenon, <1>1, <1>7, <2>1, <2>3, <2>4, <2>5, <3>1 DEF Uploaded, Keys
    <3>2. CASE s # r
      <4>1. req'[s] = req[s] /\ Uploaded(req[s])
        BY <2>4, <2>7, <3>2 DEF Uploaded
      <4>2. /\ Keys(req[s].place) \subseteq objects /\ media[req[s].place] = None
            /\ \A t \in Requests : req[s].place \notin req[t].photos
            /\ \A t \in Requests : Uploaded(req[t]) /\ req[t].place = req[s].place => t = s
        BY Zenon, <1>2, <4>1 DEF Stored
      <4>3. Keys(req[s].place)' \subseteq objects'
        BY Zenon, <1>3, <4>1, <4>2 DEF Keys
      <4> QED BY Zenon, <1>1, <2>1, <2>3, <2>4, <2>5, <4>1, <4>2, <4>3 DEF Uploaded
    <3> QED BY Zenon, <3>1, <3>2
  <2>8. \A s \in Requests : \A x \in req'[s].photos :
          media'[x] = None
            \/ (req'[s].op = "erase" /\ req'[s].at \in {"bytes", "media"} /\ media'[x].listing \in req'[s].owned)
    BY Zenon, <1>1, <1>2, <2>3, <2>4 DEF Stored
  <2>9. Stored'
    BY Zenon, <2>6, <2>7, <2>8 DEF Stored
  <2>10. Within'
    BY Zenon, <1>1, <1>2, <1>5, <2>1, <2>2, WithinStep
  <2> QED BY Zenon, <1>1, <1>3, <1>4, <2>1, <2>2, <2>3, <2>9, <2>10, PhotoStep
<1> QED BY <1>6, <1>7 DEF addPut

LEMMA appendKeeps ==
  ASSUME IInv, NEW r \in Requests, append(r)
  PROVE  IInv'
<1>1. req[r].op = "add" /\ req[r].at = "position" /\ UNCHANGED <<stored, outside, draws>>
  BY DEF append
<1>2. Types /\ Shape(req[r]) /\ req[r] \in Req /\ req[r].place \in PhotoIds
  BY Zenon, <1>1 DEF IInv, Types, Shape
<1>3. \A p \in listFor(req[r].id) : media[p].position \in Nat
  BY <1>2 DEF listFor, listForListings, Types, TypeOK, MediaRows
<1>4. PICK n \in Nat : req' = [req EXCEPT ![r].at = "row", ![r].seen = n]
  BY <1>3 DEF append
<1> DEFINE c == [req[r] EXCEPT !.at = "row", !.seen = n]
<1>5. c \in Req /\ c.op = "add" /\ c.at = "row" /\ c.seen = n /\ c.place = req[r].place /\ c.user = req[r].user
      /\ c.id = req[r].id /\ c.owned = req[r].owned /\ c.kept = req[r].kept /\ c.photos = req[r].photos
  BY Zenon, <1>1, <1>2, Values DEF Req, Stages
<1>6. req' = [req EXCEPT ![r] = c]
  BY Zenon, <1>2, <1>4 DEF Types
<1> HIDE DEF c
<1>7. Shape(c) /\ Pinned(c) /\ Current(c) /\ c.photos = {} /\ MayGoOn(r, c) /\ Uploaded(req[r])
  BY Zenon, <1>1, <1>2, <1>5 DEF Shape, Pinned, Current, CurrentIn, Relies, OwnerOps, MayGoOn, Uploaded
<1>8. UNCHANGED <<versions, listings, locations, media, objects, usage, booked, draws, trail>>
  BY <1>1 DEF stored, outside
<1>9. booked' \subseteq ListingIds /\ draws' \in 0..MaxDraws /\ trail' \in [ListingIds -> SUBSET ModerationStates]
  BY <1>2, <1>8 DEF Types, TypeOK
<1> QED BY Zenon, <1>1, <1>5, <1>6, <1>7, <1>8, <1>9, QuietStep
\* A photograph is recorded by the upload that was counted in for it.
LEMMA appendRowKeeps ==
  ASSUME IInv, NEW r \in Requests, appendRow(r)
  PROVE  IInv'
<1>1. req[r].op = "add" /\ req[r].at = "row" /\ Finish(r)
      /\ UNCHANGED <<versions, listings, locations, objects, trail, outside, draws>>
  BY DEF appendRow
<1>2. Types /\ Stored /\ Within /\ Shape(req[r]) /\ req[r].id \in ListingIds /\ req[r].place \in PhotoIds
      /\ req[r].seen \in Nat
  BY Zenon, <1>1 DEF IInv, Types, Shape
<1>3. CASE ~Exists(req[r].id)
  <2>1. media' = media
    BY Zenon, <1>3 DEF appendRow
  <2> QED BY <1>1, <2>1, MissedStep
<1>4. CASE Exists(req[r].id)
  <2>1. PICK p \in PhotoIds, l \in ListingIds, n \in Nat : p = req[r].place /\ l = req[r].id /\ n = req[r].seen
    BY <1>2
  <2>2. media' = [media EXCEPT ![p] = [listing |-> l, position |-> n, discarded |-> FALSE]]
    BY Zenon, <1>4, <2>1 DEF appendRow
  <2>3. media' \in [PhotoIds -> MediaRows \cup {None}]
        /\ objects' \subseteq (PhotoIds \X Renditions)
    BY <1>1, <1>2, <2>2 DEF Types, TypeOK, MediaRows
  <2>4. \A x \in PhotoIds : x # p => media'[x] = media[x]
    BY <1>2, <2>2 DEF Types, TypeOK
  <2>5. media'[p].listing = l
    BY <1>2, <2>2 DEF Types, TypeOK
  <2>6. IsFiniteSet({x \in PhotoIds : media'[x] # None})
    <3>1. {x \in PhotoIds : media'[x] # None} \subseteq {x \in PhotoIds : media[x] # None} \cup {p}
      BY <2>4
    <3>2. IsFiniteSet({x \in PhotoIds : media[x] # None} \cup {p})
      BY Zenon, <1>2, FS_AddElement DEF Types
    <3> QED BY <3>1, <3>2, FS_Subset
  <2>7. \A s \in Requests : req'[s] = IF s = r THEN Idle ELSE req[s]
    BY <1>1, <1>2 DEF Types, Finish
  <2>8. /\ Keys(p) \subseteq objects /\ media[p] = None
        /\ \A s \in Requests : p \notin req[s].photos
        /\ \A s \in Requests : Uploaded(req[s]) /\ req[s].place = p => s = r
    BY <1>1, <1>2, <2>1 DEF Stored, Uploaded
  <2>9. \A s \in Requests : req[s].photos \subseteq PhotoIds /\ (Uploaded(req[s]) => req[s].place \in PhotoIds)
    BY Zenon, <1>2 DEF Types, Req, Shape, Uploaded
  <2>10. Backed'
    BY <1>1, <1>2, <2>4, <2>8 DEF Stored, Backed
  <2>11. ASSUME NEW s \in Requests, Uploaded(req[s])'
         PROVE  /\ Keys(req[s].place)' \subseteq objects' /\ media'[req'[s].place] = None
                /\ \A t \in Requests : req'[s].place \notin req'[t].photos
                /\ \A t \in Requests : Uploaded(req[t])' /\ req'[t].place = req'[s].place => t = s
    <3>1. s # r /\ req'[s] = req[s] /\ Uploaded(req[s]) /\ req[s].place \in PhotoIds /\ req[s].place # p
      BY Zenon, <2>7, <2>8, <2>9, <2>11, IdleFields DEF Uploaded
    <3>2. /\ Keys(req[s].place) \subseteq objects /\ media[req[s].place] = None
          /\ \A t \in Requests : req[s].place \notin req[t].photos
          /\ \A t \in Requests : Uploaded(req[t]) /\ req[t].place = req[s].place => t = s
      BY Zenon, <1>2, <3>1 DEF Stored
    <3>3. Keys(req[s].place)' \subseteq objects'
      BY <1>1, <3>1, <3>2 DEF Keys
    <3> QED BY Zenon, <2>4, <2>7, <3>1, <3>2, <3>3, IdleFields DEF Uploaded
  <2>12. \A s \in Requests : \A x \in req'[s].photos :
           media'[x] = None
             \/ (req'[s].op = "erase" /\ req'[s].at \in {"bytes", "media"} /\ media'[x].listing \in req'[s].owned)
    BY Zenon, <1>2, <2>4, <2>7, <2>8, <2>9, IdleFields DEF Stored
  <2>13. Stored'
    BY Zenon, <2>10, <2>11, <2>12 DEF Stored
  <2>14. ASSUME NEW id \in ListingIds
         PROVE  (Cardinality(listFor(id)) + Cardinality(Adding(id)))' <= MediaLimit - 1 + Cardinality(Requests)
    <3>1. CASE id # l
      <4>1. listFor(id)' \subseteq listFor(id)
        BY <2>4, <2>5, <3>1 DEF listFor, listForListings
      <4>2. Adding(id)' = Adding(id)
        BY Zenon, <2>1, <2>7, <3>1, IdleFields DEF Adding
      <4>3. Cardinality(listFor(id)') <= Cardinality(listFor(id)) /\ Cardinality(listFor(id)') \in Nat
        BY Zenon, <1>2, <4>1, Counted, FS_Subset, FS_CardinalityType
      <4>4. Cardinality(listFor(id)) + Cardinality(Adding(id)) <= MediaLimit - 1 + Cardinality(Requests)
        BY <1>2 DEF Within
      <4> QED BY <1>2, <4>2, <4>3, <4>4, Counted, ListingsAssumption
    <3>2. CASE id = l
      <4>1. listFor(id)' \subseteq listFor(id) \cup {p}
        BY <2>4, <2>5, <3>2 DEF listFor, listForListings
      <4>2. Adding(id)' = Adding(id) \ {r} /\ r \in Adding(id)
        BY Zenon, <1>1, <2>1, <2>7, <3>2, IdleFields DEF Adding
      <4>3. IsFiniteSet(listFor(id) \cup {p}) /\ Cardinality(listFor(id) \cup {p}) <= Cardinality(listFor(id)) + 1
            /\ Cardinality(listFor(id) \cup {p}) \in Nat
        <5>1. IsFiniteSet(listFor(id)) /\ Cardinality(listFor(id)) \in Nat
          BY Zenon, <1>2, Counted
        <5>2. /\ IsFiniteSet(listFor(id) \cup {p})
              /\ Cardinality(listFor(id) \cup {p}) =
                   IF p \in listFor(id) THEN Cardinality(listFor(id)) ELSE Cardinality(listFor(id)) + 1
          BY Zenon, <5>1, FS_AddElement
        <5> QED BY <5>1, <5>2
      <4>4. Cardinality(listFor(id)') <= Cardinality(listFor(id)) + 1 /\ Cardinality(listFor(id)') \in Nat
        <5>1. /\ IsFiniteSet(listFor(id)') /\ Cardinality(listFor(id)') \in Nat
              /\ Cardinality(listFor(id)') <= Cardinality(listFor(id) \cup {p})
          BY Zenon, <4>1, <4>3, FS_Subset, FS_CardinalityType
        <5>2. Cardinality(listFor(id)) \in Nat
          BY Zenon, <1>2, Counted
        <5> QED BY <4>3, <5>1, <5>2
      <4>5. Cardinality(Adding(id)') = Cardinality(Adding(id)) - 1
        BY Zenon, <1>2, <4>2, Counted, FS_RemoveElement
      <4>6. Cardinality(listFor(id)) + Cardinality(Adding(id)) <= MediaLimit - 1 + Cardinality(Requests)
        BY <1>2 DEF Within
      <4>7. /\ Cardinality(listFor(id)) \in Nat /\ Cardinality(Adding(id)) \in Nat
            /\ Cardinality(Requests) \in Nat /\ MediaLimit \in Nat
        BY Zenon, <1>2, Counted, ListingsAssumption
      <4> QED BY <4>4, <4>5, <4>6, <4>7
    <3> QED BY <3>1, <3>2
  <2>15. Within'
    BY <2>14 DEF Within
  <2>16. req' = [req EXCEPT ![r] = Idle] /\ MayGoOn(r, Idle)
    BY <1>1, IdleFields DEF Finish, MayGoOn, OwnerOps
  <2> QED BY Zenon, <1>1, <2>3, <2>6, <2>13, <2>15, <2>16, IdleFields, PhotoStep
<1> QED BY <1>3, <1>4

\* A step of a request that removes rows or bytes of photographs.
LEMMA FewerStep ==
  ASSUME IInv, NEW r \in Requests, NEW c \in Req, req' = [req EXCEPT ![r] = c],
         UNCHANGED <<versions, listings, locations, trail, outside, draws>>,
         media' \in [PhotoIds -> MediaRows \cup {None}], Fewer,
         objects' \subseteq objects,
         Shape(c), Pinned(c), usage.serial => Current(c), MayGoOn(r, c), c.op # "add",
         \A p \in PhotoIds : p \notin req[r].photos /\ Keys(p) \subseteq objects => Keys(p) \subseteq objects',
         Admitted,
         \A p \in c.photos : p \in req[r].photos \/ media[p] # None,
         \A p \in c.photos :
           media'[p] = None \/ (c.op = "erase" /\ c.at \in {"bytes", "media"} /\ media'[p].listing \in c.owned)
  PROVE  IInv'
<1>1. Types /\ Stored /\ Within
  BY Zenon DEF IInv
<1>2. objects' \subseteq (PhotoIds \X Renditions) /\ ~Uploaded(c)
  BY Zenon, <1>1 DEF Types, TypeOK, Uploaded
<1>3. Stored'
  BY Zenon, <1>1, <1>2, FewerStored
<1>4. IsFiniteSet({p \in PhotoIds : media'[p] # None}) /\ Within'
  BY Zenon, <1>1, FewerRows, WithinStep
<1> QED BY Zenon, <1>2, <1>3, <1>4, PhotoStep

LEMMA WithoutRows ==
  ASSUME Types, NEW photos, media' = Without(photos)
  PROVE  /\ media' \in [PhotoIds -> MediaRows \cup {None}] /\ Fewer
         /\ \A p \in PhotoIds \cap photos : media'[p] = None
         /\ \A p \in PhotoIds : media[p] = None => media'[p] = None
         /\ objects' = objects => Admitted
BY DEF Types, TypeOK, Without, Fewer, Admitted

LEMMA removeKeeps ==
  ASSUME IInv, NEW r \in Requests, NEW o \in Owners, NEW id \in ListingIds, NEW p \in PhotoIds, remove(r, o, id, p)
  PROVE  IInv'
<1>1. req[r] = Idle /\ UNCHANGED <<versions, listings, locations, objects, trail, outside, draws>>
      /\ MayAsk(r, "remove", o) /\ media' = Without({p}) /\ media[p] # None
  BY DEF remove, MayAsk, listFor, listForListings
<1> DEFINE c == [Ask(r, "remove", "discard", o, id) EXCEPT !.photos = {p}]
<1>2. c \in Req /\ c.op = "remove" /\ c.at = "discard" /\ c.user = o /\ c.id = id
      /\ c.owned = {} /\ c.kept = {} /\ c.photos = {p}
  <2>1. "remove" \in Ops /\ "discard" \in Stages
    BY DEF Ops, Stages
  <2> QED BY Zenon, <2>1, Values DEF Ask, Idle, Req, Users, Targets
<1>3. req' = [req EXCEPT ![r] = c]
  BY DEF remove
<1> HIDE DEF c
<1>4. Shape(c) /\ Pinned(c) /\ Current(c)
  BY Zenon, <1>2 DEF Shape, Pinned, Current, CurrentIn, Relies, OwnerOps
<1>5. MayGoOn(r, c)
  BY Zenon, <1>1, <1>2 DEF MayGoOn, MayAsk
<1>6. media' \in [PhotoIds -> MediaRows \cup {None}] /\ Fewer /\ media'[p] = None /\ Admitted
  BY Zenon, <1>1, WithoutRows DEF IInv
<1>7. req[r].photos = {}
  BY <1>1, IdleFields
<1> QED BY Zenon, <1>1, <1>2, <1>3, <1>4, <1>5, <1>6, <1>7, FewerStep

\* Deleting bytes touches those of the photographs named.
LEMMA Discarded ==
  ASSUME NEW photos, discard(photos)
  PROVE  /\ objects' \subseteq objects
         /\ \A p : p \notin photos /\ Keys(p) \subseteq objects => Keys(p) \subseteq objects'
BY DEF discard, Keys

LEMMA removeDiscardKeeps ==
  ASSUME IInv, NEW r \in Requests, removeDiscard(r)
  PROVE  IInv'
<1>1. req[r].op = "remove" /\ discard(req[r].photos) /\ req' = [req EXCEPT ![r] = Idle]
      /\ UNCHANGED <<versions, listings, locations, media, trail, outside, draws>>
  BY DEF removeDiscard, Finish
<1>2. media' \in [PhotoIds -> MediaRows \cup {None}] /\ Fewer
  BY <1>1 DEF IInv, Types, TypeOK, Fewer
<1>3. \A p \in req[r].photos : media'[p] = None
  BY <1>1 DEF IInv, Stored
<1>5. Admitted
  BY <1>1, <1>3, Discarded DEF Admitted
<1>4. MayGoOn(r, Idle) /\ Idle.op # "add"
  BY IdleFields DEF MayGoOn, OwnerOps
<1> QED BY Zenon, <1>1, <1>2, <1>3, <1>4, <1>5, Discarded, IdleFields, FewerStep
LEMMA reorderKeeps ==
  ASSUME IInv, NEW r \in Requests, NEW o \in Owners, NEW id \in ListingIds,
         NEW order \in Bijection(1..Cardinality(listFor(id)), listFor(id)), reorder(r, o, id, order)
  PROVE  IInv'
<1>1. req[r] = Idle /\ UNCHANGED <<stored, outside, draws>> /\ MayAsk(r, "reorder", o)
  BY DEF reorder, MayAsk
<1>2. order \in Seq(PhotoIds)
  <2>1. Cardinality(listFor(id)) \in Nat
    BY Counted DEF IInv
  <2>2. order \in [1..Cardinality(listFor(id)) -> PhotoIds]
    BY DEF Bijection, Injection, Surjection, listFor, listForListings
  <2> QED BY <2>1, <2>2
<1> DEFINE c == [Ask(r, "reorder", "write", o, id) EXCEPT !.seen = order]
<1>3. c \in Req /\ c.op = "reorder" /\ c.at = "write" /\ c.user = o /\ c.id = id /\ c.seen = order
      /\ c.owned = {} /\ c.kept = {} /\ c.photos = {}
  <2>1. "reorder" \in Ops /\ "write" \in Stages
    BY DEF Ops, Stages
  <2> QED BY Zenon, <1>2, <2>1, Values DEF Ask, Idle, Req, Users, Targets
<1>4. req' = [req EXCEPT ![r] = c]
  BY DEF reorder
<1> HIDE DEF c
<1>5. Shape(c) /\ Pinned(c) /\ Current(c)
  BY Zenon, <1>2, <1>3 DEF Shape, Pinned, Current, CurrentIn, Relies, OwnerOps
<1> QED BY Zenon, <1>1, <1>3, <1>4, <1>5, AskStep, Drawn

LEMMA reorderWriteKeeps ==
  ASSUME IInv, NEW r \in Requests, reorderWrite(r)
  PROVE  IInv'
<1>1. req[r].op = "reorder" /\ req' = [req EXCEPT ![r] = Idle]
      /\ UNCHANGED <<versions, listings, locations, objects, trail, outside, draws>>
  BY DEF reorderWrite, Finish
<1>2. Types /\ req[r].id \in ListingIds /\ req[r].seen \in Seq(PhotoIds) /\ req[r].photos = {}
  BY Zenon, <1>1 DEF IInv, Types, Shape
<1>3. PICK order \in Seq(PhotoIds) : order = req[r].seen
  BY <1>2
<1> DEFINE place(p) == (CHOOSE n \in DOMAIN order : order[n] = p) - 1
           row(p) == [media[p] EXCEPT !.position = place(p)]
<1>4. media' = [p \in PhotoIds |-> IF p \in listFor(req[r].id) /\ p \in Range(order) THEN row(p) ELSE media[p]]
  BY <1>3 DEF reorderWrite
<1>5. ASSUME NEW p \in Range(order)
      PROVE  place(p) \in Nat
  <2>1. \E n \in DOMAIN order : order[n] = p
    BY <1>5 DEF Range
  <2>2. PICK m : m = CHOOSE n \in DOMAIN order : order[n] = p
    OBVIOUS
  <2>3. m \in DOMAIN order
    BY <2>1, <2>2
  <2>4. m \in 1..Len(order) /\ Len(order) \in Nat
    BY <2>3
  <2> QED BY <2>2, <2>4
<1> HIDE DEF place
<1>6. ASSUME NEW p \in listFor(req[r].id) \cap Range(order)
      PROVE  /\ row(p) \in MediaRows /\ p \in PhotoIds /\ media[p] # None
             /\ row(p).listing = media[p].listing /\ row(p).discarded = media[p].discarded
  <2>1. p \in PhotoIds /\ media[p] # None /\ media[p] \in MediaRows
    BY <1>2 DEF listFor, listForListings, Types, TypeOK
  <2> QED BY <1>5, <2>1 DEF MediaRows
<1> HIDE DEF row
<1>7. media' \in [PhotoIds -> MediaRows \cup {None}] /\ Fewer /\ Admitted
  <2>1. \A p \in PhotoIds : /\ media'[p] \in MediaRows \cup {None}
                            /\ media'[p] # None => /\ media[p] # None /\ media'[p].listing = media[p].listing
                                                   /\ media'[p].discarded = media[p].discarded
    BY <1>2, <1>4, <1>6 DEF Types, TypeOK
  <2> QED BY <1>1, <1>4, <2>1 DEF Fewer, Admitted
<1>8. MayGoOn(r, Idle) /\ Idle.op # "add"
  BY Zenon, IdleFields DEF MayGoOn, OwnerOps
<1> QED BY Zenon, <1>1, <1>2, <1>7, <1>8, IdleFields, FewerStep
-----------------------------------------------------------------------------
(* Erasing an owner's catalogue *)

LEMMA eraseForKeeps ==
  ASSUME IInv, NEW r \in Requests, NEW o \in Owners, eraseFor(r, o)
  PROVE  IInv'
<1>1. req[r] = Idle /\ UNCHANGED <<stored, outside, draws>> /\ MayAsk(r, "erase", o)
  BY DEF eraseFor, MayAsk
<1>2. PICK owned \in SUBSET ListingIds : owned = listIdsOwnedBy(o)
  BY Zenon DEF listIdsOwnedBy
<1> DEFINE c == [Ask(r, "erase", "booked", o, None) EXCEPT !.owned = owned]
<1>3. c \in Req /\ c.op = "erase" /\ c.at = "booked" /\ c.user = o
      /\ c.owned = owned /\ c.kept = {} /\ c.photos = {}
  <2>1. "erase" \in Ops /\ "booked" \in Stages
    BY DEF Ops, Stages
  <2> QED BY Zenon, <2>1, Values DEF Ask, Idle, Req, Users, Targets
<1>4. req' = [req EXCEPT ![r] = c]
  BY <1>2 DEF eraseFor
<1> HIDE DEF c
<1>5. Shape(c) /\ Pinned(c)
  BY Zenon, <1>3 DEF Shape, Pinned, OwnerOps
<1>6. Current(c)
  BY Zenon, <1>2, <1>3 DEF Current, CurrentIn, Relies, listIdsOwnedBy, existsOwnedBy
<1> QED BY Zenon, <1>1, <1>3, <1>4, <1>5, <1>6, AskStep, Drawn

LEMMA eraseBookedKeeps ==
  ASSUME IInv, NEW r \in Requests, eraseBooked(r)
  PROVE  IInv'
<1>1. req[r].op = "erase" /\ req[r].at = "booked" /\ UNCHANGED <<stored, outside, draws>>
      /\ req' = [req EXCEPT ![r].at = "list", ![r].kept = req[r].owned \cap booked]
  BY DEF eraseBooked
<1>2. Types /\ Shape(req[r]) /\ req[r] \in Req /\ (usage.serial => Current(req[r]))
  BY Zenon DEF IInv, Types, InTurn
<1> DEFINE c == [req[r] EXCEPT !.at = "list", !.kept = req[r].owned \cap booked]
<1>3. c \in Req /\ c.op = "erase" /\ c.at = "list" /\ c.user = req[r].user
      /\ c.owned = req[r].owned /\ c.kept = req[r].owned \cap booked /\ c.photos = req[r].photos
  BY Zenon, <1>1, <1>2, Values DEF Req, Stages
<1>4. req' = [req EXCEPT ![r] = c]
  BY Zenon, <1>1, <1>2 DEF Types
<1> HIDE DEF c
<1>5. Shape(c) /\ Pinned(c) /\ MayGoOn(r, c) /\ c.photos = {} /\ req[r].photos = {}
  BY <1>1, <1>2, <1>3 DEF Shape, Pinned, MayGoOn, OwnerOps
<1>6. usage.serial => Current(c)
  BY <1>1, <1>2, <1>3 DEF Current, CurrentIn, Relies
<1>7. UNCHANGED <<versions, listings, locations, media, objects, usage, booked, draws, trail>>
  BY <1>1 DEF stored, outside
<1>8. booked' \subseteq ListingIds /\ draws' \in 0..MaxDraws /\ trail' \in [ListingIds -> SUBSET ModerationStates]
  BY <1>2, <1>7 DEF Types, TypeOK
<1> QED BY Zenon, <1>3, <1>4, <1>5, <1>6, <1>7, <1>8, QuietStep DEF Uploaded

\* Nothing but the step of an erasure, and what it holds to delete, changes.
LEMMA EraseStep ==
  ASSUME IInv, NEW r \in Requests, NEW c \in Req, req' = [req EXCEPT ![r] = c], req[r].op = "erase",
         c.op = "erase", c.user = req[r].user, c.owned = req[r].owned, c.kept = req[r].kept,
         c.at \in {"bytes", "media", "rows"},
         UNCHANGED <<versions, listings, locations, trail, outside, draws>>,
         media' \in [PhotoIds -> MediaRows \cup {None}], Fewer,
         objects' \subseteq objects,
         \A p \in PhotoIds : p \notin req[r].photos /\ Keys(p) \subseteq objects => Keys(p) \subseteq objects',
         Admitted,
         \A p \in c.photos : p \in req[r].photos \/ media[p] # None,
         \A p \in c.photos :
           media'[p] = None \/ (c.at \in {"bytes", "media"} /\ media'[p].listing \in c.owned)
  PROVE  IInv'
<1>1. Shape(req[r]) /\ (usage.serial => Current(req[r]))
  BY Zenon DEF IInv, Types, InTurn
<1>2. Shape(c) /\ Pinned(c) /\ MayGoOn(r, c)
  BY Zenon, <1>1 DEF Shape, Pinned, MayGoOn, OwnerOps
<1>3. usage.serial => Current(c)
  BY Zenon, <1>1 DEF Current, CurrentIn, Relies
<1> QED BY Zenon, <1>2, <1>3, FewerStep

LEMMA eraseListKeeps ==
  ASSUME IInv, NEW r \in Requests, eraseList(r)
  PROVE  IInv'
<1>1. req[r].op = "erase" /\ req[r].at = "list" /\ UNCHANGED <<stored, outside, draws>>
  BY DEF eraseList
<1>2. Types /\ Shape(req[r]) /\ req[r] \in Req /\ req[r].photos = {}
  BY Zenon, <1>1 DEF IInv, Types, Shape
<1>3. PICK found \in SUBSET PhotoIds, at \in {"rows", "bytes"} :
        /\ found = listForListings(req[r].owned) /\ (at = "rows" => found = {})
        /\ req' = [req EXCEPT ![r].at = at, ![r].photos = found]
  BY Zenon DEF eraseList, listForListings
<1> DEFINE c == [req[r] EXCEPT !.at = at, !.photos = found]
<1>4. c \in Req /\ c.op = "erase" /\ c.at = at /\ c.user = req[r].user
      /\ c.owned = req[r].owned /\ c.kept = req[r].kept /\ c.photos = found
  BY Zenon, <1>1, <1>2, Values DEF Req, Stages
<1>5. req' = [req EXCEPT ![r] = c]
  BY Zenon, <1>2, <1>3 DEF Types
<1> HIDE DEF c
<1>6. UNCHANGED <<versions, listings, locations, media, objects, trail, outside, draws>>
  BY <1>1 DEF stored
<1>7. media' \in [PhotoIds -> MediaRows \cup {None}] /\ Fewer /\ Admitted
  BY Zenon, <1>2, <1>6 DEF Types, TypeOK, Fewer, Admitted
<1>8. \A p \in found : media[p] # None /\ media'[p].listing \in req[r].owned
  BY <1>3, <1>6 DEF listForListings
<1>9. /\ c.at \in {"bytes", "media", "rows"} /\ objects' \subseteq objects
      /\ \A p \in PhotoIds : p \notin req[r].photos /\ Keys(p) \subseteq objects => Keys(p) \subseteq objects'
      /\ \A p \in c.photos : p \in req[r].photos \/ media[p] # None
  BY Zenon, <1>2, <1>4, <1>6, <1>8
<1>10. \A p \in c.photos : media'[p] = None \/ (c.at \in {"bytes", "media"} /\ media'[p].listing \in c.owned)
  BY <1>3, <1>4, <1>8
<1> QED BY Zenon, <1>1, <1>4, <1>5, <1>6, <1>7, <1>9, <1>10, EraseStep

LEMMA eraseBytesKeeps ==
  ASSUME IInv, NEW r \in Requests, eraseBytes(r)
  PROVE  IInv'
<1>1. req[r].op = "erase" /\ req[r].at = "bytes" /\ discard(req[r].photos) /\ Advance(r, "media")
      /\ media' = [p \in PhotoIds |->
           IF p \in req[r].photos /\ media[p] # None THEN [media[p] EXCEPT !.discarded = TRUE] ELSE media[p]]
      /\ UNCHANGED <<versions, listings, locations, trail, outside, draws>>
  BY Zenon DEF eraseBytes
<1>2. PICK c \in Req : /\ req' = [req EXCEPT ![r] = c] /\ Further(c, req[r]) /\ c.at = "media"
                       /\ c.pin = req[r].pin /\ c.seen = req[r].seen /\ c.place = req[r].place
                       /\ c.kept = req[r].kept /\ c.photos = req[r].photos
  BY Zenon, <1>1, AdvanceFields, Requested
<1>3. ASSUME NEW p \in PhotoIds
      PROVE  /\ media'[p] \in MediaRows \cup {None} /\ (media[p] = None => media'[p] = None)
             /\ media[p] # None => media'[p].listing = media[p].listing
             /\ p \notin req[r].photos => media'[p] = media[p]
             /\ p \in req[r].photos /\ media[p] # None => media'[p].discarded = TRUE
  <2>1. media[p] \in MediaRows \cup {None}
    BY DEF IInv, Types, TypeOK
  <2>2. CASE p \in req[r].photos /\ media[p] # None
    <3>1. media'[p] = [media[p] EXCEPT !.discarded = TRUE] /\ media[p] \in MediaRows
      BY <1>1, <2>1, <2>2
    <3>2. /\ media'[p] \in MediaRows /\ media'[p].listing = media[p].listing /\ media'[p].discarded = TRUE
      BY Zenon, <3>1 DEF MediaRows
    <3> QED BY <2>1, <2>2, <3>2
  <2>3. CASE ~(p \in req[r].photos /\ media[p] # None)
    BY <1>1, <2>1, <2>3
  <2> QED BY Zenon, <2>2, <2>3
<1>4. media' \in [PhotoIds -> MediaRows \cup {None}] /\ Fewer /\ Admitted
  <2>1. media' \in [PhotoIds -> MediaRows \cup {None}]
    BY Zenon, <1>1, <1>3
  <2>2. Fewer
    BY Zenon, <1>3 DEF Fewer
  <2>3. Admitted
    BY <1>1, <1>3, Discarded DEF Admitted
  <2> QED BY <2>1, <2>2, <2>3
<1>6. \A p \in req[r].photos : media'[p] = None \/ media'[p].listing \in req[r].owned
  <2>1. req[r].photos \subseteq PhotoIds
    BY DEF IInv, Types, Req
  <2>2. \A p \in req[r].photos : media[p] = None \/ media[p].listing \in req[r].owned
    BY Zenon, <1>1 DEF IInv, Stored
  <2> QED BY Zenon, <1>3, <2>1, <2>2
<1>5. c.op = "erase" /\ c.user = req[r].user /\ c.owned = req[r].owned
  BY <1>1, <1>2 DEF Further
<1> QED BY Zenon, <1>1, <1>2, <1>4, <1>5, <1>6, Discarded, EraseStep

LEMMA eraseMediaKeeps ==
  ASSUME IInv, NEW r \in Requests, eraseMedia(r)
  PROVE  IInv'
<1>1. req[r].op = "erase" /\ req[r].at = "media" /\ Advance(r, "rows") /\ media' = Without(listForListings(req[r].owned))
      /\ UNCHANGED <<versions, listings, locations, objects, trail, outside, draws>>
  BY Zenon DEF eraseMedia
<1>2. Types /\ req[r].photos \subseteq PhotoIds
  BY DEF IInv, Types, Req
<1>3. PICK c \in Req : /\ req' = [req EXCEPT ![r] = c] /\ Further(c, req[r]) /\ c.at = "rows"
                       /\ c.pin = req[r].pin /\ c.seen = req[r].seen /\ c.place = req[r].place
                       /\ c.kept = req[r].kept /\ c.photos = req[r].photos
  BY Zenon, <1>1, <1>2, AdvanceFields, Requested
<1>4. PICK found : found = listForListings(req[r].owned)
  OBVIOUS
<1>5. /\ media' \in [PhotoIds -> MediaRows \cup {None}] /\ Fewer
      /\ \A p \in PhotoIds \cap found : media'[p] = None
      /\ \A p \in PhotoIds : media[p] = None => media'[p] = None
      /\ Admitted
  BY Zenon, <1>1, <1>2, <1>4, WithoutRows
<1>6. \A p \in req[r].photos : media'[p] = None
  <2>1. \A p \in req[r].photos : media[p] = None \/ media[p].listing \in req[r].owned
    BY Zenon, <1>1 DEF IInv, Stored
  <2>2. \A p \in req[r].photos : media[p] = None \/ p \in found
    BY <1>2, <1>4, <2>1 DEF listForListings
  <2> QED BY <1>2, <1>5, <2>2
<1>7. c.op = "erase" /\ c.user = req[r].user /\ c.owned = req[r].owned
  BY <1>1, <1>3 DEF Further
<1> QED BY Zenon, <1>1, <1>3, <1>5, <1>6, <1>7, EraseStep
\* The last step of an erasure takes rows of its own owner only.
LEMMA eraseOwnedByKeeps ==
  ASSUME IInv, NEW r \in Requests, eraseOwnedBy(r)
  PROVE  IInv'
<1>1. req[r].op = "erase" /\ req[r].at = "rows" /\ req' = [req EXCEPT ![r] = Idle]
      /\ UNCHANGED <<versions, objects, trail, outside, draws>>
  BY DEF eraseOwnedBy, Finish
<1>2. Types /\ Valid /\ InTurn /\ Stored /\ Within /\ Shape(req[r]) /\ req[r] \in Req
  BY DEF IInv, Types
<1>3. req[r].user \in Owners /\ req[r].kept \subseteq req[r].owned /\ req[r].owned \subseteq ListingIds
      /\ req[r].photos \subseteq PhotoIds
  BY <1>1, <1>2 DEF Shape, OwnerOps, Req
<1>4. \A p \in req[r].photos : media[p] = None
  BY Zenon, <1>1, <1>2 DEF Stored
<1>5. MayGoOn(r, Idle) /\ Idle.op # "add" /\ ~Uploaded(Idle) /\ Idle.op \notin OwnerOps
  BY IdleFields DEF MayGoOn, OwnerOps, Uploaded
<1>6. CASE UNCHANGED <<listings, locations, media>>
  <2>1. media' \in [PhotoIds -> MediaRows \cup {None}] /\ Fewer /\ Admitted
    BY <1>1, <1>2, <1>6 DEF Types, TypeOK, Fewer, Admitted
  <2> QED BY Zenon, <1>1, <1>4, <1>5, <1>6, <2>1, IdleFields, FewerStep
<1>7. CASE ~UNCHANGED <<listings, locations, media>>
  <2>1. PICK going \in SUBSET ListingIds, kept \in SUBSET ListingIds :
          going = listIdsOwnedBy(req[r].user) \ req[r].kept /\ kept = req[r].kept
    BY Zenon, <1>3 DEF listIdsOwnedBy
  <2>2. /\ listings' = [id \in ListingIds |->
               IF id \in going THEN None
               ELSE IF id \in kept /\ Exists(id) THEN [listings[id] EXCEPT !.collapsed = TRUE] ELSE listings[id]]
        /\ locations' = [id \in ListingIds |-> IF id \in going \cup kept THEN None ELSE locations[id]]
        /\ media' = Without(listForListings(going))
    BY <1>7, <2>1 DEF eraseOwnedBy
  <2>3. /\ media' \in [PhotoIds -> MediaRows \cup {None}] /\ Fewer
        /\ \A p \in PhotoIds : media[p] = None => media'[p] = None
        /\ Admitted
    <3>1. PICK found : found = listForListings(going)
      OBVIOUS
    <3> QED BY Zenon, <1>1, <1>2, <2>2, <3>1, WithoutRows
  <2>14. ASSUME NEW i \in kept, i \notin going, Exists(i)
         PROVE  /\ listings'[i] \in ListingRows /\ listings'[i].owner = listings[i].owner
                /\ listings'[i].pin = listings[i].pin /\ listings'[i].content = listings[i].content
                /\ listings'[i].collapsed = TRUE /\ listings'[i].status = listings[i].status
                /\ listings'[i].moderation = listings[i].moderation
    <3>1. listings[i] \in ListingRows
      BY <1>2, <2>14 DEF Types, TypeOK, Exists
    <3>2. listings'[i] = [listings[i] EXCEPT !.collapsed = TRUE]
      BY <2>2, <2>14
    <3> QED BY Zenon, <3>1, <3>2 DEF ListingRows
  <2>4. \A i \in ListingIds :
          /\ listings'[i] # None => /\ Exists(i) /\ i \notin going /\ listings'[i].owner = listings[i].owner
                                   /\ listings'[i].pin = listings[i].pin /\ listings'[i].content = listings[i].content
          /\ locations'[i] = None \/ (locations'[i] = locations[i] /\ i \notin going \cup kept)
          /\ listings'[i] = None => i \in going \/ ~Exists(i)
          /\ i \notin going \cup kept => listings'[i] = listings[i] /\ locations'[i] = locations[i]
          /\ listings'[i] # None /\ i \in kept => listings'[i].collapsed = TRUE
    <3>1. ASSUME NEW i \in ListingIds
          PROVE  /\ listings'[i] # None => Exists(i) /\ i \notin going
                 /\ locations'[i] = None \/ (locations'[i] = locations[i] /\ i \notin going \cup kept)
                 /\ i \notin going \cup kept => listings'[i] = listings[i] /\ locations'[i] = locations[i]
      BY <2>2 DEF Exists
    <3>2. ASSUME NEW i \in ListingIds, listings'[i] = None
          PROVE  i \in going \/ ~Exists(i)
      <4>1. CASE i \in kept /\ i \notin going /\ Exists(i)
        BY Zenon, <2>14, <3>2, <4>1, ListingsAssumption
      <4>2. CASE i \notin kept /\ i \notin going
        BY <3>1, <3>2, <4>2 DEF Exists
      <4> QED BY <4>1, <4>2
    <3> QED BY Zenon, <2>14, <3>1, <3>2
  <2>5. TypeOK'
    <3>1. locations' \in [ListingIds -> LocationRows \cup {None}]
      BY <1>2, <2>2 DEF Types, TypeOK
    <3>2. \A i \in ListingIds : ~Exists(i)' => locations'[i] = None
      BY Zenon, <1>2, <2>4 DEF Types, TypeOK, Exists
    <3>3. \A i \in ListingIds : listings'[i] \in ListingRows \cup {None}
      BY Zenon, <1>2, <2>4, <2>14 DEF Types, TypeOK
    <3>4. listings' \in [ListingIds -> ListingRows \cup {None}]
      BY Zenon, <2>2, <3>3
    <3> QED BY Zenon, <1>1, <1>2, <2>3, <3>1, <3>2, <3>4 DEF Types, TypeOK, Latest, outside
  <2>6. \A s \in Requests : req'[s] = IF s = r THEN Idle ELSE req[s]
    BY <1>1, <1>2 DEF Types
  <2>7. Valid'
    <3>1. PinnedAnswersFit'
      BY Zenon, <1>1, <1>2, <2>4 DEF Valid, PinnedAnswersFit, Exists, Latest
    <3>2. ASSUME NEW s \in Requests
          PROVE  Pinned(req[s])'
      <4>1. Pinned(req[s]) /\ Pinned(Idle)
        BY Zenon, <1>2, IdleFields DEF Valid, Pinned
      <4>2. versions' = versions
        BY Zenon, <1>1
      <4> QED BY Zenon, <2>6, <4>1, <4>2, PinnedKept
    <3> QED BY <3>1, <3>2 DEF Valid
  <2>8. ASSUME usage.serial
        PROVE  /\ Alone' /\ PointMatchesAddress'
               /\ \A i \in ListingIds : Exists(i)' => Whole(listings'[i], locations'[i], versions')
               /\ \A s \in Requests : Current(req[s])'
    <3>1. Alone'
      BY Zenon, <1>2, <1>5, <2>6, <2>8 DEF InTurn, Alone
    <3>2. PointMatchesAddress'
      BY <1>2, <2>4, <2>8 DEF InTurn, PointMatchesAddress, IsLocated
    <3>3. \A i \in ListingIds : Exists(i)' => Whole(listings'[i], locations'[i], versions')
      <4>1. ASSUME NEW i \in ListingIds, Exists(i)'
            PROVE  Whole(listings'[i], locations'[i], versions)
        <5>1. Exists(i) /\ i \notin going
          BY <2>4, <4>1 DEF Exists
        <5>2. Whole(listings[i], locations[i], versions)
          BY Zenon, <1>2, <2>8, <5>1 DEF InTurn
        <5>3. CASE i \in kept
          <6>1. /\ listings'[i].pin = listings[i].pin /\ listings'[i].content = listings[i].content
                /\ listings'[i].collapsed = TRUE /\ listings'[i].status = listings[i].status
            BY Zenon, <2>14, <5>1, <5>3
          <6> QED BY Zenon, <5>2, <6>1 DEF Whole
        <5>4. CASE i \notin kept
          BY <2>4, <5>1, <5>2, <5>4
        <5> QED BY <5>3, <5>4
      <4> QED BY Zenon, <1>1, <4>1
    <3>4. ASSUME NEW s \in Requests
          PROVE  Current(req[s])'
      <4>1. CASE s = r
        BY Zenon, <2>6, <3>4, <4>1, IdleFields DEF Current, CurrentIn, Relies
      <4>2. CASE s # r
        <5>1. req'[s] = req[s] /\ Current(req[s]) /\ Shape(req[s]) /\ req[s] \in Req
          BY Zenon, <1>2, <2>6, <2>8, <3>4, <4>2 DEF InTurn, Types
        <5>2. req[s].op \in OwnerOps => req[s].user # req[r].user
          BY <1>1, <1>2, <2>8, <3>4, <4>2 DEF InTurn, Alone, OwnerOps
        <5>3. \A i \in going \cup kept : Exists(i) => listings[i].owner = req[r].user
          <6>1. \A i \in kept : Exists(i) => listings[i].owner = req[r].user
            BY Zenon, <1>1, <1>2, <1>3, <2>1, <2>8 DEF InTurn, Current, CurrentIn, Relies, Exists
          <6>2. \A i \in going : listings[i].owner = req[r].user
            BY Zenon, <2>1 DEF listIdsOwnedBy, existsOwnedBy
          <6> QED BY <6>1, <6>2
        <5>4. req[s].op \in OwnerOps /\ existsOwnedBy(req[s].id, req[s].user) =>
                req[s].id \notin going \cup kept
          BY <5>2, <5>3 DEF existsOwnedBy
        <5>5. Relies(req[s]) =>
                /\ req[s].id \in ListingIds /\ Mine(listings[req[s].id], req[s].user)
                /\ listings'[req[s].id] = listings[req[s].id] /\ locations'[req[s].id] = locations[req[s].id]
          BY Zenon, <2>4, <5>1, <5>4 DEF Current, CurrentIn, Relies, Shape, OwnerOps, Mine, existsOwnedBy, Exists
        <5>6. req[s].op = "erase" => \A i \in req[s].owned : listings'[i] # None => listings'[i].owner = req[s].user
          BY Zenon, <2>4, <5>1 DEF Current, CurrentIn, Relies, Exists, Req
        <5>7. CurrentIn(req[s], listings', locations', versions)
          BY Zenon, <5>1, <5>5, <5>6, CurrentKept DEF Current
        <5> QED BY Zenon, <1>1, <5>1, <5>7 DEF Current
      <4> QED BY <4>1, <4>2
    <3> QED BY Zenon, <3>1, <3>2, <3>3, <3>4
  <2>9. usage' = usage
    BY <1>1 DEF outside
  <2>10. InTurn'
    BY Zenon, <2>8, <2>9 DEF InTurn
  <2>11. Stored'
    BY Zenon, <1>1, <1>2, <1>3, <1>4, <1>5, <2>3, IdleFields, FewerStored
  <2>12. IsFiniteSet({p \in PhotoIds : media'[p] # None}) /\ Within'
    BY Zenon, <1>1, <1>2, <1>5, <2>3, FewerRows, WithinStep, IdleFields
  <2>13. Types'
    BY Zenon, <1>1, <1>2, <2>5, <2>9, <2>12, TypesStep, IdleFields
  <2> QED BY <2>7, <2>10, <2>11, <2>12, <2>13 DEF IInv
<1> QED BY <1>6, <1>7

LEMMA eraseFailsKeeps ==
  ASSUME IInv, NEW r \in Requests, eraseFails(r)
  PROVE  IInv'
BY Zenon, RefuseStep DEF eraseFails
-----------------------------------------------------------------------------
(* The invariant *)

\* What other modules do to the catalogue's surroundings, and doing nothing.
LEMMA SurroundingsKeep ==
  ASSUME IInv, UNCHANGED <<stored, booked, usage, draws, req>>
  PROVE  IInv'
<1>1. UNCHANGED <<versions, listings, locations, media, objects, trail, booked, usage, draws, req>>
  BY DEF stored
<1>2. Types'
  <2>1. TypeOK'
    BY Zenon, <1>1 DEF IInv, Types, TypeOK, Exists, Latest
  <2> QED BY Zenon, <1>1, <2>1 DEF IInv, Types
<1>3. Valid'
  BY Zenon, <1>1 DEF IInv, Valid, PinnedAnswersFit, Exists, Latest, Pinned, Fits
<1>4. InTurn'
  BY Zenon, <1>1 DEF IInv, InTurn, Alone, PointMatchesAddress, Current, Exists, IsLocated
<1>5. Stored'
  BY Zenon, <1>1 DEF IInv, Stored, Backed
<1>6. Within'
  BY <1>1 DEF IInv, Within, listFor, listForListings, Adding
<1> QED BY <1>2, <1>3, <1>4, <1>5, <1>6 DEF IInv

LEMMA InitIInv == Init => IInv
<1> SUFFICES ASSUME Init
             PROVE  IInv
  OBVIOUS
<1>1. versions \in Seq(Configurations \cup {FirstConfiguration}) /\ Latest = 1
  BY DEF Init, Latest
<1>2. TypeOK
  BY <1>1, ListingsAssumption DEF Init, TypeOK, Exists
<1>3. \A r \in Requests : req[r] = Idle
  BY DEF Init
<1>4. {p \in PhotoIds : media[p] # None} = {} /\ \A id \in ListingIds : listFor(id) = {}
  BY DEF Init, listFor, listForListings
<1>5. Types
  <2>1. IsFiniteSet({p \in PhotoIds : media[p] # None})
    BY Zenon, <1>4, FS_EmptySet
  <2> QED BY Zenon, <1>2, <1>3, <2>1, IdleFields DEF Init, Types
<1>6. Valid
  BY <1>3, IdleFields DEF Init, Valid, PinnedAnswersFit, Exists
<1>7. InTurn
  BY <1>3, IdleFields DEF Init, InTurn, Alone, OwnerOps, PointMatchesAddress, IsLocated, Exists
<1>8. Stored
  BY Zenon, <1>3, IdleFields DEF Init, Stored, Backed, Uploaded
<1>9. Within
  <2>1. \A id \in ListingIds : Adding(id) = {}
    BY <1>3, IdleFields DEF Adding
  <2>2. Cardinality(Requests) \in Nat
    BY FS_CardinalityType, ListingsAssumption
  <2>3. Cardinality({}) = 0
    BY Zenon, FS_EmptySet
  <2>4. \A id \in ListingIds : Cardinality(listFor(id)) = 0 /\ Cardinality(Adding(id)) = 0
    BY Zenon, <1>4, <2>1, <2>3
  <2> QED BY <2>2, <2>4, ListingsAssumption DEF Within
<1> QED BY <1>5, <1>6, <1>7, <1>8, <1>9 DEF IInv

LEMMA NextIInv == IInv /\ [Next]_vars => IInv'
<1> SUFFICES ASSUME IInv, [Next]_vars
             PROVE  IInv'
  OBVIOUS
<1>1. ASSUME NEW r \in Requests, OwnerStep(r)
      PROVE  IInv'
  BY <1>1, createDraftPinKeeps, editOptionKeeps, editPlaceKeeps, editCompleteKeeps, updatePinKeeps, updateWriteKeeps,
     publishReadKeeps, publishCompleteKeeps, publishWriteKeeps, pauseWriteKeeps, createDraftInsertKeeps DEF OwnerStep
<1>2. ASSUME NEW r \in Requests, MediaStep(r)
      PROVE  IInv'
  BY <1>2, addCountKeeps, appendKeeps, appendRowKeeps, removeDiscardKeeps, reorderWriteKeeps, eraseBookedKeeps,
     eraseListKeeps, eraseBytesKeeps, eraseMediaKeeps, eraseOwnedByKeeps, eraseFailsKeeps, addPutKeeps DEF MediaStep
<1>3. ASSUME NEW r \in Requests, OtherStep(r)
      PROVE  IInv'
  BY <1>3, moderateWriteKeeps, moderateAuditKeeps, addVersionKeeps, insertBookingKeeps DEF OtherStep
<1>4. ASSUME NEW r \in Requests, NewRequest(r)
      PROVE  IInv'
  BY Zenon, <1>4, createDraftKeeps, eraseForKeeps, editKeeps, publishKeeps, pauseKeeps, addKeeps, removeKeeps, reorderKeeps,
     moderateKeeps, reconfigureKeeps, requestBookingKeeps DEF NewRequest
<1>5. CASE Surroundings
  BY <1>5, SurroundingsKeep DEF Surroundings, declareOwnerStatus, flipPublication
<1>6. CASE UNCHANGED vars
  BY <1>6, SurroundingsKeep DEF vars, stored
<1> QED BY <1>1, <1>2, <1>3, <1>4, <1>5, <1>6 DEF Next

\* The invariant holds of every state the catalogue reaches, for any number of owners, listings,
\* photographs, versions and requests in flight.
THEOREM Inductive == Spec => []IInv
BY InitIInv, NextIInv, PTL DEF Spec
-----------------------------------------------------------------------------
(* What follows *)

\* Every table holds rows of its own shape, and an address never stands without its listing.
THEOREM TypeCorrect == Spec => []TypeOK
<1>1. IInv => TypeOK
  BY DEF IInv, Types
<1> QED BY <1>1, Inductive, PTL

\* However versions are added and requests interleave, a listing's answers are answers to the version it
\* pins: the store compares the version again before it writes (prisma-listing-store.ts, createDraft, update).
THEOREM PinnedAnswersFitHolds == Spec => []PinnedAnswersFit
<1>1. IInv => PinnedAnswersFit
  BY DEF IInv, Valid
<1> QED BY <1>1, Inductive, PTL

\* For owners who wait for each reply, coordinates are those of the address they stand beside (writeLocation).
THEOREM PointMatchesAddressInTurnHolds == Spec => []PointMatchesAddressInTurn
<1>1. IInv => PointMatchesAddressInTurn
  BY Zenon DEF IInv, InTurn, PointMatchesAddressInTurn
<1> QED BY <1>1, Inductive, PTL

\* For owners who wait for each reply, a published listing has what publication asks for (publish, edit), but
\* for the address of one that an erasure has kept for its bookings (eraseOwnedBy).
THEOREM PublishedCompleteInTurnHolds == Spec => []PublishedCompleteInTurn
<1>1. ASSUME IInv, usage.serial, NEW id \in ListingIds, Published(id)
      PROVE  /\ ~listings[id].collapsed => Lacks(id) = {}
             /\ Lacks(id) \subseteq {"collectionLocation"}
  <2>1. /\ Answered(listings[id].content, versions[listings[id].pin])
        /\ IsLocated(id) \/ listings[id].collapsed = TRUE
    BY Zenon, <1>1 DEF IInv, InTurn, Published, Whole, Sited, IsLocated
  <2>2. Lacks(id) \subseteq {"collectionLocation"}
    BY <2>1 DEF Lacks, publicationBlockers, Answered
  <2>3. IsLocated(id) => Lacks(id) = {}
    BY <2>1 DEF Lacks, publicationBlockers, Answered, IsLocated
  <2> QED BY <2>1, <2>2, <2>3
<1>2. IInv => PublishedCompleteInTurn
  BY Zenon, <1>1 DEF PublishedCompleteInTurn, PublishedComplete
<1> QED BY <1>2, Inductive, PTL

\* The bytes of every photograph that has a row are in the bucket, unless an erasure has set out to delete them,
\* wherever erasures fail (listing-media.service.ts: bytes before the row, and after it); and an erasure that has
\* deleted the rows has left none of what it found.
THEOREM PhotographsHaveBytesHolds == Spec => []PhotographsHaveBytes
<1>1. ASSUME IInv
      PROVE  PhotographsHaveBytes
  <2>1. \A p \in PhotoIds : media[p] # None => media[p].discarded \in BOOLEAN
    BY <1>1 DEF IInv, Types, TypeOK, MediaRows
  <2>2. \A p \in PhotoIds : media[p] # None /\ ~media[p].discarded => Keys(p) \subseteq objects
    BY <1>1, <2>1 DEF IInv, Stored, Backed
  <2>3. \A r \in Requests : req[r].op = "erase" /\ req[r].at = "rows" =>
          \A p \in req[r].photos : media[p] = None
    BY <1>1 DEF IInv, Stored
  <2> QED BY <2>2, <2>3 DEF PhotographsHaveBytes
<1> QED BY <1>1, Inductive, PTL

\* Uploads that overlap pass the limit by fewer than there are requests (listing-media.service.ts, add).
THEOREM WithinMediaLimitHolds == Spec => []WithinMediaLimit
<1>1. ASSUME IInv
      PROVE  WithinMediaLimit
  <2> SUFFICES ASSUME NEW id \in ListingIds
               PROVE  Cardinality(listFor(id)) <= MediaLimit + Cardinality(Requests) - 1
    BY DEF WithinMediaLimit
  <2>1. Cardinality(listFor(id)) + Cardinality(Adding(id)) <= MediaLimit - 1 + Cardinality(Requests)
    BY <1>1 DEF IInv, Within
  <2> QED BY <1>1, <2>1, Counted, ListingsAssumption DEF IInv
<1> QED BY <1>1, Inductive, PTL
\* What a step leaves of each listing that it does not remove.
Respects ==
  \A id \in ListingIds : Exists(id) /\ Exists(id)' =>
    /\ listings[id].moderation # listings'[id].moderation =>
         \E r \in Requests : req[r].op = "moderate" /\ req[r].id = id /\ listings[id].status = listings'[id].status
    /\ listings[id].status # listings'[id].status =>
         \E r \in Requests : req[r].op \in {"publish", "pause"} /\ req[r].id = id

\* A step that leaves the rows of listings, or removes them.
LEMMA Untouched ==
  ASSUME \A id \in ListingIds : Exists(id) /\ Exists(id)' => listings'[id] = listings[id]
  PROVE  Respects
BY DEF Respects

LEMMA updateWriteRespects ==
  ASSUME IInv, NEW r \in Requests, updateWrite(r)
  PROVE  Respects
<1>1. req[r].id \in ListingIds /\ listings \in [ListingIds -> ListingRows \cup {None}]
  BY DEF updateWrite, IInv, Types, Shape, TypeOK
<1>2. CASE listings' = listings
  BY <1>2, Untouched
<1>3. CASE listings' # listings
  <2> DEFINE q == req[r]
             b == q.place.kind # "cleared"
  <2>1. Exists(q.id) /\ listings' = [listings EXCEPT ![q.id].pin = q.pin, ![q.id].content = q.form.content,
                                                     ![q.id].district = b, ![q.id].collapsed = FALSE]
    BY <1>3 DEF updateWrite, existsOwnedBy
  <2>2. listings[q.id] \in ListingRows
    BY <1>1, <2>1 DEF Exists
  <2> HIDE DEF b, q
  <2>3. \A id \in ListingIds : Exists(id) =>
          listings'[id].status = listings[id].status /\ listings'[id].moderation = listings[id].moderation
    BY <1>1, <2>1, <2>2 DEF ListingRows
  <2> QED BY <2>3 DEF Respects
<1> QED BY <1>2, <1>3

LEMMA SetStatusRespects ==
  ASSUME IInv, NEW r \in Requests, req[r].op \in {"publish", "pause"}, NEW status \in Statuses,
         SetStatus(req[r].id, req[r].user, status)
  PROVE  Respects
<1>1. req[r].id \in ListingIds /\ listings \in [ListingIds -> ListingRows \cup {None}]
  BY Zenon DEF IInv, Types, Shape, TypeOK
<1>2. CASE listings' = listings
  BY <1>2, Untouched
<1>3. CASE listings' # listings
  <2>1. Exists(req[r].id) /\ listings' = [listings EXCEPT ![req[r].id].status = status]
    BY <1>3 DEF SetStatus, existsOwnedBy
  <2>2. listings[req[r].id] \in ListingRows
    BY <1>1, <2>1 DEF Exists
  <2>3. listings'[req[r].id].moderation = listings[req[r].id].moderation
    BY <1>1, <2>1, <2>2 DEF ListingRows
  <2>4. \A id \in ListingIds : id # req[r].id => listings'[id] = listings[id]
    BY <1>1, <2>1
  <2> QED BY <2>3, <2>4 DEF Respects
<1> QED BY <1>2, <1>3

LEMMA moderateWriteRespects ==
  ASSUME IInv, NEW r \in Requests, moderateWrite(r)
  PROVE  Respects
<1>1. req[r].op = "moderate" /\ req[r].id \in ListingIds /\ listings \in [ListingIds -> ListingRows \cup {None}]
  BY DEF moderateWrite, IInv, Types, Shape, TypeOK
<1>2. CASE listings' = listings
  BY <1>2, Untouched
<1>3. CASE listings' # listings
  <2>1. Exists(req[r].id) /\ listings' = [listings EXCEPT ![req[r].id].moderation = req[r].form.state,
                                                          ![req[r].id].reason = req[r].form.reason]
    BY <1>3 DEF moderateWrite
  <2>2. listings[req[r].id] \in ListingRows
    BY <1>1, <2>1 DEF Exists
  <2>3. listings'[req[r].id].status = listings[req[r].id].status
    BY <1>1, <2>1, <2>2 DEF ListingRows
  <2>4. \A id \in ListingIds : id # req[r].id => listings'[id] = listings[id]
    BY <1>1, <2>1
  <2> QED BY Zenon, <1>1, <2>3, <2>4 DEF Respects
<1> QED BY <1>2, <1>3

LEMMA eraseOwnedByRespects ==
  ASSUME IInv, NEW r \in Requests, eraseOwnedBy(r)
  PROVE  Respects
<1>1. ASSUME NEW id \in ListingIds, Exists(id), Exists(id)'
      PROVE  listings'[id].moderation = listings[id].moderation /\ listings'[id].status = listings[id].status
  <2>1. listings[id] \in ListingRows
    BY <1>1 DEF IInv, Types, TypeOK, Exists
  <2>2. listings'[id] \in {listings[id], [listings[id] EXCEPT !.collapsed = TRUE]}
    BY <1>1 DEF eraseOwnedBy, Exists
  <2> QED BY <2>1, <2>2 DEF ListingRows
<1> QED BY <1>1 DEF Respects

LEMMA NextRespects ==
  ASSUME IInv, [Next]_vars
  PROVE  Respects
<1>1. CASE listings' = listings
  BY <1>1, Untouched
<1>2. CASE listings' # listings
  <2>1. PICK r \in Requests :
          \/ updateWrite(r) \/ publishWrite(r) \/ pauseWrite(r) \/ moderateWrite(r) \/ eraseOwnedBy(r)
          \/ \E id \in ListingIds : createDraftInsert(r, id)
    <3>1. UNCHANGED stored => listings' = listings
      BY DEF stored
    <3>2. ASSUME NEW r \in Requests, NewRequest(r)
          PROVE  listings' = listings
      <4>1. \A o, f : createDraft(r, o, f) => listings' = listings
        BY DEF createDraft, stored
      <4>2. \A o : eraseFor(r, o) => listings' = listings
        BY DEF eraseFor, stored
      <4>3. \A o, id, f : edit(r, o, id, f) => listings' = listings
        BY DEF edit, stored
      <4>4. \A o, id : publish(r, o, id) => listings' = listings
        BY DEF publish, stored
      <4>5. \A o, id : pause(r, o, id) => listings' = listings
        BY DEF pause, stored
      <4>6. \A o, id : add(r, o, id) => listings' = listings
        BY DEF add, stored
      <4>7. \A o, id, p : remove(r, o, id, p) => listings' = listings
        BY DEF remove, stored
      <4>8. \A o, id, order : reorder(r, o, id, order) => listings' = listings
        BY DEF reorder, stored
      <4>9. \A id, st, b : moderate(r, id, st, b) => listings' = listings
        BY DEF moderate, stored
      <4>10. \A c : reconfigure(r, c) => listings' = listings
        BY DEF reconfigure, stored
      <4>11. \A id : requestBooking(r, id) => listings' = listings
        BY DEF requestBooking, stored
      <4> QED BY Zenon, <3>2, <4>1, <4>2, <4>3, <4>4, <4>5, <4>6, <4>7, <4>8, <4>9, <4>10, <4>11 DEF NewRequest
    <3>3. ~Surroundings
      BY <1>2, <3>1 DEF Surroundings, declareOwnerStatus, flipPublication
    <3>4. \A r \in Requests : OwnerStep(r) =>
            \/ updateWrite(r) \/ publishWrite(r) \/ pauseWrite(r) \/ \E id \in ListingIds : createDraftInsert(r, id)
      BY <1>2, <3>1 DEF OwnerStep, createDraftPin, editOption, editPlace, editComplete, updatePin, publishRead,
                        publishComplete
    <3>5. \A r \in Requests : MediaStep(r) => eraseOwnedBy(r)
      BY <1>2, <3>1 DEF MediaStep, addCount, append, appendRow, removeDiscard, reorderWrite, eraseBooked, eraseList,
                        eraseBytes, eraseMedia, eraseFails, addPut
    <3>6. \A r \in Requests : OtherStep(r) => moderateWrite(r)
      BY <1>2, <3>1 DEF OtherStep, moderateAudit, addVersion, insertBooking
    <3>7. Next
      BY <1>2 DEF vars
    <3> QED BY Zenon, <1>2, <3>2, <3>3, <3>4, <3>5, <3>6, <3>7 DEF Next
  <2>2. CASE updateWrite(r)
    BY <2>2, updateWriteRespects
  <2>3. CASE publishWrite(r)
    BY Zenon, <2>3, SetStatusRespects DEF publishWrite, Statuses
  <2>4. CASE pauseWrite(r)
    BY <2>4, SetStatusRespects DEF pauseWrite, Statuses
  <2>5. CASE moderateWrite(r)
    BY <2>5, moderateWriteRespects
  <2>6. CASE eraseOwnedBy(r)
    BY <2>6, eraseOwnedByRespects
  <2>7. ASSUME NEW new \in ListingIds, createDraftInsert(r, new)
        PROVE  Respects
    <3>1. \A id \in ListingIds : Exists(id) => listings'[id] = listings[id]
      BY Zenon, <2>7 DEF createDraftInsert, IInv, Types, TypeOK
    <3> QED BY <3>1, Untouched
  <2> QED BY <2>1, <2>2, <2>3, <2>4, <2>5, <2>6, <2>7
<1> QED BY <1>1, <1>2

\* Neither authority overrides the other: only moderating a listing changes the platform's state of it, leaving
\* its owner's, and only publishing or pausing that listing changes its owner's (prisma-listing-store.ts,
\* moderate, publish, pause).
THEOREM NeitherOverridesHolds == Spec => NeitherOverrides
<1>1. IInv /\ [Next]_vars =>
        [\A id \in ListingIds : Exists(id) /\ Exists(id)' =>
           /\ listings[id].moderation # listings'[id].moderation =>
                \E r \in Requests : req[r].op = "moderate" /\ req[r].id = id /\ listings[id].status = listings'[id].status
           /\ listings[id].status # listings'[id].status =>
                \E r \in Requests : req[r].op \in {"publish", "pause"} /\ req[r].id = id]_vars
  BY Zenon, NextRespects DEF Respects
<1> QED BY <1>1, Inductive, PTL DEF Spec, NeitherOverrides
=============================================================================
