------------------------------ MODULE Clients ------------------------------
(***************************************************************************)
(* The site's API clients (apps/web/src/lib): what a page is told about a  *)
(* request, given what came back.                                          *)
(*                                                                         *)
(* An answer w on the wire is [status, body, of, read].  `status` is 0     *)
(* when nothing came back (the timeout fired, the connection broke) and 1  *)
(* when there was no token, so nothing was sent.  `body` is the set of     *)
(* fields the API wrote, `of` the result of the service it was written     *)
(* from.  `read` is how the body arrives: "whole", "cut" (text() rejects)  *)
(* or "garbled" (text() resolves, parsing it throws).                      *)
(*                                                                         *)
(* A client maps an answer to [kind, says]: its outcome, and whose words   *)
(* come with it - the API's ("given"), the client's stand-in for them      *)
(* ("fallback"), a description of the transport, or none (the page's       *)
(* "own").  A loaded value says which result it is.  "thrown" is a         *)
(* rejected promise: it leaves the caller for the nearest error boundary.  *)
(***************************************************************************)
EXTENDS Naturals, TLC

Unanswered == 0
Unsent     == 1

Outcome(kind, says) == [kind |-> kind, says |-> says]

\* `describe` puts the transport error in words; every client has its own copy.
describe(kind) == Outcome(kind, "transport")

thrown == Outcome("thrown", "transport")

\* A refusal whose body the client reads: the kind it becomes, the fields any of
\* which replaces the stand-in, and whether a body cut off is caught.
Reads(kind, fields)  == [kind |-> kind, fields |-> fields, caught |-> FALSE]
Catches(kind, fields) == [kind |-> kind, fields |-> fields, caught |-> TRUE]

readError(w, r) ==
  IF w.read = "cut" /\ ~r.caught THEN thrown
  ELSE Outcome(r.kind, IF w.read = "whole" /\ w.body \cap r.fields # {} THEN "given" ELSE "fallback")

\* The tail of every client: a 2xx body read, parsed and checked against its schema.
\* An empty body does not parse.
readJson(w, kind, failed, garbled) ==
  CASE w.read = "cut"                          -> describe(failed)
    [] w.read = "whole" /\ "value" \in w.body  -> Outcome(kind, w.of)
    [] w.read = "garbled" \/ (w.read = "whole" /\ "value" \notin w.body) -> describe(garbled)

Success == 200..299

\* The skeleton the clients share: statuses that are outcomes by themselves, statuses
\* whose body is read, success, and everything else.
Client(w, plain, refusals, kind) ==
  CASE w.status \in DOMAIN plain    -> Outcome(plain[w.status], "own")
    [] w.status \in DOMAIN refusals -> readError(w, refusals[w.status])
    [] w.status \in Success         -> readJson(w, kind, "unreachable", "malformed")
    [] OTHER                        -> describe("unreachable")

Nothing   == <<>>
signedOut == Unsent :> "signed-out" @@ 401 :> "signed-out"
guarded   == signedOut @@ 403 :> "forbidden"
owned     == guarded @@ 404 :> "not-found"
-----------------------------------------------------------------------------
(* lib/listings.ts, and the clients built on its `call` *)

\* A 204 has no body: it is loaded without one being read.
call_reads204(w, on) ==
  Client(w, owned, on @@ 400 :> Reads("invalid", {"issues"}) @@ 409 :> Reads("stale-category", {"message"}),
         "loaded")

call(w, on) ==
  IF w.status = 204 THEN Outcome("loaded", w.of)
  ELSE Client(w, owned,
              on @@ 400 :> Reads("invalid", {"issues"}) @@ 409 :> Reads("stale-category", {"message"}),
              "loaded")

publicCall(w) == Client(w, 404 :> "not-found", Nothing, "loaded")

readBlockers          == {"blockers"}
readUnavailableReason == {"message"}
readRefusalReason     == {"message"}
messageIn             == {"message"}

fetchCategoryOptions(w) == call(w, Nothing)
createListing(w)        == call(w, Nothing)
fetchListing(w)         == call(w, Nothing)
fetchOwnedListings(w)   == call(w, Nothing)
updateListing(w)        == call(w, 422 :> Reads("incomplete", readBlockers))

publishListing_no503(w) == call(w, 422 :> Reads("not-ready", readBlockers))

publishListing(w) ==
  call(w, 422 :> Reads("not-ready", readBlockers) @@ 503 :> Reads("unavailable", readUnavailableReason))
pauseListing(w) == call(w, 409 :> Reads("refused", readRefusalReason))

fetchPublicListing(w)    == publicCall(w)
fetchPublicCategories(w) == publicCall(w)
fetchListingSearch(w)    == publicCall(w)

\* lib/listing-media.ts
refusalIn   == {"reason"}
refused     == 422 :> Reads("refused", refusalIn)
unavailable == 503 :> Reads("unavailable", messageIn)

fetchListingMedia(w)   == call(w, refused @@ unavailable)
uploadListingMedia(w)  == call(w, refused @@ unavailable)
deleteListingMedia(w)  == call(w, refused @@ unavailable)
reorderListingMedia(w) == call(w, refused @@ unavailable)

\* lib/bookings.ts, quotes.ts, requests.ts and availability.ts
requestBooking(w)           == call(w, 422 :> Reads("refused", messageIn))
fetchMyBookings(w)          == call(w, Nothing)
fetchBookingsOnMyListings(w) == call(w, Nothing)
fetchBooking(w)             == call(w, Nothing)
payForBooking(w)            == call(w, 422 :> Reads("refused", messageIn))
requestQuote(w)             == call(w, 422 :> Reads("refused", messageIn))
fetchRequests(w)            == call(w, Nothing)

decide(w) == call(w, 422 :> Reads("refused", messageIn) @@ 409 :> Reads("taken", messageIn))

acceptRequest(w)     == decide(w)
declineRequest(w)    == decide(w)
fetchAvailability(w) == call(w, Nothing)
blockPeriod(w)       == call(w, 422 :> Reads("refused", messageIn))
unblockPeriod(w)     == call(w, Nothing)
-----------------------------------------------------------------------------
(* The administrators' clients: each has a `call` of its own *)

approvals_call(w) ==
  Client(w, owned, 409 :> Reads("refused", {"message"}) @@ 400 :> Reads("invalid", {"issues", "message"}),
         "loaded")

fetchPendingApprovals(w) == approvals_call(w)
proposeRoleChange(w)     == approvals_call(w)
decideSuspension(w)      == approvals_call(w)
decideApproval(w)        == approvals_call(w)

categories_call(w) ==
  Client(w, owned, 409 :> Reads("taken", {"message"}) @@ 400 :> Reads("invalid", {"issues", "message"}),
         "loaded")

fetchCategories(w)     == categories_call(w)
createCategory(w)      == categories_call(w)
reconfigureCategory(w) == categories_call(w)

flags_call(w) == Client(w, owned, 400 :> Reads("invalid", {"issues", "message"}), "loaded")

fetchFeatureFlags(w) == flags_call(w)
setFeatureFlag(w)    == flags_call(w)

moderateListing(w)    == Client(w, owned, 400 :> Reads("invalid", {"issues"}), "loaded")
fetchAdminUser(w)     == Client(w, owned, 400 :> Catches("invalid", {"issues"}), "loaded")
fetchAdminActivity(w) == Client(w, guarded, 400 :> Catches("invalid", {"issues"}), "loaded")
-----------------------------------------------------------------------------
(* The account holder's clients, and the ones nobody signs in for *)

fetchAccount(w)       == Client(w, guarded, Nothing, "signed-in")
fetchMyProfile(w)     == Client(w, guarded, Nothing, "loaded")
saveMyProfile(w)      == Client(w, guarded, 400 :> Catches("invalid", {"issues"}), "saved")
fetchActivity(w)      == Client(w, guarded, Nothing, "loaded")
fetchSignIns(w)       == Client(w, guarded, Nothing, "loaded")
fetchDataExport(w)    == Client(w, guarded, Nothing, "ready")
fetchPublicProfile(w) == Client(w, 404 :> "not-found", Nothing, "found")

\* A deletion that is not confirmed either way is uncertain, never failed.
requestDeletion(w) ==
  CASE w.status \in DOMAIN guarded -> Outcome(guarded[w.status], "own")
    [] w.status \in Success        -> readJson(w, "deleted", "uncertain", "uncertain")
    [] OTHER                       -> describe("uncertain")

\* A report is a report whatever its status: the body says whether the API is ready.
fetchReadiness(w) ==
  IF w.status = Unanswered THEN describe("unreachable")
  ELSE readJson(w, IF w.of = "done" THEN "ready" ELSE "not_ready", "unreachable", "malformed")

\* The webhook proxy: a 4xx is final, anything else is worth the sender's retry, and a
\* 2xx whose body cannot be read as a result is still accepted.
forwardIdentityEvent(w) ==
  CASE w.status \in 400..499                    -> describe("rejected")
    [] w.status \in Success /\ w.read = "cut"    -> describe("failed")
    [] w.status \in Success /\ w.read = "whole"  -> Outcome("accepted", w.of)
    [] w.status \in Success /\ w.read = "garbled" -> Outcome("accepted", "done")
    [] OTHER                                    -> describe("failed")
=============================================================================
