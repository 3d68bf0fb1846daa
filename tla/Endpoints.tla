----------------------------- MODULE Endpoints -----------------------------
(***************************************************************************)
(* The API's controllers (apps/api/src, every *.controller.ts): who may    *)
(* call a handler, and the answer each result of the service behind it     *)
(* becomes on the wire.                                                    *)
(*                                                                         *)
(* A handler is a record: `who` is the audience its guards admit, `tier`   *)
(* the rate limit it counts against, and `answers` a function from what    *)
(* the service did to [status, body], where `body` is the set of fields a  *)
(* client can read.  "done" is the operation carried out (or the thing     *)
(* read); every other result leaves the stored state as it was.            *)
(***************************************************************************)
EXTENDS Naturals, TLC

Reply(status, body) == [status |-> status, body |-> body]

Ok(status)   == Reply(status, {"value"})
NoContent    == Reply(204, {})
Says(status) == Reply(status, {"message"})
NotFound     == Says(404)

\* What a thrown error the handler does not translate becomes.
Fault == Says(500)

\* A schema's refusal, shared by every handler's `parse`.
parse == [malformed |-> Reply(400, {"message", "issues"})]

Handler(who, tier, answers) == [who |-> who, tier |-> tier, answers |-> answers]
-----------------------------------------------------------------------------
(* Admission: AuthGuard, then RateLimitGuard *)

\* What the guards know of a caller.
Callers == [session : {"none", "live", "deleted"}, suspended : BOOLEAN, admin : BOOLEAN,
            factor : BOOLEAN, overLimit : BOOLEAN]

\* 0 when the request goes on to the handler.
AuthGuard(h, c) ==
  IF h.who = "anyone" THEN 0
  ELSE IF c.session # "live" THEN 401
  ELSE IF \/ c.suspended /\ h.who # "suspendedToo"
          \/ h.who = "administrator" /\ ~(c.admin /\ c.factor)
       THEN 403
  ELSE 0

\* A route without a tier, or without an account to count, is not limited.
RateLimitGuard(h, c) == IF h.tier # "none" /\ h.who # "anyone" /\ c.overLimit THEN 429 ELSE 0

admit(h, c) == IF AuthGuard(h, c) # 0 THEN AuthGuard(h, c) ELSE RateLimitGuard(h, c)
-----------------------------------------------------------------------------
(* Bookings, quotes and availability *)

decide == [done |-> Ok(201), absent |-> NotFound, refused |-> Says(422), overlapping |-> Says(409)]

BookingsController_request ==
  Handler("account", "write",
          parse @@ [done |-> Ok(201), absent |-> NotFound, refused |-> Says(422),
                    overlapping |-> Says(409)])
BookingsController_mine     == Handler("suspendedToo", "read", [done |-> Ok(200)])
BookingsController_owned    == Handler("suspendedToo", "read", [done |-> Ok(200)])
BookingsController_find     == Handler("suspendedToo", "read", [done |-> Ok(200), absent |-> NotFound])
BookingsController_requests == Handler("suspendedToo", "read", [done |-> Ok(200)])
BookingsController_accept   == Handler("account", "write", decide)
BookingsController_decline  == Handler("account", "write", decide)
BookingsController_pay ==
  Handler("account", "write",
          [done |-> Ok(201), processing |-> Ok(201), actionNeeded |-> Ok(201), failed |-> Ok(201),
           absent |-> NotFound, refused |-> Says(422)])

QuotesController_create ==
  Handler("account", "write", parse @@ [done |-> Ok(201), absent |-> NotFound, refused |-> Says(422)])

OwnerAvailabilityController_month ==
  Handler("suspendedToo", "read", parse @@ [done |-> Ok(200), absent |-> NotFound])
OwnerAvailabilityController_block ==
  Handler("suspendedToo", "write",
          parse @@ [done |-> Ok(201), absent |-> NotFound, refused |-> Says(422)])
OwnerAvailabilityController_unblock ==
  Handler("account", "write", [done |-> NoContent, absent |-> NotFound])
-----------------------------------------------------------------------------
(* The catalogue, as its owners see it *)

Issues == Reply(400, {"message", "issues"})

OwnerListingsController_categories == Handler("suspendedToo", "none", [done |-> Ok(200)])
OwnerListingsController_create ==
  Handler("account", "none",
          parse @@ [done |-> Ok(201), unknownCategory |-> NotFound, categoryChanged |-> Says(409),
                    transportNotOffered |-> Issues, attributesInvalid |-> Issues])
OwnerListingsController_list == Handler("suspendedToo", "none", [done |-> Ok(200)])
OwnerListingsController_read ==
  Handler("suspendedToo", "none", [done |-> Ok(200), absent |-> NotFound])
OwnerListingsController_update ==
  Handler("account", "none",
          parse @@ [done |-> Ok(200), absent |-> NotFound, categoryChanged |-> Says(409),
                    publishedIncomplete |-> Reply(422, {"message", "blockers"}),
                    transportNotOffered |-> Issues, attributesInvalid |-> Issues])

\* The owner's transition was refused: the listing is not where the page believed.
throwRefusalAsConflict == [transitionRefused |-> Says(409)]

OwnerListingsController_publish ==
  Handler("account", "none",
          throwRefusalAsConflict @@
            [done |-> Ok(201), absent |-> NotFound, suspended |-> Says(503),
             notPublishable |-> Reply(422, {"message", "blockers"})])
OwnerListingsController_pause ==
  Handler("suspendedToo", "none",
          throwRefusalAsConflict @@ [done |-> Ok(200), absent |-> NotFound])

\* A refusal of the media service: storage that cannot take the photograph is the
\* platform's trouble, anything else is the photograph's.
translateMedia ==
  [storageUnavailable |-> Reply(503, {"message", "reason"}),
   mediaRefused       |-> Reply(422, {"message", "reason"})]

OwnerListingMediaController_list ==
  Handler("suspendedToo", "read", [done |-> Ok(200), absent |-> NotFound])
OwnerListingMediaController_add ==
  Handler("account", "write",
          translateMedia @@ [done |-> Ok(201), absent |-> NotFound, notBytes |-> Says(400)])
OwnerListingMediaController_remove ==
  Handler("account", "write", [done |-> NoContent, absent |-> NotFound])
OwnerListingMediaController_reorder ==
  Handler("account", "write",
          parse @@ translateMedia @@ [done |-> Ok(200), absent |-> NotFound])
-----------------------------------------------------------------------------
(* The catalogue, as anybody sees it *)

\* A listing shown to the public has a price; one without is a fault, not an answer.
toPublicListing == [done |-> Ok(200), unpriced |-> Fault]
toSummary       == [done |-> Ok(200), unpriced |-> Fault]

PublicCategoriesController_list == Handler("anyone", "none", [done |-> Ok(200)])
PublicListingsController_find ==
  Handler("anyone", "none", toPublicListing @@ [absent |-> NotFound])
PublicListingSearchController_search ==
  Handler("anyone", "none", toSummary @@ [malformed |-> Says(400), unknownCategory |-> Says(400)])
-----------------------------------------------------------------------------
(* Administration *)

refuseUnprofitable == [unprofitable |-> Says(400)]

AdminCategoriesController_list == Handler("administrator", "none", [done |-> Ok(200)])
AdminCategoriesController_create ==
  Handler("administrator", "none",
          parse @@ refuseUnprofitable @@ [done |-> Ok(201), slugTaken |-> Says(409)])
AdminCategoriesController_reconfigure ==
  Handler("administrator", "none",
          parse @@ refuseUnprofitable @@ [done |-> Ok(200), absent |-> NotFound])
AdminListingsController_moderate ==
  Handler("administrator", "none",
          parse @@ [done |-> Ok(200), absent |-> NotFound, reasonRequired |-> Issues])
AdminFeatureFlagsController_list == Handler("administrator", "none", [done |-> Ok(200)])
AdminFeatureFlagsController_set ==
  Handler("administrator", "none", parse @@ [done |-> Ok(200), unknownFlag |-> NotFound])

\* Both refusals say what the state of the proposal does not permit.
translate == [refused |-> Says(409), conflict |-> Says(409)]

AdminApprovalsController_list == Handler("administrator", "none", [done |-> Ok(200)])
AdminApprovalsController_propose ==
  Handler("administrator", "none", parse @@ translate @@ [done |-> Ok(201)])
AdminApprovalsController_approve ==
  Handler("administrator", "none",
          parse @@ translate @@ [done |-> Ok(200), badIdentifier |-> NotFound])
AdminApprovalsController_cancel ==
  Handler("administrator", "none",
          parse @@ translate @@ [done |-> Ok(200), badIdentifier |-> NotFound])
AdminSuspensionController_decide ==
  Handler("administrator", "none",
          parse @@ [done |-> Ok(200), badIdentifier |-> NotFound, refused |-> Says(409)])
AdminUserController_find ==
  Handler("administrator", "none",
          parse @@ [done |-> Ok(200), badIdentifier |-> NotFound, absent |-> NotFound])
AdminActivityController_list ==
  Handler("administrator", "none", parse @@ [done |-> Ok(200), badIdentifier |-> NotFound])
-----------------------------------------------------------------------------
(* One's own account, and what the platform says of itself *)

MeController_me             == Handler("suspendedToo", "none", [done |-> Ok(200)])
MeSignInsController_list    == Handler("suspendedToo", "none", [done |-> Ok(200)])
MeActivityController_list   == Handler("suspendedToo", "read", [done |-> Ok(200)])
MeExportController_export   == Handler("suspendedToo", "none", [done |-> Ok(200), absent |-> NotFound])
MeDeletionController_request == Handler("suspendedToo", "none", [done |-> Ok(200)])
MeProfileController_find    == Handler("suspendedToo", "none", [done |-> Ok(200)])
MeProfileController_save    == Handler("account", "none", parse @@ [done |-> Ok(200)])
PublicProfileController_find == Handler("anyone", "none", [done |-> Ok(200), absent |-> NotFound])

\* An unready process says so with its report attached.
HealthController_ready ==
  Handler("anyone", "none", [done |-> Ok(200), notReady |-> Reply(503, {"value"})])

\* A delivery that was applied before, or is of no interest, is acknowledged too.
ClerkEventsController_receive ==
  Handler("anyone", "none",
          [done |-> Ok(201), duplicate |-> Ok(201), ignored |-> Ok(201),
           malformed |-> Says(400), unmapped |-> Says(400)])
=============================================================================
