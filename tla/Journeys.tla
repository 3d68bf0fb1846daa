------------------------------ MODULE Journeys ------------------------------
(***************************************************************************)
(* A person's journey through one form or one view of the site: the page   *)
(* decides whether to offer it, the browser submits it, the site's client  *)
(* calls the API, the guards and the handler answer, the answer comes back *)
(* or does not, and the page says something.  The pieces are Endpoints,    *)
(* Clients and Pages; this module composes them with a network that loses, *)
(* delays and damages, a caller whose standing changes meanwhile, and a    *)
(* person who tries again.                                                 *)
(***************************************************************************)
EXTENDS Naturals, Sequences, TLC

CONSTANTS Forms,     \* the forms and views a behaviour may be about
          MaxTries   \* how often the person submits

ASSUME MaxTriesAssumption == MaxTries \in Nat \ {0}

E == INSTANCE Endpoints
C == INSTANCE Clients
P == INSTANCE Pages

VARIABLES form,      \* which form this behaviour is about
          caller,    \* what the guards would find about the person now
          offered,   \* the caller to whom the page offered the form, or NotOffered
          attempts,  \* the submissions so far
          shown      \* what the person is looking at

vars == <<form, caller, offered, attempts, shown>>
-----------------------------------------------------------------------------
(* The routes: for every form its handler, its page and its error boundary *)

handler ==
  [request |-> E!BookingsController_request, quote |-> E!QuotesController_create,
   pay |-> E!BookingsController_pay, accept |-> E!BookingsController_accept,
   decline |-> E!BookingsController_decline, block |-> E!OwnerAvailabilityController_block,
   unblock |-> E!OwnerAvailabilityController_unblock, create |-> E!OwnerListingsController_create,
   edit |-> E!OwnerListingsController_update, publish |-> E!OwnerListingsController_publish,
   pause |-> E!OwnerListingsController_pause, upload |-> E!OwnerListingMediaController_add,
   deleteMedia |-> E!OwnerListingMediaController_remove,
   reorder |-> E!OwnerListingMediaController_reorder,
   deleteAccount |-> E!MeDeletionController_request, saveProfile |-> E!MeProfileController_save,
   propose |-> E!AdminApprovalsController_propose, approve |-> E!AdminApprovalsController_approve,
   cancel |-> E!AdminApprovalsController_cancel, suspend |-> E!AdminSuspensionController_decide,
   createCategory |-> E!AdminCategoriesController_create,
   reconfigure |-> E!AdminCategoriesController_reconfigure,
   setFlag |-> E!AdminFeatureFlagsController_set, moderate |-> E!AdminListingsController_moderate,
   webhook |-> E!ClerkEventsController_receive]

viewHandler ==
  [account |-> E!MeController_me, activity |-> E!MeActivityController_list,
   signIns |-> E!MeSignInsController_list, export |-> E!MeExportController_export,
   profile |-> E!MeProfileController_find, publicProfile |-> E!PublicProfileController_find,
   myBookings |-> E!BookingsController_mine, ownedBookings |-> E!BookingsController_owned,
   booking |-> E!BookingsController_find, requests |-> E!BookingsController_requests,
   listings |-> E!OwnerListingsController_list, listing |-> E!OwnerListingsController_read,
   editing |-> E!OwnerListingsController_read,
   categories |-> E!OwnerListingsController_categories, media |-> E!OwnerListingMediaController_list,
   calendar |-> E!OwnerAvailabilityController_month, hire |-> E!PublicListingsController_find,
   browse |-> E!PublicListingSearchController_search, filters |-> E!PublicCategoriesController_list,
   status |-> E!HealthController_ready, approvals |-> E!AdminApprovalsController_list,
   adminCategories |-> E!AdminCategoriesController_list, flags |-> E!AdminFeatureFlagsController_list,
   lookUpAccount |-> E!AdminUserController_find, lookUpActivity |-> E!AdminActivityController_list]

AllForms == DOMAIN handler \cup DOMAIN viewHandler

handlerOf(f) == IF f \in DOMAIN handler THEN handler[f] ELSE viewHandler[f]

outcomeOf(f, w) ==
  CASE f = "request"        -> C!requestBooking(w)
    [] f = "quote"          -> C!requestQuote(w)
    [] f = "pay"            -> C!payForBooking(w)
    [] f = "accept"         -> C!acceptRequest(w)
    [] f = "decline"        -> C!declineRequest(w)
    [] f = "block"          -> C!blockPeriod(w)
    [] f = "unblock"        -> C!unblockPeriod(w)
    [] f = "create"         -> C!createListing(w)
    [] f = "edit"           -> C!updateListing(w)
    [] f = "publish"        -> C!publishListing(w)
    [] f = "pause"          -> C!pauseListing(w)
    [] f = "upload"         -> C!uploadListingMedia(w)
    [] f = "deleteMedia"    -> C!deleteListingMedia(w)
    [] f = "reorder"        -> C!reorderListingMedia(w)
    [] f = "deleteAccount"  -> C!requestDeletion(w)
    [] f = "saveProfile"    -> C!saveMyProfile(w)
    [] f = "propose"        -> C!proposeRoleChange(w)
    [] f \in {"approve", "cancel"} -> C!decideApproval(w)
    [] f = "suspend"        -> C!decideSuspension(w)
    [] f = "createCategory" -> C!createCategory(w)
    [] f = "reconfigure"    -> C!reconfigureCategory(w)
    [] f = "setFlag"        -> C!setFeatureFlag(w)
    [] f = "moderate"       -> C!moderateListing(w)
    [] f = "webhook"        -> C!forwardIdentityEvent(w)
    [] f = "account"        -> C!fetchAccount(w)
    [] f = "activity"       -> C!fetchActivity(w)
    [] f = "signIns"        -> C!fetchSignIns(w)
    [] f = "export"         -> C!fetchDataExport(w)
    [] f = "profile"        -> C!fetchMyProfile(w)
    [] f = "publicProfile"  -> C!fetchPublicProfile(w)
    [] f = "myBookings"     -> C!fetchMyBookings(w)
    [] f = "ownedBookings"  -> C!fetchBookingsOnMyListings(w)
    [] f = "booking"        -> C!fetchBooking(w)
    [] f = "requests"       -> C!fetchRequests(w)
    [] f = "listings"       -> C!fetchOwnedListings(w)
    [] f \in {"listing", "editing"} -> C!fetchListing(w)
    [] f = "categories"     -> C!fetchCategoryOptions(w)
    [] f = "media"          -> C!fetchListingMedia(w)
    [] f = "calendar"       -> C!fetchAvailability(w)
    [] f = "hire"           -> C!fetchPublicListing(w)
    [] f = "browse"         -> C!fetchListingSearch(w)
    [] f = "filters"        -> C!fetchPublicCategories(w)
    [] f = "status"         -> C!fetchReadiness(w)
    [] f = "approvals"      -> C!fetchPendingApprovals(w)
    [] f = "adminCategories" -> C!fetchCategories(w)
    [] f = "flags"          -> C!fetchFeatureFlags(w)
    [] f = "lookUpAccount"  -> C!fetchAdminUser(w)
    [] f = "lookUpActivity" -> C!fetchAdminActivity(w)

pages ==
  [request |-> P!submitRequest, quote |-> P!submitQuote, accept |-> P!answerRequestAction,
   decline |-> P!answerRequestAction, block |-> P!blockPeriodAction, unblock |-> P!unblockPeriodAction,
   create |-> P!createListingAction, edit |-> P!editListingAction, publish |-> P!publishListingAction,
   pause |-> P!pauseListingAction, upload |-> P!mediaPOST, deleteMedia |-> P!deleteMediaAction,
   reorder |-> P!reorderMediaAction, deleteAccount |-> P!deleteAccountAction,
   saveProfile |-> P!saveProfileAction, propose |-> P!proposeRoleChangeAction,
   approve |-> P!decideApprovalAction, cancel |-> P!decideApprovalAction,
   suspend |-> P!decideSuspensionAction, createCategory |-> P!createCategoryAction,
   reconfigure |-> P!reconfigureCategoryAction, setFlag |-> P!setFeatureFlagAction,
   moderate |-> P!moderateListingAction, webhook |-> P!webhookPOST,
   account |-> P!AccountReport, activity |-> P!ActivityList, signIns |-> P!SignInList,
   export |-> P!downloadGET, profile |-> P!ProfilePage, publicProfile |-> P!PublicProfileCard,
   myBookings |-> P!RenterBookings, ownedBookings |-> P!OwnerBookingList, booking |-> P!BookingPage,
   requests |-> P!Slot, listings |-> P!ListingList, listing |-> P!ListingPage,
   editing |-> P!EditListingPage,
   categories |-> P!NewListingPage, media |-> P!Slot, calendar |-> P!CalendarPage,
   hire |-> P!PublicListingPage, browse |-> P!BrowsePage, filters |-> P!Slot,
   status |-> P!StatusReport, approvals |-> P!toQueueOutcome, adminCategories |-> P!CategoryList,
   flags |-> P!FlagList, lookUpAccount |-> P!lookUpAccountAction,
   lookUpActivity |-> P!lookUpActivityAction]

AdminForms == {f \in AllForms : handlerOf(f).who = "administrator"}

\* The nearest error.tsx above the page.
boundary(f) ==
  CASE f \in AdminForms                                                         -> P!AdminError
    [] f \in {"deleteAccount", "saveProfile", "account", "activity", "signIns",
              "export", "profile"}                                              -> P!AccountError
    [] f \in {"pay", "myBookings", "ownedBookings", "booking"}                  -> P!BookingsError
    [] f \in {"create", "edit", "publish", "pause", "accept", "decline", "block", "unblock",
              "deleteMedia", "reorder", "listings", "listing", "editing", "categories", "media",
              "calendar", "requests"}                                           -> P!ListingsError
    [] OTHER                                                                    -> P!Error

panelOf(f, w) ==
  LET o == outcomeOf(f, w)
  IN  IF o.kind = "thrown" THEN boundary(f)
      ELSE IF f = "pay" THEN P!payAction(o)
      ELSE P!Panel(pages[f], o)
-----------------------------------------------------------------------------
(* The wire *)

\* An answer as it leaves the API, and the ones the API has no part in.
Wire(reply, of) == [status |-> reply.status, body |-> reply.body, of |-> of, read |-> "whole"]
NoAnswer        == Wire(E!Reply(C!Unanswered, {}), "none")
NotSent         == Wire(E!Reply(C!Unsent, {}), "none")
BadGateway      == Wire(E!Reply(502, {}), "none")

\* A guard's refusal is an HttpException: a message.
Refusal(status) == Wire(E!Says(status), "refusedByGuard")

\* What carrying a form out leaves behind; a view leaves nothing.
takesEffect(f, of) ==
  /\ f \in DOMAIN handler
  /\ \/ of = "done"
     \/ f = "pay" /\ of = "processing"

NotOffered == [session |-> "unknown"]

\* The panel, with the attempt and the answer it speaks of.
Show(panel, k, w) == [tells |-> panel.tells, claim |-> panel.claim, of |-> k, w |-> w]

Idle == [tells |-> "nothing yet", claim |-> "none", of |-> 0, w |-> NoAnswer]

waiting == shown.tells = "waiting"
-----------------------------------------------------------------------------
Init ==
  /\ form \in Forms
  /\ caller \in {c \in E!Callers : c.session # "deleted" /\ (c.factor => c.admin)}
  /\ offered = NotOffered
  /\ attempts = <<>>
  /\ shown = Idle

\* A page's reads, as the guards and the network let them through.
Damage    == {"whole", "cut", "garbled"}
Answer(h) == IF E!admit(h, caller) # 0 THEN Refusal(E!admit(h, caller)) ELSE Wire(h.answers.done, "done")

Reads(h) == {NoAnswer, BadGateway} \cup {[Answer(h) EXCEPT !.read = d] : d \in Damage}

\* The request whose success draws an administrator's form.
probe(f) ==
  CASE f \in {"propose", "approve", "cancel"}     -> "approvals"
    [] f \in {"createCategory", "reconfigure"}    -> "adminCategories"
    [] OTHER                                      -> "flags"

Gated == (AdminForms \ {"approvals", "adminCategories", "flags"}) \cup {"saveProfile", "request", "quote"}

noToken == caller.session = "none"
sent(w) == IF noToken THEN NotSent ELSE w

\* Whether the page draws the form, given what its reads came back with.
offers(f) ==
  CASE f \in AdminForms ->
         \E w \in Reads(viewHandler[probe(f)]) : P!accessFrom(outcomeOf(probe(f), sent(w))) = "permitted"
    [] f = "saveProfile" ->
         \E w1 \in Reads(viewHandler["profile"]), w2 \in Reads(viewHandler["account"]) :
           P!editable(outcomeOf("profile", sent(w1)), outcomeOf("account", sent(w2)), caller.suspended)
    [] f \in {"request", "quote"} -> ~noToken

Open ==
  /\ offered = NotOffered
  /\ form \in Gated => offers(form)
  /\ offered' = caller
  /\ UNCHANGED <<form, caller, attempts, shown>>

\* What the action refuses before calling the API, and what the client refuses for want
\* of a token, is shown at once.
Submit ==
  /\ offered # NotOffered
  /\ ~waiting
  /\ Len(attempts) < MaxTries
  /\ \/ /\ form \in DOMAIN handler
        /\ shown' = Show(P!Unaccepted, 0, NotSent)
        /\ UNCHANGED attempts
     \/ /\ noToken
        /\ form # "webhook" /\ handlerOf(form).who # "anyone"
        /\ shown' = Show(panelOf(form, NotSent), 0, NotSent)
        /\ UNCHANGED attempts
     \/ /\ ~noToken \/ handlerOf(form).who = "anyone"
        /\ attempts' = Append(attempts, [stage |-> "sent", w |-> NoAnswer, applied |-> FALSE, as |-> caller])
        /\ shown' = [Idle EXCEPT !.tells = "waiting", !.of = Len(attempts) + 1]
  /\ UNCHANGED <<form, caller, offered>>

Lose(k) ==
  /\ attempts[k].stage = "sent"
  /\ attempts' = [attempts EXCEPT ![k].stage = "lost"]
  /\ UNCHANGED <<form, caller, offered, shown>>

served(k, w, applied) ==
  attempts' = [attempts EXCEPT ![k] = [stage |-> "served", w |-> w, applied |-> applied, as |-> caller]]

\* An account that has just been deleted authenticates nobody.
after(applied) ==
  caller' = IF form = "deleteAccount" /\ applied THEN [caller EXCEPT !.session = "deleted"] ELSE caller

\* What the site's own checks keep from ever being asked: an upload without bytes, a
\* month or a search that is not one.
screened(f) == CASE f = "upload"                -> {"notBytes"}
                 [] f \in {"calendar", "browse"} -> {"malformed"}
                 [] OTHER                       -> {}

answerable(f) == DOMAIN handlerOf(f).answers \ screened(f)

\* The API takes the request up, whether or not anybody still waits for the answer.
Serve(k) ==
  LET h == handlerOf(form)
  IN /\ attempts[k].stage = "sent"
     /\ \/ /\ E!admit(h, caller) # 0
           /\ served(k, Refusal(E!admit(h, caller)), FALSE)
           /\ UNCHANGED caller
        \/ /\ E!admit(h, caller) = 0
           /\ \E of \in answerable(form) :
                /\ served(k, Wire(h.answers[of], of), takesEffect(form, of))
                /\ after(takesEffect(form, of))
        \/ /\ E!admit(h, caller) = 0
           /\ \E applied \in BOOLEAN :
                /\ applied => form \in DOMAIN handler
                /\ served(k, Wire(E!Fault, "fault"), applied)
                /\ after(applied)
     /\ UNCHANGED <<form, offered, shown>>

Receive ==
  /\ waiting
  /\ attempts[shown.of].stage = "served"
  /\ \E d \in Damage :
       LET w == [attempts[shown.of].w EXCEPT !.read = d]
       IN  shown' = Show(panelOf(form, w), shown.of, w)
  /\ UNCHANGED <<form, caller, offered, attempts>>

\* The client's timeout, a broken connection, or a proxy's answer in the API's place.
GiveUp ==
  /\ waiting
  /\ \E w \in {NoAnswer, BadGateway} : shown' = Show(panelOf(form, w), shown.of, w)
  /\ UNCHANGED <<form, caller, offered, attempts>>

\* The upload crosses one more network, between the browser and the site.
BrowserGivesUp ==
  /\ waiting /\ form = "upload"
  /\ shown' = Show(P!UploadControl, shown.of, NoAnswer)
  /\ UNCHANGED <<form, caller, offered, attempts>>

\* An administrator suspends the person, their session ends, their second factor ages.
StandingChanges ==
  /\ caller.session = "live"
  /\ \/ ~caller.suspended /\ caller' = [caller EXCEPT !.suspended = TRUE]
     \/ caller' = [caller EXCEPT !.session = "none"]
     \/ caller.factor /\ caller' = [caller EXCEPT !.factor = FALSE]
  /\ UNCHANGED <<form, offered, attempts, shown>>

Next ==
  \/ Open \/ Submit \/ Receive \/ GiveUp \/ BrowserGivesUp \/ StandingChanges
  \/ \E k \in DOMAIN attempts : Lose(k) \/ Serve(k)

Spec == Init /\ [][Next]_vars
-----------------------------------------------------------------------------
(* Properties *)

\* The API's own answer to the attempt on screen has arrived: as a success in full, or
\* as a refusal however damaged.  A 5xx is a fault, and says nothing of what was done.
answered == /\ shown.of # 0 /\ ~waiting
            /\ shown.w.status \notin {C!Unanswered, 500, 502}
            /\ shown.w.status \in C!Success => shown.w.read = "whole"

\* SuccessIsTrue: a page says that a thing was done only when the attempt it speaks of
\* did it.  Two answers count as well: the photograph somebody had already removed
\* (listings/[id]/media-actions.ts, notFoundIsSuccess), and an identity delivery that
\* was applied before or is of no interest (clerk-events.controller.ts).
SuccessIsTrue ==
  shown.claim = "done" =>
    \/ attempts[shown.of].applied
    \/ form = "deleteMedia" /\ attempts[shown.of].w.of = "absent"
    \/ form = "webhook" /\ attempts[shown.of].w.of \in {"duplicate", "ignored"}

\* RefusalIsTrue: when the API's answer arrived, a page - or the error boundary the
\* answer's damaged body threw it to - that says nothing changed is right about the
\* attempt it speaks of.
RefusalIsTrue == answered /\ shown.claim = "unchanged" => ~attempts[shown.of].applied

\* The refusals a page knowingly tells as "could not be done just now": a suspended
\* renter paying (bookings/[bookingId]/actions.ts), an account identifier that is not
\* one (lib/admin-activity.ts has no 404), a filter withdrawn while the page was open
\* (browse/page.tsx), and an export of an account that is gone (lib/data-export.ts).
Collapsed == {<<"pay", 403>>, <<"lookUpActivity", 404>>, <<"browse", 400>>, <<"export", 404>>}

\* ReasonSurvives: what the API refused, and why, reaches the person.  A whole refusal
\* is told as the refusal it was - signed out, not permitted, not there, or in the
\* API's own words - and never as trouble reaching the service; and nobody is told they
\* are signed out or barred for any other reason.
ReasonSurvives ==
  shown.w.read = "whole" /\ ~waiting /\ shown.tells # "nothing" =>
    LET code == shown.w.status
    IN /\ <<form, code>> \notin Collapsed =>
            /\ code = 401 => shown.tells = "signed-out" \/ form = "webhook"
            /\ code = 403 => shown.tells = "forbidden"
            /\ code = 404 => shown.tells = "absent" \/ shown.claim = "done"
            /\ code \in {400, 409, 422, 503} => shown.tells \in {"given", "own", "value"}
       /\ shown.tells = "signed-out" => code \in {401, C!Unsent}
       /\ shown.tells = "forbidden" => code = 403

\* NothingCharged: what the payment panel says when it could not get an answer - "Nothing
\* has been charged" - is so.
NothingCharged ==
  form = "pay" /\ shown.of # 0 /\ shown.claim = "unchanged" => ~attempts[shown.of].applied

\* DeletionRefusedIsRefused: told that "nothing was deleted - your account and everything
\* in it are exactly as they were", the person still has an account.
DeletionRefusedIsRefused ==
  form = "deleteAccount" /\ answered /\ shown.claim = "unchanged" => \A k \in DOMAIN attempts : ~attempts[k].applied
=============================================================================
