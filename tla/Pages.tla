------------------------------- MODULE Pages -------------------------------
(***************************************************************************)
(* The site's server actions, route handlers and pages (apps/web/src/app)  *)
(* and the components that show their outcome (apps/web/src/components).   *)
(*                                                                         *)
(* Each is a table from a client's outcome to what the person is left      *)
(* reading: [tells, claim].  `tells` is which case the words describe: the *)
(* "value" asked for, "signed-out", "forbidden", "absent", the "reason"    *)
(* the outcome carries, the page's "own" account of one kind of refusal,   *)
(* or only that it could not be loaded or sent ("transport").  `claim` is  *)
(* what the words assert about the stored state: the thing was "done",     *)
(* everything is "unchanged", it is "unclear", or nothing is said.         *)
(***************************************************************************)
EXTENDS Naturals, TLC

Shows(tells, claim) == [tells |-> tells, claim |-> claim]

\* The rows most tables share.
Done             == "loaded" :> Shows("value", "done")
Loads            == "loaded" :> Shows("value", "none")
SignedOut(claim) == "signed-out" :> Shows("signed-out", claim)
Forbidden(claim) == "forbidden" :> Shows("forbidden", claim)
Absent(claim)    == "not-found" :> Shows("absent", claim)
Invalid          == "invalid" :> Shows("reason", "none")
Refused          == "refused" :> Shows("reason", "none")
Transport(claim) == "unreachable" :> Shows("transport", claim) @@ "malformed" :> Shows("transport", claim)

\* A 409 that the client reads as a stale category, shown with the API's words.
Stale(claim) == "stale-category" :> Shows("reason", claim)

\* The outcomes a page shows with one sentence between them.
OneSentence(kinds, claim) == [k \in kinds |-> Shows("transport", claim)]

\* The page for an outcome: a reason is told in the words that came with it.
Panel(table, o) ==
  LET row == table[o.kind]
  IN  [row EXCEPT !.tells = IF @ = "reason" THEN o.says ELSE @]

\* Where a rejected promise ends: the nearest error boundary.
Crash(claim)   == Shows("crash", claim)
Error          == Crash("none")
AccountError   == Crash("unchanged")
BookingsError  == Crash("unchanged")
ListingsError  == Crash("unchanged")
AdminError     == Crash("unchanged")

\* A form refused before anything was sent.
Unaccepted == Shows("own", "unchanged")
-----------------------------------------------------------------------------
(* One's own account *)

\* A refusal of the deletion; uncertainty is told as uncertainty.
refusal == SignedOut("unchanged") @@ Forbidden("unchanged") @@ "uncertain" :> Shows("transport", "unclear")

deleteAccountAction_fallsThrough ==
  SignedOut("unchanged") @@ Forbidden("unchanged")
    @@ [k \in {"deleted", "uncertain"} |-> Shows("value", "done")]

deleteAccountAction == refusal @@ "deleted" :> Shows("value", "done")

saveProfileAction ==
  "saved" :> Shows("value", "done") @@ Invalid @@ SignedOut("unchanged") @@ Forbidden("unchanged")
    @@ Transport("unchanged")

AccountReport ==
  "signed-in" :> Shows("value", "none") @@ SignedOut("none") @@ Forbidden("none") @@ Transport("none")
ActivityList == Loads @@ SignedOut("none") @@ Forbidden("none") @@ Transport("none")
SignInList   == Loads @@ SignedOut("none") @@ Forbidden("none") @@ Transport("none")
ProfilePage  == Loads @@ SignedOut("none") @@ Forbidden("none") @@ Transport("none")

\* The export is a download: a refusal is a response with a sentence and no file.
downloadGET ==
  "ready" :> Shows("value", "none") @@ SignedOut("none") @@ Forbidden("none") @@ Transport("none")

PublicProfileCard == "found" :> Shows("value", "none") @@ Absent("none") @@ Transport("none")
-----------------------------------------------------------------------------
(* Hiring *)

submitQuote ==
  Done @@ Refused @@ Invalid @@ Absent("none") @@ Forbidden("none") @@ SignedOut("unchanged")
    @@ Stale("unclear") @@ Transport("unclear")

submitRequest ==
  Done @@ Refused @@ Invalid @@ Absent("none") @@ Forbidden("none") @@ SignedOut("unchanged")
    @@ Stale("unclear") @@ Transport("unclear")

\* The four ways the provider leaves a payment; and whatever else went wrong, the
\* sentence is that nothing has been charged.
payment ==
  [done |-> Shows("value", "done"), processing |-> Shows("value", "unclear"),
   actionNeeded |-> Shows("value", "none"), failed |-> Shows("value", "unchanged")]

payRefused ==
  Refused @@ Absent("none") @@ SignedOut("unchanged")
    @@ OneSentence({"forbidden", "invalid", "stale-category", "unreachable", "malformed"}, "unchanged")

payAction(o) == IF o.kind = "loaded" THEN payment[o.says] ELSE Panel(payRefused, o)

answerRequestAction ==
  Done @@ Refused @@ "taken" :> Shows("reason", "unchanged") @@ Absent("none")
    @@ Forbidden("unchanged") @@ SignedOut("unchanged") @@ Invalid @@ Stale("unclear") @@ Transport("unclear")

RenterBookings   == Loads @@ SignedOut("none") @@ OneSentence({"forbidden", "not-found", "invalid",
                      "stale-category", "unreachable", "malformed"}, "unchanged")
OwnerBookingList == Loads @@ SignedOut("none") @@ OneSentence({"forbidden", "not-found", "invalid",
                      "stale-category", "unreachable", "malformed"}, "unchanged")
BookingPage      == Loads @@ Absent("none") @@ SignedOut("none") @@ OneSentence({"forbidden", "invalid",
                      "stale-category", "unreachable", "malformed"}, "unchanged")
-----------------------------------------------------------------------------
(* Listing *)

createListingAction ==
  Done @@ Invalid @@ Absent("none") @@ Forbidden("none") @@ SignedOut("unchanged")
    @@ "stale-category" :> Shows("own", "none") @@ Transport("unchanged")

editListingAction ==
  Done @@ "incomplete" :> Shows("reason", "none") @@ Invalid @@ Absent("none") @@ Forbidden("none")
    @@ SignedOut("unchanged") @@ "stale-category" :> Shows("own", "none") @@ Transport("unchanged")

publishListingAction ==
  Done @@ "not-ready" :> Shows("reason", "none") @@ "unavailable" :> Shows("reason", "none")
    @@ Absent("none") @@ Forbidden("none") @@ SignedOut("unchanged") @@ Invalid @@ Stale("unclear")
    @@ Transport("unclear")

pauseListingAction ==
  Done @@ Refused @@ Absent("none") @@ Forbidden("none") @@ SignedOut("unchanged") @@ Invalid
    @@ Stale("unclear") @@ Transport("unclear")

blockPeriodAction ==
  Done @@ Refused @@ Absent("none") @@ Forbidden("none") @@ SignedOut("unchanged") @@ Invalid
    @@ Stale("unclear") @@ Transport("unclear")

unblockPeriodAction ==
  Done @@ Absent("none") @@ Forbidden("unchanged") @@ SignedOut("unchanged") @@ Invalid
    @@ Stale("unclear") @@ Transport("unclear")

\* Shared by the two photograph actions: a photograph already gone is a removal done.
settle(notFoundIsSuccess) ==
  Done @@ (IF notFoundIsSuccess THEN "not-found" :> Shows("value", "done") ELSE Absent("none"))
    @@ Refused @@ "unavailable" :> Shows("reason", "none")
    @@ Invalid @@ Forbidden("none") @@ SignedOut("unchanged") @@ Stale("unchanged") @@ Transport("unchanged")

deleteMediaAction  == settle(TRUE)
reorderMediaAction == settle(FALSE)

\* The upload's route answers the browser, which looks the refusal up in its own table.
mediaPOST ==
  Done @@ Refused @@ "unavailable" :> Shows("reason", "none") @@ Absent("none") @@ Forbidden("none")
    @@ SignedOut("unchanged") @@ Invalid @@ Stale("unchanged") @@ Transport("unchanged")

\* The browser's half of the upload: its own request to the route did not finish.
UploadControl == Shows("transport", "unchanged")

ListingList == Loads @@ SignedOut("none") @@ OneSentence({"forbidden", "not-found", "invalid",
                 "stale-category", "unreachable", "malformed"}, "unchanged")
ListingPage == Loads @@ Absent("none") @@ SignedOut("none") @@ OneSentence({"forbidden", "invalid",
                 "stale-category", "unreachable", "malformed"}, "none")
\* A part of a page drawn only when its own read succeeded, and left out otherwise.
Slot == Loads @@ [k \in {"signed-out", "forbidden", "not-found", "invalid", "stale-category", "refused",
                         "unavailable", "unreachable", "malformed"} |-> Shows("nothing", "none")]

EditListingPage == Loads @@ Absent("none") @@ SignedOut("none") @@ OneSentence({"forbidden", "invalid",
                     "stale-category", "unreachable", "malformed"}, "unchanged")
CalendarPage == Loads @@ Absent("none") @@ SignedOut("none") @@ Forbidden("none")
                  @@ OneSentence({"invalid", "stale-category", "unreachable", "malformed"}, "none")
NewListingPage == Loads @@ SignedOut("none") @@ Forbidden("none")
                    @@ OneSentence({"not-found", "invalid"}, "none")
                    @@ "stale-category" :> Shows("own", "none") @@ Transport("unchanged")

PublicListingPage == Loads @@ Absent("none") @@ Transport("none")
BrowsePage        == Loads @@ OneSentence({"not-found", "unreachable", "malformed"}, "none")
StatusReport      == "ready" :> Shows("value", "none") @@ "not_ready" :> Shows("value", "none")
                       @@ Transport("none")
-----------------------------------------------------------------------------
(* Administration *)

\* What the approvals, accounts and categories pages say of everything but success.
describeApproval ==
  SignedOut("none") @@ Forbidden("none") @@ Absent("none") @@ Refused @@ Invalid @@ Transport("unclear")
describeCategory ==
  SignedOut("none") @@ Forbidden("none") @@ Absent("none") @@ "taken" :> Shows("reason", "none")
    @@ Invalid @@ Transport("unclear")
describeFlag ==
  SignedOut("none") @@ Forbidden("none") @@ Absent("none") @@ Invalid @@ Transport("unchanged")

proposeRoleChangeAction   == Done @@ describeApproval
decideApprovalAction      == Done @@ describeApproval
decideSuspensionAction    == Done @@ describeApproval
createCategoryAction      == Done @@ describeCategory
reconfigureCategoryAction == Done @@ describeCategory
setFeatureFlagAction      == Done @@ describeFlag

moderateListingAction ==
  Done @@ SignedOut("none") @@ Forbidden("none") @@ Absent("unchanged") @@ Invalid @@ Transport("unchanged")

\* Looking somebody up is recorded against them, but the page says nothing of that.
lookUpAccountAction  == Loads @@ SignedOut("none") @@ Forbidden("none") @@ Absent("none") @@ Invalid
                          @@ Transport("none")
lookUpActivityAction == Loads @@ SignedOut("none") @@ Forbidden("none") @@ Invalid @@ Transport("none")

toQueueOutcome == Loads @@ SignedOut("none") @@ Forbidden("none")
                    @@ OneSentence({"not-found", "refused", "invalid", "unreachable", "malformed"}, "none")
CategoryList   == Loads @@ SignedOut("none") @@ Forbidden("none")
                    @@ OneSentence({"not-found", "taken", "invalid", "unreachable", "malformed"}, "none")
FlagList       == Loads @@ SignedOut("none") @@ Forbidden("none")
                    @@ OneSentence({"not-found", "invalid", "unreachable", "malformed"}, "unchanged")
-----------------------------------------------------------------------------
(* The identity provider's deliveries, which the site passes on *)

\* What the route answers decides whether the provider sends the delivery again.
webhookPOST ==
  "accepted" :> Shows("value", "done") @@ "rejected" :> Shows("own", "none")
    @@ "failed" :> Shows("transport", "unclear")
-----------------------------------------------------------------------------
(* Which forms a page offers *)

\* An administrator's form is drawn only once a request only they may make has loaded.
accessFrom(o) == CASE o.kind = "loaded"                       -> "permitted"
                   [] o.kind \in {"signed-out", "forbidden"} -> o.kind
                   [] OTHER                                  -> "unknown"

\* The profile form needs the profile and an account that is not suspended.
editable(profile, account, suspended) ==
  profile.kind = "loaded" /\ account.kind = "signed-in" /\ ~suspended
=============================================================================
