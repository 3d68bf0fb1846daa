------------------------------ MODULE Screens ------------------------------
(***************************************************************************)
(* The pages that keep something between what is stored and what is shown: *)
(* a search walked a page at a time, the forms drawn from a category's     *)
(* schema, an owner's calendar, and the page a listing is managed from.    *)
(* They share no state: a behaviour is one person at one of them.          *)
(***************************************************************************)
EXTENDS Search, AttributeForms, CalendarPage, OwnerPage

VARIABLE screen

screensVars == <<screen, searchVars, attributeVars, calendarVars, ownerPageVars>>

\* One of the initial states of a page nobody is at.
SearchAtRest == visible = Listings /\ \A l \in Listings : busy[l] = {}
FormsAtRest ==
  versions = <<CHOOSE s \in FirstSchemas : TRUE>> /\ limits = CHOOSE l \in Limits : TRUE
CalendarAtRest == today = 1
OwnerPageAtRest ==
  /\ kept.listing.status = "DRAFT" /\ kept.listing.ready
  /\ left = CHOOSE l \in OwnerPageLimits : TRUE

ScreensInit ==
  /\ SearchInit /\ AttributeInit /\ CalendarInit /\ OwnerPageInit
  /\ screen \in {"search", "forms", "calendar", "listing"}
  /\ screen = "search" \/ SearchAtRest
  /\ screen = "forms" \/ FormsAtRest
  /\ screen = "calendar" \/ CalendarAtRest
  /\ screen = "listing" \/ OwnerPageAtRest

AtSearch ==
  /\ screen = "search" /\ SearchNext
  /\ UNCHANGED <<screen, attributeVars, calendarVars, ownerPageVars>>
AtForms ==
  /\ screen = "forms" /\ AttributeNext
  /\ UNCHANGED <<screen, searchVars, calendarVars, ownerPageVars>>
AtCalendar ==
  /\ screen = "calendar" /\ CalendarNext
  /\ UNCHANGED <<screen, searchVars, attributeVars, ownerPageVars>>
AtListing ==
  /\ screen = "listing" /\ OwnerPageNext
  /\ UNCHANGED <<screen, searchVars, attributeVars, calendarVars>>

ScreensNext == AtSearch \/ AtForms \/ AtCalendar \/ AtListing

ScreensSpec == ScreensInit /\ [][ScreensNext]_screensVars

=============================================================================
