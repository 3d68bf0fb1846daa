----------------------------- MODULE OwnerPage ------------------------------
(***************************************************************************)
(* The page an owner manages a listing from.  It is drawn on the server    *)
(* from separate reads, and stays as it was drawn until something draws it *)
(* again: an action of one of its forms that succeeds, the refresh after   *)
(* an upload, a reload.  Each form keeps the refusal it was last answered  *)
(* with for as long as it is on the page.                                  *)
(*                                                                         *)
(* The router sends actions and refreshes one at a time, in the order they *)
(* were asked for, and a form carries what was on the page when it was     *)
(* pressed.  An upload is a request of its own beside them.                *)
(***************************************************************************)
EXTENDS Integers, Sequences, Functions

CONSTANTS
  NoGallery, NoOutcome,
  LISTING_MEDIA_LIMIT,
  OwnerPageLimits,        \* for each kind of step, how many a behaviour has
  MaxWaiting              \* the router's tasks at one time

ASSUME OwnerPageAssumption == NoOutcome \notin [message : {"refused", "unfinished"}, drawing : BOOLEAN]

VARIABLES
  kept,       \* the listing as stored: its photographs and what decides who sees it
  shown,      \* the page
  tasks,      \* the router's
  alerts,     \* forms on the page showing a refusal
  upload,     \* the upload under way, and the upload control's message
  untold,     \* has anything happened since the page was drawn that it was not told of?
  left        \* what is left of the limits

ownerPageVars == <<kept, shown, tasks, alerts, upload, untold, left>>

\* The two authorities: the owner's status and the platform's decision.
publiclyVisible(l) == l.status = "PUBLISHED" /\ l.moderation = "APPROVED"

Spend(what) == left[what] > 0 /\ left' = [left EXCEPT ![what] = @ - 1]

(***************************************************************************)
(* What is on the page.                                                    *)
(***************************************************************************)
Nothing == [kind |-> "unavailable"]

StatusLine(l) ==
  IF l.status # "PUBLISHED" THEN l.status
  ELSE IF publiclyVisible(l) THEN "found" ELSE "withheld"

VisibilityLabel(l) ==
  IF publiclyVisible(l) THEN "found"
  ELSE IF l.moderation # "APPROVED" THEN l.moderation ELSE l.status

ModerationNotice(l) == IF l.moderation = "APPROVED" THEN {} ELSE {l.moderation}

\* One control at a time, each with an outcome of its own.
PublishListingForm(l) == IF l.status = "PUBLISHED" THEN "PauseControl" ELSE "PublishControl"

publicationForms(p) == {<<PublishListingForm(p.listing)>>}

\* For every photograph: earlier but for the first, later but for the last, removal.
MediaControls(media) ==
  {<<"earlier", media[i]>> : i \in 2..Len(media)}
    \cup {<<"later", media[i]>> : i \in 1..(Len(media) - 1)}
    \cup {<<"remove", media[i]>> : i \in DOMAIN media}

Gallery(p) == IF p.media = NoGallery THEN {} ELSE MediaControls(p.media)

FormsOf(p) == IF p = Nothing THEN {} ELSE publicationForms(p) \cup Gallery(p)

GalleryOf(p) == IF p = Nothing THEN NoGallery ELSE p.media

swap(ids, from, to) == [ids EXCEPT ![from] = ids[to], ![to] = ids[from]]

indexOf(media, id) == CHOOSE i \in DOMAIN media : media[i] = id

\* The whole order, worked out from the photographs on the page.
Order(form) ==
  LET i == indexOf(shown.media, form[2])
  IN swap(shown.media, i, IF form[1] = "earlier" THEN i - 1 ELSE i + 1)

(***************************************************************************)
(* The router.                                                             *)
(***************************************************************************)
Unread == [listing |-> Nothing, media |-> NoGallery]

Task(form, order) == [form |-> form, order |-> order, at |-> "ask", read |-> Unread, unread |-> {}]
Refresh == [form |-> <<"refresh">>, order |-> <<>>, at |-> "draw", read |-> Unread, unread |-> {"listing", "media"}]

Waiting == {tasks[i].form : i \in DOMAIN tasks}

\* What each form submits: the whole order, one photograph, nothing.
ReorderForm(form) == Task(form, Order(form))
DeleteForm(form) == Task(form, <<>>)

\* Which of the two controls can be pressed.
PublishControl(form) ==
  form = <<"PublishControl">> /\ PublishListingForm(shown.listing) = form[1] /\ shown.listing.available
PauseControl(form) ==
  form = <<"PauseControl">> /\ PublishListingForm(shown.listing) = form[1]

\* A form is disabled while its own action is pending.
Press(form) ==
  /\ form \in FormsOf(shown) \ Waiting
  /\ Len(tasks) < MaxWaiting /\ Spend("presses")
  /\ \/ form[1] \in {"earlier", "later"} /\ tasks' = Append(tasks, ReorderForm(form))
     \/ form[1] = "remove" /\ tasks' = Append(tasks, DeleteForm(form))
     \/ (PublishControl(form) \/ PauseControl(form)) /\ tasks' = Append(tasks, Task(form, <<>>))
  /\ UNCHANGED <<kept, shown, alerts, upload, untold>>

Reload ==
  /\ Len(tasks) < MaxWaiting /\ Spend("reloads")
  /\ tasks' = Append(tasks, Refresh)
  /\ UNCHANGED <<kept, shown, alerts, upload, untold>>

\* What the API does with the task at the head, and what it answers.
Listing(field, value) == [kept EXCEPT !.listing[field] = value]
Photographs(media) == [kept EXCEPT !.media = media]
Appended == [kept EXCEPT !.media = Append(@, kept.issued), !.issued = @ + 1]

Served(task) ==
  LET l == kept.listing
      id == task.form[2]
  IN CASE task.form[1] = "remove" /\ id \in Range(kept.media) ->
            [to |-> Photographs(SelectSeq(kept.media, LAMBDA m : m # id)), answer |-> "loaded"]
       [] task.form[1] = "remove" /\ id \notin Range(kept.media) ->
            [to |-> kept, answer |-> "not-found"]
       [] task.form[1] \in {"earlier", "later"} ->
            IF Range(task.order) = Range(kept.media)
              THEN [to |-> Photographs(task.order), answer |-> "loaded"]
              ELSE [to |-> kept, answer |-> "refused"]
       [] task.form[1] = "PublishControl" ->
            IF l.available /\ l.ready THEN [to |-> Listing("status", "PUBLISHED"), answer |-> "loaded"]
            ELSE [to |-> kept, answer |-> IF l.available THEN "not-ready" ELSE "unavailable"]
       [] task.form[1] = "PauseControl" ->
            IF l.status = "DRAFT" THEN [to |-> kept, answer |-> "refused"]
            ELSE [to |-> Listing("status", "PAUSED"), answer |-> "loaded"]

\* Which answers draw the page again; the others are a refusal under the form.
settle(form, answer) ==
  answer = "loaded" \/ (form[1] = "remove" /\ answer = "not-found")

Refused(form) ==
  /\ alerts' = alerts \cup ({form} \cap FormsOf(shown))
  /\ untold' = (untold \/ form \notin FormsOf(shown))
  /\ tasks' = Tail(tasks)

Current == Head(tasks)

\* The request reaches the API or not, and the answer comes back or not.
Act ==
  /\ tasks # <<>> /\ Current.at = "ask"
  /\ LET served == Served(Current) IN
     \/ /\ kept' = served.to
        /\ IF settle(Current.form, served.answer)
             THEN /\ tasks' = <<[Current EXCEPT !.at = "draw", !.unread = {"listing", "media"}]>>
                                \o Tail(tasks)
                  /\ UNCHANGED <<alerts, untold>>
             ELSE Refused(Current.form)
        /\ UNCHANGED left
     \/ kept' \in {kept, served.to} /\ Refused(Current.form) /\ Spend("failures")
  /\ UNCHANGED <<shown, upload>>

\* The reads of ListingPage; either may fail.
Drawing == tasks # <<>> /\ Current.at = "draw"

fetchListing ==
  /\ Drawing /\ "listing" \in Current.unread
  /\ \E ok \in BOOLEAN :
       /\ tasks' = <<[Current EXCEPT !.unread = @ \ {"listing"},
                                     !.read.listing = IF ok THEN kept.listing ELSE @]>> \o Tail(tasks)
       /\ IF ok THEN UNCHANGED left ELSE Spend("failures")
  /\ untold' = IF Current.unread = {"listing", "media"} THEN FALSE ELSE untold
  /\ UNCHANGED <<kept, shown, alerts, upload>>

fetchListingMedia ==
  /\ Drawing /\ "media" \in Current.unread
  /\ \E ok \in BOOLEAN :
       /\ tasks' = <<[Current EXCEPT !.unread = @ \ {"media"},
                                     !.read.media = IF ok THEN kept.media ELSE @]>> \o Tail(tasks)
       /\ IF ok THEN UNCHANGED left ELSE Spend("failures")
  /\ untold' = IF Current.unread = {"listing", "media"} THEN FALSE ELSE untold
  /\ UNCHANGED <<kept, shown, alerts, upload>>

\* Without the listing there is no page; without its photographs no gallery.
ListingPage(read) ==
  IF read.listing = Nothing THEN Nothing
  ELSE [kind |-> "listing", listing |-> read.listing, media |-> read.media]

(***************************************************************************)
(* The upload control.                                                     *)
(***************************************************************************)

\* What a refusal is cleared by a change of.
mediaKey(media) == media

\* A message given while the page was being drawn.
FreshRefusal == upload.outcome # NoOutcome /\ upload.outcome.drawing

\* A page drawn: forms that are not on it go with what they said, the form that
\* was answered has nothing to say, and a message about a file goes when the
\* photographs are others.
Draw ==
  /\ Drawing /\ Current.unread = {}
  /\ LET page == ListingPage(Current.read)
         cleared == mediaKey(GalleryOf(page)) # mediaKey(GalleryOf(shown)) IN
     /\ shown' = page
     /\ alerts' = (alerts \cap FormsOf(page)) \ {Current.form}
     /\ upload' = [upload EXCEPT !.outcome = IF cleared THEN NoOutcome ELSE @,
                                 !.mounted = @ /\ GalleryOf(page) # NoGallery]
     /\ untold' = (untold \/ (cleared /\ FreshRefusal))
  /\ tasks' = Tail(tasks)
  /\ UNCHANGED <<kept, left>>

\* A file is chosen, where the page is not full.
UploadControl ==
  /\ GalleryOf(shown) # NoGallery /\ Len(shown.media) < LISTING_MEDIA_LIMIT
  /\ upload.at = "idle" /\ Spend("uploads")
  /\ upload' = [upload EXCEPT !.at = "sent", !.outcome = NoOutcome, !.mounted = TRUE]
  /\ UNCHANGED <<kept, shown, tasks, alerts, untold>>

\* The route stores it or refuses it, and its answer may not come back.
mediaPOST ==
  /\ upload.at = "sent"
  /\ \E stored, answered \in BOOLEAN :
       /\ stored => Len(kept.media) < LISTING_MEDIA_LIMIT
       /\ kept' = IF stored THEN Appended ELSE kept
       /\ upload' = [upload EXCEPT !.at = IF ~answered THEN "lost" ELSE
                                          IF stored THEN "stored" ELSE "refused"]
       /\ IF answered THEN UNCHANGED left ELSE Spend("failures")
  /\ UNCHANGED <<shown, tasks, alerts, untold>>

\* A full gallery has no upload control's message under it.
Told == upload.mounted /\ Len(shown.media) < LISTING_MEDIA_LIMIT

\* A message for a control that has gone is read by nobody.
report(message) ==
  IF Told
    THEN /\ upload' = [upload EXCEPT !.at = "idle",
                         !.outcome = [message |-> message, drawing |-> tasks # <<>>]]
         /\ UNCHANGED untold
    ELSE /\ upload' = [upload EXCEPT !.at = "idle"]
         /\ untold' = TRUE

\* Mutant: the page is not asked for again.
UploadAnswered_still ==
  \/ /\ upload.at = "stored"
     /\ upload' = [upload EXCEPT !.at = "idle"]
     /\ UNCHANGED <<kept, shown, tasks, alerts, untold, left>>
  \/ /\ upload.at \in {"refused", "lost"}
     /\ report(IF upload.at = "refused" THEN "refused" ELSE "unfinished")
     /\ UNCHANGED <<kept, shown, tasks, alerts, left>>

UploadAnswered ==
  \/ /\ upload.at = "stored"
     /\ Len(tasks) < MaxWaiting
     /\ tasks' = Append(tasks, Refresh)
     /\ upload' = [upload EXCEPT !.at = "idle"]
     /\ UNCHANGED <<kept, shown, alerts, untold, left>>
  \/ /\ upload.at \in {"refused", "lost"}
     /\ report(IF upload.at = "refused" THEN "refused" ELSE "unfinished")
     /\ UNCHANGED <<kept, shown, tasks, alerts, left>>

(***************************************************************************)
(* Others: the same owner in another tab, a moderator, the switch.         *)
(***************************************************************************)
OthersWrite ==
  /\ Spend("others")
  /\ kept' \in {Photographs(SelectSeq(kept.media, LAMBDA m : m # id)) : id \in Range(kept.media)}
       \cup {Photographs(swap(kept.media, i, i + 1)) : i \in 1..(Len(kept.media) - 1)}
       \cup {Appended}
       \cup {Listing("status", s) : s \in {"PUBLISHED", "PAUSED"}}
       \cup {Listing("moderation", m) : m \in {"APPROVED", "UNDER_REVIEW", "REJECTED"}}
       \cup {Listing("ready", ~kept.listing.ready), Listing("available", ~kept.listing.available)}
  /\ Len(kept'.media) <= LISTING_MEDIA_LIMIT
  /\ untold' = TRUE
  /\ UNCHANGED <<shown, tasks, alerts, upload>>

OwnerPageInit ==
  /\ kept \in [listing : [status : {"DRAFT", "PUBLISHED"}, moderation : {"APPROVED"},
                          ready : BOOLEAN, available : {TRUE}],
               media : {<<1, 2>>}, issued : {3}]
  /\ shown = [kind |-> "listing", listing |-> kept.listing, media |-> kept.media]
  /\ tasks = <<>> /\ alerts = {} /\ untold = FALSE
  /\ upload = [at |-> "idle", mounted |-> TRUE, outcome |-> NoOutcome]
  /\ left \in OwnerPageLimits

OwnerPageNext ==
  \/ \E form \in FormsOf(shown) : Press(form)
  \/ Reload \/ Act \/ fetchListing \/ fetchListingMedia \/ Draw
  \/ UploadControl \/ mediaPOST \/ UploadAnswered
  \/ OthersWrite

OwnerPageSpec == OwnerPageInit /\ [][OwnerPageNext]_ownerPageVars

(***************************************************************************)
(* Properties.                                                             *)
(***************************************************************************)
AtRest == tasks = <<>> /\ upload.at = "idle"
Alert == alerts # {} \/ upload.outcome # NoOutcome

\* media-actions.ts, actions.ts, listing-photographs.tsx: once everything asked
\* of the page is answered, and nothing happened that it was not told of since
\* it was drawn (another tab, a moderator, a refusal for a form that had gone, a
\* message the full page has no place for or cleared as it was given), it shows the photographs stored and says truly
\* who can find the listing, or a refusal is on it: a change whose answer was
\* lost never leaves a page that is wrong and looks right.
WrongOnlyUnderAnAlert ==
  AtRest /\ ~untold /\ shown # Nothing /\ ~Alert =>
    /\ shown.media # NoGallery => shown.media = kept.media
    /\ StatusLine(shown.listing) = "found" <=> publiclyVisible(kept.listing)
    /\ VisibilityLabel(shown.listing) = "found" <=> StatusLine(shown.listing) = "found"
    /\ ModerationNotice(shown.listing) = {kept.listing.moderation} \ {"APPROVED"}
    /\ PublishListingForm(shown.listing) = PublishListingForm(kept.listing)

\* listing-photographs.tsx says clearing the message when the photographs change
\* "cannot swallow a fresh refusal: a refused upload leaves the gallery exactly
\* as it was".  It can: the photographs change for another reason, a move or a
\* removal answered just after the refusal.
FreshRefusalStays ==
  [][FreshRefusal /\ upload'.at = "idle" => upload'.outcome = upload.outcome]_ownerPageVars

=============================================================================
