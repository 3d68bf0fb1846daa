----------------------------- MODULE MCScreens -----------------------------
(***************************************************************************)
(* Search: five listings at two distances, two to a page and two pages, so *)
(* that a search fills both and leaves one over.  Forms: a category with   *)
(* no attributes, one of each pair of kinds.  Calendar: two months of      *)
(* three days, one day short and one long, and a period that can run       *)
(* through both.  Listing: three photographs at most and two to begin      *)
(* with; a behaviour has presses, reloads, uploads, lost answers and       *)
(* others' writes up to one of the limits.                                 *)
(***************************************************************************)
EXTENDS Screens

MCListings == 1..5
MCMetres == <<2, 1, 1, 2, 1>>
MCCategoryOf == <<"saws", "saws", "drills", "saws", "saws">>
MCOwnerOf == <<"ann", "bob", "bob", "ann", "bob">>
MCWords == [makita |-> {1, 2, 4}]
MCRadii == <<1, 2>>

Plain == [postcode |-> "here", radiusMiles |-> Absent, page |-> Absent, category |-> Absent,
          keyword |-> Absent, availableFrom |-> Blank, availableTo |-> Absent]

MCAddresses ==
  {Plain,
   [Plain EXCEPT !.radiusMiles = 2],
   [Plain EXCEPT !.radiusMiles = 2, !.category = "saws", !.keyword = "makita"],
   [Plain EXCEPT !.radiusMiles = 2, !.availableFrom = 0, !.availableTo = 1, !.keyword = Blank],
   [Plain EXCEPT !.category = "saws", !.availableFrom = 0, !.availableTo = 2],
   [Plain EXCEPT !.availableFrom = 1, !.keyword = "makita"],
   [Plain EXCEPT !.postcode = Blank, !.radiusMiles = 2, !.category = "saws"],
   [Plain EXCEPT !.postcode = "nowhere", !.page = 2],
   [Plain EXCEPT !.category = "boats", !.radiusMiles = 3],
   [Plain EXCEPT !.category = "boats", !.keyword = Bad],
   [Plain EXCEPT !.category = "boats"],
   [Plain EXCEPT !.page = 3, !.keyword = "makita"]}

MCTextLength == [a |-> 1, b |-> 1, wordy |-> 2, odd |-> 1] @@ ("" :> 0)
Option(v) == [value |-> v, label |-> "label"]
Weight == [key |-> "weight", label |-> "label", required |-> TRUE, type |-> "number",
           unit |-> "kg", decimalPlaces |-> 1]
Extras == [key |-> "extras", label |-> "label", required |-> FALSE, type |-> "choice-many",
           options |-> <<Option("b"), Option("a")>>]
Fuel == [key |-> "weight", label |-> "label", required |-> FALSE, type |-> "choice",
         options |-> <<Option("a"), Option("b")>>]
Note == [key |-> "extras", label |-> "label", required |-> FALSE, type |-> "text",
         maxLength |-> 1]
MCFirstSchemas == {<<>>, <<Weight, Extras>>, <<Fuel, Note>>}
MCLimits == {[edits |-> 3, answers |-> 0], [edits |-> 1, answers |-> 3]}
MCNumbers == {<<5, 0>>, <<25, 1>>}

MCDayLength == <<3, 3, 2, 3, 4, 3, 3>>
MCMonthLength == <<3, 3, 1>>

Limit(presses, reloads, uploads, failures, others) ==
  [presses |-> presses, reloads |-> reloads, uploads |-> uploads, failures |-> failures,
   others |-> others]
MCOwnerPageLimits ==
  {Limit(2, 0, 1, 1, 0), Limit(1, 0, 1, 1, 1), Limit(2, 0, 0, 1, 1), Limit(2, 1, 0, 0, 1),
   Limit(3, 0, 0, 1, 0)}

=============================================================================
