---- MODULE Calendar ----
(***************************************************************************)
(* What the booking side promises about a listing's dates: they are taken  *)
(* by one booking at a time, and given up only by the booking that has     *)
(* them.                                                                   *)
(***************************************************************************)
CONSTANTS Bookings, Conflicts

VARIABLE taken   \* the bookings that hold their dates

Free(b) == \A c \in taken : <<b, c>> \notin Conflicts

Init == taken = {}

Take(b) == b \notin taken /\ Free(b) /\ taken' = taken \cup {b}

GiveUp(b) == b \in taken /\ taken' = taken \ {b}

Next == \E b \in Bookings : Take(b) \/ GiveUp(b)

Spec == Init /\ [][Next]_taken
====
