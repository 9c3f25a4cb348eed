------------------------------- MODULE Tables -------------------------------
(***************************************************************************)
(* The administration tables of the three inherited interfaces, and what   *)
(* they promise to the administrator who works with them.                  *)
(***************************************************************************)
EXTENDS ListView, Functions

D == INSTANCE DefaultTables
A == INSTANCE AirTables
B == INSTANCE BerryTables

Init == D!DefaultInit \/ A!AirInit \/ B!BerryInit
Next == \/ \E s \in Slots : Serve(s) \/ Lost(s)
        \/ Foreign
        \/ D!DefaultNext \/ A!AirNext \/ B!BerryNext
Spec == Init /\ [][Next]_vars

-----------------------------------------------------------------------------
\* An answer changes the row of the object it was asked for and no other,
\* whatever page is shown by then and whatever list the closure holds.
RightRow ==
  [][\A r \in DOMAIN obj \cap DOMAIN obj' :
       obj'[r] # obj[r] =>
         \E s \in InFlight : calls'[s] # calls[s] /\ calls[s].op = "manage" /\ calls[s].id = r[1]]_vars

\* What the administrator sees is what the server has, as long as he alone
\* administers, no call was lost, and no two calls were in flight together that
\* touch the same row or set the whole list: operations on different rows may
\* overlap and be answered in any order.  Only a row of berry that was unmounted
\* starts again from the list, which does not know what its switch did, and a list
\* that came to show a row twice keeps the twin of a deleted one.  And the
\* spinners stop: nothing is shown as loading when nothing is in flight.
ShowsTheTruth ==
  /\ Quiet /\ ~hist.threw => ~ui.loading /\ ~ui.searching
  /\ Quiet /\ ~hist.disturbed /\ ~list.mixed /\ view \notin BerryViews =>
       \A r \in Range(Slice(list, ui)) : ~obj[r].gone => obj[r].status = db[r[1]]

\* However page loads, refreshes and operations overlap, no row is listed twice,
\* unless pages of different listings, or of a listing that shifted, came together.
NoRowTwice ==
  ~list.mixed => \A i, j \in DOMAIN list.rows : list.rows[i][1] = list.rows[j][1] => i = j

Offered == IF view \in DefaultViews THEN D!Pages ELSE B!Pages

\* Every row of the server can be reached, whatever is in flight: while a row is
\* missing from the list, a page beyond the loaded ones is offered, as long as no
\* row has gone from the server and the list is in the order chosen.  Not so in
\* air, which counts the rows with a page, or a page size, that is no longer the
\* one that is shown.
NothingOutOfReach ==
  /\ ~hist.moved /\ ~list.mixed /\ view \notin AirViews /\ list.base = ui.order
  => \/ Range(Listing(list.base)) \subseteq IdsIn(list.rows)
     \/ Offered > CeilDiv(Len(list.rows), ui.size)
=============================================================================
