------------------------------ MODULE RfidWeb ------------------------------
(* The page webpage/rfid.js in one browser, the device's handlers behind    *)
(* it (RfidHttp), and other clients of the device.  Each $.ajax request is  *)
(* sent, handled and answered in three steps; requests are handled and      *)
(* answered in any order, because the browser opens several connections,    *)
(* and may be lost before or after the device has handled them.             *)
EXTENDS RfidHttp, SequencesExt

CONSTANTS
    Lookalike,  \* 12345678, which isAdminCard takes for the hexadecimal id
    Queries,    \* what may be typed into the search box, besides nothing
    Hits,       \* Hits[type][query]: the ids a search finds
    MaxWire,    \* bound: requests under way
    MaxClicks   \* bound: what users and other clients do

Types == {"id", "name"}

ASSUME WebAssumption ==
    /\ "" \notin Queries /\ Hits \in [Types -> [Queries -> SUBSET Ids]]
    /\ MaxWire \in Nat /\ MaxClicks \in Nat

VARIABLES
    currentView,
    onclick,           \* the view that a click on view_toggle_btn loads
    table,             \* cards_tbody: what is shown there, and the query behind it
    count,             \* card_count: a number, or -1 for an error or none yet
    isActive, query,   \* searchState
    type,
    search_input,      \* the search box
    searchTimeout,     \* the debounce timer runs
    wire,              \* requests under way, in the order they were sent
    clicks,
    overtook,          \* history: a late answer overwrote a later one's
    missed             \* history: a change of which the page was not told

view == <<currentView, onclick>>
search == <<isActive, query, type, search_input, searchTimeout>>
shown == <<table, count>>
history == <<clicks, overtook, missed>>
vars == <<cards, view, search, shown, wire, history>>

Views == {"defaults", "all"}
Changing == {"add", "remove", "reset"}
Request(w) == [what |-> w, n |-> 0, name |-> "plain", query |-> "", ans |-> NoAnswer]

TypeOK ==
    /\ cards \subseteq [id : Ids, name : Names]
    /\ currentView \in Views /\ onclick \in Views
    /\ table \in [kind : {"loading", "defaults", "all", "search", "error"},
                  list : SUBSET Ids, query : Queries \cup {""}]
    /\ count \in Int
    /\ isActive \in BOOLEAN /\ query \in Queries \cup {""} /\ type \in Types
    /\ search_input \in Queries \cup {""} /\ searchTimeout \in BOOLEAN
    /\ wire \in Seq([what : {"count", "defaults", "list", "search"} \cup Changing,
                     n : Numbers \cup {0}, name : Names,
                     query : Queries \cup {""}, ans : Answers])
    /\ clicks \in Nat /\ overtook \in BOOLEAN /\ missed \in BOOLEAN

-----------------------------------------------------------------------------
(* The functions of the page; "sent" is what is under way before them.      *)

Load(v) == Request(IF v = "defaults" THEN "defaults" ELSE "list")

\* Mutant: an empty search box only ends the search.
performSearch_silent(sent) ==
    /\ isActive' = (search_input # "") /\ query' = search_input
    /\ wire' = IF search_input = "" THEN sent
               ELSE Append(sent, [Request("search") EXCEPT !.query = search_input])

\* Without text it ends the search and refreshes, which then loads the view.
performSearch(sent) ==
    /\ isActive' = (search_input # "") /\ query' = search_input
    /\ wire' = Append(sent, IF search_input = "" THEN Load(currentView)
                            ELSE [Request("search") EXCEPT !.query = search_input])

\* The override at the end of rfid.js: a search under way is repeated, with what
\* is in the box by now.
refreshCurrentView(sent) ==
    \/ isActive /\ query # "" /\ performSearch(sent)
    \/ ~(isActive /\ query # "") /\ wire' = Append(sent, Load(currentView))
       /\ UNCHANGED <<isActive, query>>

-----------------------------------------------------------------------------
(* What the user does.                                                      *)

Click ==
    /\ clicks < MaxClicks /\ Len(wire) < MaxWire /\ clicks' = clicks + 1
    /\ UNCHANGED <<cards, onclick, shown, overtook, missed>>

Send(req) == wire' = Append(wire, req) /\ UNCHANGED <<currentView, search>>

\* loadAllCards or loadDefaultCards, whichever the toggle's onclick is.
ToggleView ==
    /\ Click /\ currentView' = onclick
    /\ wire' = Append(wire, Load(currentView')) /\ UNCHANGED search

addCard ==
    /\ Click
    /\ \E n \in Numbers \cap Ids, name \in Names :
         Send([Request("add") EXCEPT !.n = n, !.name = name])

removeCard ==
    /\ Click
    /\ \E n \in (Numbers \cap Ids) \ {Admin, Lookalike} :
         Send([Request("remove") EXCEPT !.n = n])

resetDatabase == Click /\ Send(Request("reset"))

\* Each key restarts the debounce timer.
TypeQuery ==
    /\ Click /\ \E q \in Queries \cup {""} : search_input' = q
    /\ searchTimeout' = TRUE
    /\ UNCHANGED <<currentView, isActive, query, type, wire>>

EnterKey ==
    /\ Click /\ searchTimeout' = FALSE /\ performSearch(wire)
    /\ UNCHANGED <<currentView, type, search_input>>

\* It does not stop the debounce timer.
clearSearch ==
    /\ Click /\ isActive' = FALSE /\ query' = "" /\ search_input' = ""
    /\ wire' = Append(wire, Load(currentView))
    /\ UNCHANGED <<currentView, type, searchTimeout>>

\* The onchange of rfid.html clears the search, then the listener of rfid.js
\* searches with the new type and finds the box empty.
ChangeType ==
    /\ Click /\ type' \in Types \ {type}
    /\ isActive' = FALSE /\ query' = "" /\ search_input' = ""
    /\ wire' = wire \o <<Load(currentView), Load(currentView)>>
    /\ UNCHANGED <<currentView, searchTimeout>>

DebounceFires ==
    /\ searchTimeout /\ searchTimeout' = FALSE /\ performSearch(wire)
    /\ UNCHANGED <<cards, view, shown, type, search_input, history>>

-----------------------------------------------------------------------------
(* The device, the network, and other clients.                              *)

\* Where jQuery calls the success callback.
Succeeded(a) == a.status \in {200, 201} /\ a.json

\* A change that ends in anything but a success tells the page nothing.
Serve(k) ==
    /\ wire[k].ans = NoAnswer
    /\ \E o \in Handled(wire[k]) :
         /\ cards' = o.cards
         /\ wire' = [wire EXCEPT ![k].ans = o.ans]
         /\ missed' = (missed \/ (o.cards # cards /\ o.ans.status = 500))
    /\ UNCHANGED <<view, search, shown, clicks, overtook>>

\* The request or its answer is lost: jQuery will call the error callback.
Lose(k) ==
    /\ wire[k].ans.status # -1
    /\ wire' = [wire EXCEPT ![k].ans = Failed(-1)]
    /\ missed' = (missed \/ (wire[k].what \in Changing /\ Succeeded(wire[k].ans)))
    /\ UNCHANGED <<cards, view, search, shown, clicks, overtook>>

\* Another browser, or a program that uses the API without the page.
Client ==
    /\ clicks < MaxClicks /\ clicks' = clicks + 1
    /\ \E w \in Changing \cup {"check"}, n \in Numbers, name \in Names :
         \E o \in Handled([Request(w) EXCEPT !.n = n, !.name = name]) :
           /\ cards' = o.cards
           /\ missed' = (missed \/ o.cards # cards)
    /\ UNCHANGED <<view, search, shown, wire, overtook>>

-----------------------------------------------------------------------------
(* The callbacks of $.ajax.                                                 *)

Lists == {"defaults", "list", "search"}

Answered(k) == wire[k].ans # NoAnswer
\* An answer to a later request for the same element has been shown already.
Arrives(k) ==
    /\ Answered(k)
    /\ overtook' = (overtook \/ \E j \in 1..(k - 1) :
            \/ wire[j].what \in Lists /\ wire[k].what \in Lists
            \/ wire[j].what = "count" /\ wire[k].what = "count")
    /\ UNCHANGED <<cards, currentView, clicks, missed>>
Rest(k) == RemoveAt(wire, k)

Display(kind, list, q) == table' = [kind |-> kind, list |-> list, query |-> q]

ShowCount(k) ==
    /\ Arrives(k) /\ wire[k].what = "count"
    /\ count' = IF Succeeded(wire[k].ans) THEN wire[k].ans.num ELSE -1
    /\ wire' = Rest(k) /\ UNCHANGED <<onclick, table, search>>

Other(v) == IF v = "defaults" THEN "all" ELSE "defaults"
ViewOf(w) == IF w.what = "list" THEN "all" ELSE "defaults"

\* Mutant: the toggle is left as it was.
ShowView_only(k) ==
    /\ Arrives(k) /\ wire[k].what \in {"defaults", "list"}
    /\ Succeeded(wire[k].ans)
    /\ Display(ViewOf(wire[k]), wire[k].ans.list, "")
    /\ UNCHANGED onclick
    /\ wire' = Rest(k) /\ UNCHANGED <<count, search>>

\* displayCards and updateViewButton, which turns the onclick around but not the
\* label: the toggle is an input, of which .text() leaves the value as it was.
ShowView(k) ==
    /\ Arrives(k) /\ wire[k].what \in {"defaults", "list"}
    /\ Succeeded(wire[k].ans)
    /\ Display(ViewOf(wire[k]), wire[k].ans.list, "")
    /\ onclick' = Other(ViewOf(wire[k]))
    /\ wire' = Rest(k) /\ UNCHANGED <<count, search>>

\* The answer is filtered with the query of the request and the type of now.
ShowSearch(k) ==
    /\ Arrives(k) /\ wire[k].what = "search" /\ Succeeded(wire[k].ans)
    /\ Display("search", wire[k].ans.list \cap Hits[type][wire[k].query], wire[k].query)
    /\ wire' = Rest(k) /\ UNCHANGED <<onclick, count, search>>

\* displayError
ShowError(k) ==
    /\ Arrives(k) /\ wire[k].what \in Lists /\ ~Succeeded(wire[k].ans)
    /\ Display("error", {}, "")
    /\ wire' = Rest(k) /\ UNCHANGED <<onclick, count, search>>

\* Mutant: only the count is fetched again.
Changed_count(k) ==
    /\ Arrives(k) /\ wire[k].what \in Changing /\ Succeeded(wire[k].ans)
    /\ wire' = Append(Rest(k), Request("count"))
    /\ UNCHANGED <<onclick, shown, search>>

\* The success callbacks of addCard, removeCard and resetDatabase.
Changed(k) ==
    /\ Arrives(k) /\ wire[k].what \in Changing /\ Succeeded(wire[k].ans)
    /\ refreshCurrentView(Append(Rest(k), Request("count")))
    /\ UNCHANGED <<onclick, shown, type, search_input, searchTimeout>>

\* Their error callbacks only show a message.
NotChanged(k) ==
    /\ Arrives(k) /\ wire[k].what \in Changing /\ ~Succeeded(wire[k].ans)
    /\ wire' = Rest(k) /\ UNCHANGED <<onclick, shown, search>>

-----------------------------------------------------------------------------
\* $(document).ready
Init ==
    /\ HttpInit
    /\ currentView = "defaults" /\ onclick = "all"
    /\ table = [kind |-> "loading", list |-> {}, query |-> ""]
    /\ count = -1
    /\ isActive = FALSE /\ query = "" /\ type = "id"
    /\ search_input = "" /\ searchTimeout = FALSE
    /\ wire = <<Request("count"), Request("defaults")>>
    /\ clicks = 0 /\ overtook = FALSE /\ missed = FALSE

User ==
    \/ ToggleView \/ addCard \/ removeCard \/ resetDatabase
    \/ TypeQuery \/ EnterKey \/ clearSearch \/ ChangeType

Callback(k) ==
    \/ ShowCount(k) \/ ShowView(k) \/ ShowSearch(k) \/ ShowError(k)
    \/ Changed(k) \/ NotChanged(k)

Next ==
    \/ User \/ DebounceFires \/ Client
    \/ \E k \in DOMAIN wire : Serve(k) \/ Lose(k) \/ Callback(k)

Spec == Init /\ [][Next]_vars

-----------------------------------------------------------------------------
(* Properties.                                                              *)

\* "Protected Admin Cards" (README): the admin card stays in the database
\* whatever clients send, whether or not they use the page, which number
\* their text turns into, and wherever a reset runs out of heap.
AdminStays == Admin \in members

\* When the table has one of the two views, a click on the toggle loads the
\* other one, in whatever order answers and errors arrive.  This is about what
\* a click does: the label says "View All Cards" whichever it is.
ToggleLeadsAway == table.kind \in Views => onclick # table.kind

AtRest == wire = <<>> /\ ~searchTimeout

\* When nothing is under way, the table is the one asked for last: the results
\* of the search in the box while a search is active, else the chosen view;
\* unless an answer overtook a later one, which nothing in rfid.js prevents.
ViewSettles ==
    AtRest /\ ~overtook =>
        /\ table.kind = "search" => isActive /\ table.query = query /\ query = search_input
        /\ table.kind \in Views => table.kind = currentView

\* When nothing is under way, what the table and the count say is what the
\* database holds, after any of the page's own changes, in any order with
\* them; unless an answer overtook a later one, or the page was not told of
\* a change (somebody else's, or one whose answer was lost).
Current ==
    AtRest /\ ~overtook /\ ~missed =>
        LET listed == IF Cardinality(cards) > ListMax THEN {} ELSE members IN
        /\ table.kind = "all" => table.list \in {listed, {}}
        /\ table.kind = "search" => table.list \in {listed \cap Hits[type][table.query], {}}
        /\ count \in {Cardinality(cards), -1}
=============================================================================
