------------------------------ MODULE RfidHttp ------------------------------
(* The /cards handlers of components/app_local_server/app_local_server.c on *)
(* the card database.  httpd runs them in one task, so that each is one     *)
(* step, as RfidManager!ImplementsRfidDb shows for the calls they make.     *)
(* A handler is the set of its outcomes: the database it leaves and the     *)
(* answer it sends.                                                         *)
EXTENDS Integers, Sequences, FiniteSets

CONSTANTS
    Half,        \* 2^31; ids are uint32_t, cJSON's valueint is an int
    Numbers,     \* numbers that a request may carry
    Admin,       \* ADMIN_CARD_ID
    Defaults,    \* default_cards, in order
    MaxCards,    \* max_cards of the header
    ListMax,     \* cards whose JSON fits http_server_buffer
    MallocFails  \* a call may fail for want of heap

Ids == 1..(2 * Half - 1)

ASSUME HttpAssumption ==
    /\ Half \in Nat \ {0} /\ Numbers \subseteq Int
    /\ MaxCards \in Nat /\ ListMax \in Nat /\ MallocFails \in BOOLEAN
    /\ Defaults \in Seq(Ids) /\ Defaults # <<>>
    /\ Admin = Defaults[1] /\ Len(Defaults) <= MaxCards

\* A name with a quote in it is stored and later printed into the JSON as it is.
Names == {"plain", "quoted"}

VARIABLE cards  \* the database: each card's id and name

members == {c.id : c \in cards}
Full == Cardinality(cards) >= MaxCards
DefaultIds == {Defaults[k] : k \in 1..Len(Defaults)}

\* status 0: no answer yet, -1: none will come; json: it parses; num: a count
Answers == [status : Int, json : BOOLEAN, list : SUBSET Ids, num : Nat]
NoAnswer == [status |-> 0, json |-> TRUE, list |-> {}, num |-> 0]
Failed(s) == [NoAnswer EXCEPT !.status = s]
Ok(s) == Failed(s)
Outcome(db, a) == [cards |-> db, ans |-> a]
Refuse(s) == Outcome(cards, Failed(s))
\* With cards in the database every call copies them to the heap first.
NoHeap(o) == IF MallocFails /\ cards # {} THEN {o} ELSE {}

\* cJSON's valueint saturates at INT_MIN and INT_MAX ...
valueint(n) == IF n >= Half THEN Half - 1 ELSE IF n < -Half THEN -Half ELSE n
\* Mutant: ids are kept as they come.
int32_t(n) == n
\* ... and is then cast.
uint32_t(n) == n % (2 * Half)
\* newlib's strtoul: saturates at ULONG_MAX, negates modulo 2^32.
strtoul(n) == IF n >= 2 * Half \/ n <= -2 * Half THEN 2 * Half - 1 ELSE uint32_t(n)

\* POST /cards/add, with rfid_manager_add_card
add_card(n, name) ==
    LET id == uint32_t(valueint(n)) IN
    CASE id = 0 -> {Refuse(400)}
      [] id # 0 /\ (id \in members \/ Full) -> {Refuse(500)}
      [] OTHER -> {Outcome(cards \cup {[id |-> id, name |-> name]}, Ok(201))}
                    \cup NoHeap(Refuse(500))

\* Mutant: only the page protects the admin card.
remove_card_any(n) ==
    LET id == strtoul(n) IN
    CASE id = 0 -> {Refuse(400)}
      [] id # 0 /\ id \notin members -> {Refuse(404)}
      [] OTHER -> {Outcome({c \in cards : c.id # id}, Ok(200))} \cup NoHeap(Refuse(500))

\* DELETE /cards/remove, with rfid_manager_remove_card
remove_card(n) ==
    LET id == strtoul(n) IN
    CASE id = 0 -> {Refuse(400)}
      [] id = Admin -> {Refuse(403)}
      [] id \notin members \cup {0, Admin} -> {Refuse(404)} \cup NoHeap(Refuse(500))
      [] OTHER -> {Outcome({c \in cards : c.id # id}, Ok(200))} \cup NoHeap(Refuse(500))

Restored(k) == {[id |-> Defaults[i], name |-> "plain"] : i \in 1..k}

\* POST /cards/reset: format, then the default cards one by one; adding to
\* an empty database takes no heap, so the first of them never fails.
reset_cards ==
    {Outcome(Restored(Len(Defaults)), Ok(200))} \cup
    {Outcome(Restored(k), Failed(500)) :
        k \in IF MallocFails THEN 1..(Len(Defaults) - 1) ELSE {}}

\* Either all cards or ESP_ERR_NO_MEM, for want of heap or when the cards do not
\* fit the buffer.
Unlisted == [list |-> {}, json |-> TRUE]
get_card_list_json ==
    {IF Cardinality(cards) > ListMax THEN Unlisted
     ELSE [list |-> members, json |-> \A c \in cards : c.name = "plain"]}
    \cup NoHeap(Unlisted)

\* GET /cards/get: an error has status 200 too, and no cards.
list_cards ==
    {Outcome(cards, [Ok(200) EXCEPT !.list = l.list, !.json = l.json]) : l \in get_card_list_json}

\* GET /cards/defaults: a constant in the handler
get_default_cards == {Outcome(cards, [Ok(200) EXCEPT !.list = DefaultIds])}

\* GET /cards/count
get_card_count == {Outcome(cards, [Ok(200) EXCEPT !.num = Cardinality(cards)])}

\* GET /cards/check: "exists", 1 for true
check_card(n) ==
    LET found == IF strtoul(n) \in members THEN 1 ELSE 0 IN
    {Outcome(cards, [Ok(200) EXCEPT !.num = found])} \cup NoHeap(Outcome(cards, Ok(200)))

\* uri_handlers: the handler of a request
Handled(req) ==
    CASE req.what = "add" -> add_card(req.n, req.name)
      [] req.what = "remove" -> remove_card(req.n)
      [] req.what = "reset" -> reset_cards
      [] req.what \in {"list", "search"} -> list_cards
      [] req.what = "defaults" -> get_default_cards
      [] req.what = "count" -> get_card_count
      [] req.what = "check" -> check_card(req.n)

\* app_main has loaded the default cards before the server starts.
HttpInit == cards = Restored(Len(Defaults))
=============================================================================
