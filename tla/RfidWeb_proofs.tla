--------------------------- MODULE RfidWeb_proofs ---------------------------
(* The admin card, the toggle, and what the page shows once nothing         *)
(* is under way, for any numbers and names in the requests, any default     *)
(* cards, and any number of requests under way.                             *)
EXTENDS RfidWeb, FiniteSetTheorems, SequenceTheorems, TLAPS

Card == [id : Ids, name : Names]
Sent == [what : {"count", "defaults", "list", "search"} \cup Changing,
         n : Numbers \cup {0}, name : Names, query : Queries \cup {""}, ans : Answers]

LEMMA ConstantsOK == /\ Half \in Nat /\ Half >= 1 /\ Numbers \subseteq Int
                     /\ MaxCards \in Nat /\ ListMax \in Nat /\ MallocFails \in BOOLEAN
                     /\ Defaults \in Seq(Ids) /\ Len(Defaults) \in Nat /\ Len(Defaults) >= 1
                     /\ Admin = Defaults[1] /\ Admin \in Ids
                     /\ Hits \in [Types -> [Queries -> SUBSET Ids]]
<1>1. /\ Half \in Nat \ {0} /\ Numbers \subseteq Int
      /\ MaxCards \in Nat /\ ListMax \in Nat /\ MallocFails \in BOOLEAN
      /\ Hits \in [Types -> [Queries -> SUBSET Ids]]
  BY HttpAssumption, WebAssumption DEF HttpAssumption, WebAssumption
<1>2. Defaults \in Seq(Ids) /\ Defaults # <<>> /\ Admin = Defaults[1]
  BY HttpAssumption DEF HttpAssumption
<1>3. Len(Defaults) \in Nat /\ Len(Defaults) >= 1 /\ Defaults[1] \in Ids
  BY <1>2
<1>4. Half >= 1
  BY <1>1
<1> QED
  BY <1>1, <1>2, <1>3, <1>4

-----------------------------------------------------------------------------
(* The conversions of a number.                                             *)

LEMMA ModRange == \A n \in Int : \A m \in Nat : m >= 1 => n % m \in Int /\ 0 <= n % m /\ n % m < m
  OBVIOUS

\* What reaches the database after a conversion is an id, or 0.
LEMMA Converted ==
    ASSUME NEW n \in Int
    PROVE  /\ uint32_t(valueint(n)) \in Ids \cup {0}
           /\ strtoul(n) \in Ids \cup {0}
<1>1. 2 * Half \in Nat /\ 2 * Half >= 1
  BY ConstantsOK
<1>2. \A k \in Int : uint32_t(k) \in Ids \cup {0}
  <2> SUFFICES ASSUME NEW k \in Int PROVE uint32_t(k) \in Ids \cup {0}
    OBVIOUS
  <2>1. k % (2 * Half) \in Int /\ 0 <= k % (2 * Half) /\ k % (2 * Half) < 2 * Half
    BY <1>1, ModRange
  <2> QED
    BY <2>1, ConstantsOK DEF uint32_t, Ids
<1>3. valueint(n) \in Int
  BY ConstantsOK DEF valueint
<1>4. 2 * Half - 1 \in Ids
  BY ConstantsOK DEF Ids
<1> QED
  BY <1>2, <1>3, <1>4 DEF strtoul

-----------------------------------------------------------------------------
(* The handlers.                                                            *)

Database(db) == db \subseteq Card /\ IsFiniteSet(db) /\ \E c \in db : c.id = Admin
Sound(o) == Database(o.cards) /\ o.ans \in Answers

LEMMA AnswersTyped ==
    /\ \A s \in Int : Failed(s) \in Answers /\ Ok(s) \in Answers /\ Failed(s).status = s
    /\ NoAnswer \in Answers
<1>1. NoAnswer \in Answers
  BY DEF NoAnswer, Answers
<1>2. ASSUME NEW s \in Int PROVE Failed(s) \in Answers
  BY DEF Failed, NoAnswer, Answers
<1>3. ASSUME NEW s \in Int PROVE Failed(s).status = s
  BY DEF Failed, NoAnswer
<1> QED
  BY <1>1, <1>2, <1>3 DEF Ok

LEMMA Refused == ASSUME Database(cards), NEW s \in Int PROVE Sound(Refuse(s))
  BY AnswersTyped DEF Refuse, Outcome, Sound

LEMMA AddOutcomes ==
    ASSUME NEW n, NEW name, NEW o \in add_card(n, name)
    PROVE  \/ o \in {Refuse(400), Refuse(500)}
           \/ /\ uint32_t(valueint(n)) # 0
              /\ o = Outcome(cards \cup {[id |-> uint32_t(valueint(n)), name |-> name]}, Ok(201))
<1>1. CASE uint32_t(valueint(n)) = 0
  <2>1. add_card(n, name) = {Refuse(400)}
    BY <1>1 DEF add_card
  <2> QED
    BY <2>1
<1>2. CASE /\ uint32_t(valueint(n)) # 0
           /\ uint32_t(valueint(n)) \in members \/ Full
  <2>1. add_card(n, name) = {Refuse(500)}
    BY <1>2 DEF add_card
  <2> QED
    BY <2>1
<1>3. CASE /\ uint32_t(valueint(n)) # 0
           /\ ~(uint32_t(valueint(n)) \in members \/ Full)
  <2>1. add_card(n, name) =
          {Outcome(cards \cup {[id |-> uint32_t(valueint(n)), name |-> name]}, Ok(201))}
            \cup NoHeap(Refuse(500))
    BY <1>3 DEF add_card
  <2> QED
    BY <1>3, <2>1 DEF NoHeap
<1> QED
  BY <1>1, <1>2, <1>3

LEMMA AddSound ==
    ASSUME Database(cards), NEW n \in Int, NEW name \in Names, NEW o \in add_card(n, name)
    PROVE  Sound(o)
<1> DEFINE id == uint32_t(valueint(n))
           c == [id |-> id, name |-> name]
<1>1. \/ o \in {Refuse(400), Refuse(500)}
      \/ id # 0 /\ o = Outcome(cards \cup {c}, Ok(201))
  BY AddOutcomes
<1>2. CASE id # 0 /\ o = Outcome(cards \cup {c}, Ok(201))
  <2>1. c \in Card
    BY <1>1, <1>2, Converted DEF Card
  <2>2. IsFiniteSet(cards \cup {c})
    BY FS_AddElement DEF Database
  <2>3. Database(cards \cup {c})
    BY <2>1, <2>2 DEF Database
  <2> QED
    BY <1>2, <2>3, AnswersTyped DEF Sound, Outcome
<1> QED
  BY <1>1, <1>2, Refused

LEMMA RemoveSound ==
    ASSUME Database(cards), NEW n \in Int, NEW o \in remove_card(n)
    PROVE  Sound(o)
<1> DEFINE id == strtoul(n)
           rest == {c \in cards : c.id # id}
<1>1. \/ o \in {Refuse(400), Refuse(403), Refuse(404), Refuse(500)}
      \/ id # Admin /\ o = Outcome(rest, Ok(200))
  BY DEF remove_card, NoHeap
<1>2. CASE id # Admin /\ o = Outcome(rest, Ok(200))
  <2>1. IsFiniteSet(rest)
    BY FS_Subset DEF Database
  <2>2. Database(rest)
    BY <1>2, <2>1 DEF Database
  <2> QED
    BY <1>2, <2>2, AnswersTyped DEF Sound, Outcome
<1> QED
  BY <1>1, <1>2, Refused

\* The first default card is the admin card.
LEMMA RestoredSound == ASSUME NEW k \in 1..Len(Defaults) PROVE Database(Restored(k))
<1> DEFINE card(i) == [id |-> Defaults[i], name |-> "plain"]
           f == [i \in 1..k |-> card(i)]
<1>1. \A i \in 1..k : i \in 1..Len(Defaults)
  BY ConstantsOK
<1>2. \A i \in 1..k : card(i) \in Card
  BY <1>1, ConstantsOK DEF Card, Names
<1>3. IsFiniteSet(Restored(k))
  <2>1. IsFiniteSet(1..k)
    BY FS_Interval, ConstantsOK
  <2>2. f \in Surjection(1..k, Restored(k))
    BY DEF Surjection, Restored
  <2> QED
    BY <2>1, <2>2, FS_Surjection
<1>4. \E c \in Restored(k) : c.id = Admin
  <2>1. 1 \in 1..k /\ card(1) \in Restored(k) /\ card(1).id = Admin
    BY ConstantsOK DEF Restored
  <2> QED
    BY <2>1
<1> QED
  BY <1>2, <1>3, <1>4 DEF Database, Restored

LEMMA ResetSound == ASSUME NEW o \in reset_cards PROVE Sound(o)
<1>1. PICK k \in 1..Len(Defaults) : o = Outcome(Restored(k), Ok(200))
                                    \/ o = Outcome(Restored(k), Failed(500))
  BY ConstantsOK DEF reset_cards
<1> QED
  BY <1>1, RestoredSound, AnswersTyped DEF Sound, Outcome

LEMMA ReadSound ==
    ASSUME Database(cards), NEW n \in Int,
           NEW o \in list_cards \cup get_default_cards \cup get_card_count \cup check_card(n)
    PROVE  Sound(o)
<1>1. o.cards = cards
  <2>1. \A a : Outcome(cards, a).cards = cards
    BY DEF Outcome
  <2>2. \E a : o = Outcome(cards, a)
    <3>1. CASE o \in list_cards
      BY <3>1 DEF list_cards
    <3>2. CASE o \in get_default_cards \cup get_card_count \cup check_card(n)
      BY <3>2 DEF get_default_cards, get_card_count, check_card, NoHeap
    <3> QED
      BY <3>1, <3>2
  <2> QED
    BY <2>1, <2>2
<1>2. Ok(200) \in Answers /\ Cardinality(cards) \in Nat /\ members \subseteq Ids /\ DefaultIds \subseteq Ids
  <2>1. Cardinality(cards) \in Nat
    BY FS_CardinalityType DEF Database
  <2>2. members \subseteq Ids
    BY DEF Database, Card, members
  <2>3. DefaultIds \subseteq Ids
    BY ConstantsOK DEF DefaultIds
  <2> QED
    BY <2>1, <2>2, <2>3, AnswersTyped
<1>3. o.ans \in Answers
  <2>1. CASE o \in list_cards
    <3>1. PICK l \in get_card_list_json :
             o = Outcome(cards, [Ok(200) EXCEPT !.list = l.list, !.json = l.json])
      BY <2>1 DEF list_cards
    <3>2. l.list \in SUBSET Ids /\ l.json \in BOOLEAN
      <4>1. PICK b \in BOOLEAN : b = (\A c \in cards : c.name = "plain")
        OBVIOUS
      <4>2. l \in {Unlisted, [list |-> members, json |-> b]}
        BY <3>1, <4>1 DEF get_card_list_json, NoHeap
      <4>3. Unlisted.list = {} /\ Unlisted.json = TRUE
        BY DEF Unlisted
      <4>4. CASE l = Unlisted
        BY <4>3, <4>4
      <4>5. CASE l = [list |-> members, json |-> b]
        BY <1>2, <4>5
      <4> QED
        BY <4>2, <4>4, <4>5
    <3>3. [Ok(200) EXCEPT !.list = l.list, !.json = l.json] \in Answers
      BY <1>2, <3>2 DEF Answers
    <3> QED
      BY <3>1, <3>3 DEF Outcome
  <2>2. CASE o \in get_default_cards
    BY <2>2, <1>2 DEF get_default_cards, Outcome, Answers
  <2>3. CASE o \in get_card_count
    BY <2>3, <1>2 DEF get_card_count, Outcome, Answers
  <2>4. CASE o \in check_card(n)
    BY <2>4, <1>2 DEF check_card, NoHeap, Outcome, Answers
  <2> QED
    BY <2>1, <2>2, <2>3, <2>4
<1> QED
  BY <1>1, <1>3 DEF Sound

LEMMA HandledSound ==
    ASSUME Database(cards), NEW req,
           req.what \in {"count", "defaults", "list", "search", "check"} \cup Changing,
           req.n \in Int, req.name \in Names, NEW o \in Handled(req)
    PROVE  Sound(o)
<1>1. CASE req.what = "add"
  BY <1>1, AddSound DEF Handled
<1>2. CASE req.what = "remove"
  BY <1>2, RemoveSound DEF Handled
<1>3. CASE req.what = "reset"
  BY <1>3, ResetSound DEF Handled
<1>4. CASE req.what \in {"count", "defaults", "list", "search", "check"}
  BY <1>4, ReadSound DEF Handled
<1> QED
  BY <1>1, <1>2, <1>3, <1>4 DEF Changing

-----------------------------------------------------------------------------
(* The requests under way.                                                  *)

LEMMA Fields ==
    ASSUME NEW r \in Sent
    PROVE  /\ \A q \in Queries \cup {""} : [r EXCEPT !.query = q] \in Sent
           /\ \A n \in Numbers \cup {0} : [r EXCEPT !.n = n] \in Sent
           /\ \A n \in Numbers \cup {0}, name \in Names : [r EXCEPT !.n = n, !.name = name] \in Sent
           /\ \A a \in Answers : [r EXCEPT !.ans = a] \in Sent
  BY DEF Sent

LEMMA Pair == ASSUME NEW S, NEW a \in S, NEW b \in S PROVE <<a, b>> \in Seq(S)
  OBVIOUS

LEMMA Requested ==
    /\ \A w \in {"count", "defaults", "list", "search"} \cup Changing : Request(w) \in Sent
    /\ \A v : Load(v) \in Sent
    /\ \A q \in Queries \cup {""} : [Request("search") EXCEPT !.query = q] \in Sent
<1>1. ASSUME NEW w \in {"count", "defaults", "list", "search"} \cup Changing
      PROVE  Request(w) \in Sent
  BY AnswersTyped DEF Request, Sent, Names
<1>2. \A v : Load(v) \in Sent
  BY <1>1 DEF Load
<1>3. ASSUME NEW q \in Queries \cup {""} PROVE [Request("search") EXCEPT !.query = q] \in Sent
  BY <1>1, Fields
<1> QED
  BY <1>1, <1>2, <1>3

LEMMA RestTyped ==
    ASSUME wire \in Seq(Sent), NEW k \in DOMAIN wire
    PROVE  Rest(k) \in Seq(Sent)
<1>1. k \in 1..Len(wire) /\ Len(wire) \in Nat
  OBVIOUS
<1>2. SubSeq(wire, 1, k - 1) \in Seq(Sent)
  BY <1>1, SubSeqProperties
<1>3. SubSeq(wire, k + 1, Len(wire)) \in Seq(Sent)
  BY <1>1, SubSeqProperties
<1> QED
  BY <1>2, <1>3, ConcatProperties DEF Rest, RemoveAt

LEMMA SearchTyped ==
    ASSUME TypeOK, NEW sent \in Seq(Sent), performSearch(sent)
    PROVE  wire' \in Seq(Sent) /\ isActive' \in BOOLEAN /\ query' \in Queries \cup {""}
<1>1. search_input \in Queries \cup {""}
  BY DEF TypeOK
<1>2. PICK r \in Sent : wire' = Append(sent, r)
  BY <1>1, Requested DEF performSearch
<1>3. wire' \in Seq(Sent)
  BY <1>2, AppendProperties
<1>4. isActive' \in BOOLEAN
  BY DEF performSearch
<1>5. query' = search_input
  BY DEF performSearch
<1> QED
  BY <1>1, <1>3, <1>4, <1>5

LEMMA RefreshTyped ==
    ASSUME TypeOK, NEW sent \in Seq(Sent), refreshCurrentView(sent)
    PROVE  wire' \in Seq(Sent) /\ isActive' \in BOOLEAN /\ query' \in Queries \cup {""}
<1>1. CASE performSearch(sent)
  BY <1>1, SearchTyped
<1>2. CASE wire' = Append(sent, Load(currentView)) /\ UNCHANGED <<isActive, query>>
  BY <1>2, Requested, AppendProperties DEF TypeOK
<1> QED
  BY <1>1, <1>2 DEF refreshCurrentView

-----------------------------------------------------------------------------
(* The inductive invariant.                                                 *)

WebInv == TypeOK /\ IsFiniteSet(cards) /\ AdminStays /\ ToggleLeadsAway

LEMMA WebInvDatabase == WebInv => Database(cards)
  BY DEF WebInv, TypeOK, AdminStays, members, Database, Card

LEMMA InitWeb == Init => WebInv
<1> SUFFICES ASSUME Init PROVE WebInv
  OBVIOUS
<1>1. Database(cards)
  <2>1. Len(Defaults) \in 1..Len(Defaults)
    BY ConstantsOK
  <2> QED
    BY <2>1, RestoredSound DEF Init, HttpInit
<1>2. wire \in Seq(Sent)
  <2>1. Request("count") \in Sent /\ Request("defaults") \in Sent
    BY Requested
  <2> QED
    BY <2>1, Pair DEF Init
<1>3. TypeOK
  <2>1. cards \subseteq [id : Ids, name : Names]
    BY <1>1 DEF Database, Card
  <2>2. table \in [kind : {"loading", "defaults", "all", "search", "error"},
                   list : SUBSET Ids, query : Queries \cup {""}]
    BY DEF Init
  <2>3. count \in Int /\ clicks \in Nat
    <3>1. -1 \in Int /\ 0 \in Nat
      OBVIOUS
    <3>2. count = -1 /\ clicks = 0
      BY DEF Init
    <3> QED
      BY <3>1, <3>2
  <2> QED
    BY <2>1, <2>2, <2>3, <1>2 DEF Init, TypeOK, Sent, Views, Types
<1> QED
  BY <1>1, <1>3 DEF WebInv, Database, AdminStays, members, ToggleLeadsAway, Init, Views

\* A click changes neither the database nor what is shown.
LEMMA ClickWeb ==
    ASSUME WebInv, UNCHANGED <<cards, onclick, shown, overtook, missed>>, clicks' \in Nat,
           currentView' \in Views, wire' \in Seq(Sent), isActive' \in BOOLEAN,
           query' \in Queries \cup {""}, type' \in Types,
           search_input' \in Queries \cup {""}, searchTimeout' \in BOOLEAN
    PROVE  WebInv'
  BY DEF WebInv, TypeOK, shown, AdminStays, members, ToggleLeadsAway, Sent

LEMMA UserWeb == ASSUME WebInv, User PROVE WebInv'
<1>0. /\ TypeOK /\ wire \in Seq(Sent) /\ clicks \in Nat /\ onclick \in Views
  BY DEF WebInv, TypeOK, Sent
<1>1. Click
  BY DEF User, ToggleView, addCard, removeCard, resetDatabase, TypeQuery, EnterKey,
         clearSearch, ChangeType
<1>2. UNCHANGED <<cards, onclick, shown, overtook, missed>> /\ clicks' \in Nat
  BY <1>0, <1>1 DEF Click
<1>3. CASE ToggleView
  <2>1. currentView' \in Views /\ UNCHANGED search
    BY <1>0, <1>3 DEF ToggleView
  <2>2. wire' \in Seq(Sent)
    BY <1>0, <1>3, Requested, AppendProperties DEF ToggleView
  <2> QED
    BY <1>0, <1>2, <2>1, <2>2, ClickWeb DEF search, TypeOK
<1>4. CASE addCard \/ removeCard \/ resetDatabase
  <2>1. PICK r \in Sent : Send(r)
    <3>1. CASE addCard
      <4>1. PICK n \in Numbers, name \in Names : Send([Request("add") EXCEPT !.n = n, !.name = name])
        BY <3>1 DEF addCard
      <4>2. Request("add") \in Sent
        BY Requested DEF Changing
      <4> QED
        BY <4>1, <4>2, Fields
    <3>2. CASE removeCard
      <4>1. PICK n \in Numbers : Send([Request("remove") EXCEPT !.n = n])
        BY <3>2 DEF removeCard
      <4>2. Request("remove") \in Sent
        BY Requested DEF Changing
      <4> QED
        BY <4>1, <4>2, Fields
    <3>3. CASE resetDatabase
      BY <3>3, Requested DEF resetDatabase, Changing
    <3> QED
      BY <1>4, <3>1, <3>2, <3>3
  <2>2. wire' \in Seq(Sent) /\ UNCHANGED <<currentView, search>>
    BY <1>0, <2>1, AppendProperties DEF Send
  <2> QED
    BY <1>0, <1>2, <2>2, ClickWeb DEF search, TypeOK
<1>5. CASE TypeQuery
  BY <1>0, <1>2, <1>5, ClickWeb DEF TypeQuery, TypeOK
<1>6. CASE EnterKey
  <2>1. performSearch(wire) /\ searchTimeout' = FALSE /\ UNCHANGED <<currentView, type, search_input>>
    BY <1>6 DEF EnterKey
  <2> QED
    BY <1>0, <1>2, <2>1, SearchTyped, ClickWeb DEF TypeOK
<1>7. CASE clearSearch
  <2>1. wire' \in Seq(Sent)
    BY <1>0, <1>7, Requested, AppendProperties DEF clearSearch
  <2> QED
    BY <1>0, <1>2, <1>7, <2>1, ClickWeb DEF clearSearch, TypeOK
<1>8. CASE ChangeType
  <2>1. <<Load(currentView), Load(currentView)>> \in Seq(Sent)
    BY Requested, Pair
  <2>2. wire' \in Seq(Sent)
    BY <1>0, <1>8, <2>1, ConcatProperties DEF ChangeType
  <2> QED
    BY <1>0, <1>2, <1>8, <2>2, ClickWeb DEF ChangeType, TypeOK
<1> QED
  BY <1>3, <1>4, <1>5, <1>6, <1>7, <1>8 DEF User

LEMMA ServeWeb == ASSUME WebInv, NEW k \in DOMAIN wire, Serve(k) PROVE WebInv'
<1>0. TypeOK /\ wire \in Seq(Sent) /\ Numbers \subseteq Int
  BY ConstantsOK DEF WebInv, TypeOK, Sent
<1>1. PICK o \in Handled(wire[k]) :
         /\ cards' = o.cards /\ wire' = [wire EXCEPT ![k].ans = o.ans]
         /\ missed' = (missed \/ (o.cards # cards /\ o.ans.status = 500))
  BY DEF Serve
<1>2. wire[k] \in Sent
  BY <1>0
<1>3. /\ wire[k].what \in {"count", "defaults", "list", "search", "check"} \cup Changing
      /\ wire[k].n \in Int /\ wire[k].name \in Names
  <2>1. \A n \in Numbers \cup {0} : n \in Int
    BY <1>0
  <2> QED
    BY <1>2, <2>1 DEF Sent
<1>4. Sound(o)
  BY <1>3, WebInvDatabase, HandledSound
<1>5. wire' \in Seq(Sent)
  <2>1. [wire[k] EXCEPT !.ans = o.ans] \in Sent
    BY <1>2, <1>4 DEF Sound, Sent
  <2>2. wire' = [wire EXCEPT ![k] = [wire[k] EXCEPT !.ans = o.ans]]
    BY <1>1
  <2> QED
    BY <1>0, <2>1, <2>2, ExceptSeq
<1>6. UNCHANGED <<view, search, shown, clicks, overtook>>
  BY DEF Serve
<1>7. TypeOK'
  BY <1>0, <1>1, <1>4, <1>5, <1>6
     DEF TypeOK, Sound, Database, Card, Sent, view, search, shown
<1> QED
  BY <1>1, <1>4, <1>6, <1>7
     DEF WebInv, Sound, Database, AdminStays, members, ToggleLeadsAway, view, shown

LEMMA LoseWeb == ASSUME WebInv, NEW k \in DOMAIN wire, Lose(k) PROVE WebInv'
<1>0. TypeOK /\ wire \in Seq(Sent)
  BY DEF WebInv, TypeOK, Sent
<1>1. wire[k] \in Sent
  BY <1>0
<1>2. [wire[k] EXCEPT !.ans = Failed(-1)] \in Sent
  <2>1. -1 \in Int
    OBVIOUS
  <2>2. Failed(-1) \in Answers
    BY <2>1, AnswersTyped
  <2> QED
    BY <1>1, <2>2, Fields
<1>3. wire' \in Seq(Sent)
  <2>1. wire' = [wire EXCEPT ![k] = [wire[k] EXCEPT !.ans = Failed(-1)]]
    BY DEF Lose
  <2> QED
    BY <1>0, <1>2, <2>1, ExceptSeq
<1>4. UNCHANGED <<cards, view, search, shown, clicks, overtook>> /\ missed' \in BOOLEAN
  BY <1>0 DEF Lose, TypeOK
<1> QED
  BY <1>0, <1>3, <1>4
     DEF WebInv, TypeOK, Sent, view, search, shown, AdminStays, members, ToggleLeadsAway

LEMMA ClientWeb == ASSUME WebInv, Client PROVE WebInv'
<1>0. TypeOK /\ wire \in Seq(Sent) /\ Numbers \subseteq Int
  BY ConstantsOK DEF WebInv, TypeOK, Sent
<1>1. PICK w \in Changing \cup {"check"}, n \in Numbers, name \in Names :
        \E o \in Handled([Request(w) EXCEPT !.n = n, !.name = name]) :
          cards' = o.cards /\ missed' = (missed \/ o.cards # cards)
  BY DEF Client
<1> DEFINE req == [Request(w) EXCEPT !.n = n, !.name = name]
<1>2. req.what = w /\ req.n = n /\ req.name = name
  BY DEF Request
<1>3. PICK o \in Handled(req) : cards' = o.cards /\ missed' = (missed \/ o.cards # cards)
  BY <1>1
<1>4. Sound(o)
  <2> HIDE DEF req
  <2> QED
    BY <1>0, <1>2, WebInvDatabase, HandledSound
<1>5. UNCHANGED <<view, search, shown, wire, overtook>> /\ clicks' \in Nat
  <2>1. clicks' = clicks + 1 /\ clicks \in Nat
    BY <1>0 DEF Client, TypeOK
  <2> QED
    BY <2>1 DEF Client
<1>6. TypeOK'
  BY <1>0, <1>3, <1>4, <1>5 DEF TypeOK, Sound, Database, Card, view, search, shown
<1> QED
  BY <1>3, <1>4, <1>5, <1>6
     DEF WebInv, Sound, Database, AdminStays, members, ToggleLeadsAway, view, shown

LEMMA ArrivesWeb ==
    ASSUME WebInv, NEW k \in DOMAIN wire, Arrives(k),
           wire' \in Seq(Sent), onclick' \in Views, count' \in Int,
           table' \in [kind : {"loading", "defaults", "all", "search", "error"},
                       list : SUBSET Ids, query : Queries \cup {""}],
           isActive' \in BOOLEAN, query' \in Queries \cup {""},
           UNCHANGED <<type, search_input, searchTimeout>>, ToggleLeadsAway'
    PROVE  WebInv'
<1>1. UNCHANGED <<cards, currentView, clicks, missed>> /\ overtook' \in BOOLEAN
  BY DEF Arrives, WebInv, TypeOK
<1> QED
  BY <1>1 DEF WebInv, TypeOK, Sent, AdminStays, members

LEMMA CallbackWeb == ASSUME WebInv, NEW k \in DOMAIN wire, Callback(k) PROVE WebInv'
<1>0. TypeOK /\ wire \in Seq(Sent) /\ ToggleLeadsAway
  BY DEF WebInv, TypeOK, Sent
<1>1. wire[k] \in Sent /\ Rest(k) \in Seq(Sent)
  BY <1>0, RestTyped
<1>2. /\ wire[k].ans.list \in SUBSET Ids /\ wire[k].ans.num \in Int
      /\ wire[k].query \in Queries \cup {""}
  <2>1. wire[k].ans \in Answers /\ wire[k].query \in Queries \cup {""}
    BY <1>1 DEF Sent
  <2>2. wire[k].ans.list \in SUBSET Ids
    BY <2>1 DEF Answers
  <2>3. wire[k].ans.num \in Int
    <3>1. wire[k].ans.num \in Nat
      BY <2>1 DEF Answers
    <3>2. \A n \in Nat : n \in Int
      OBVIOUS
    <3> QED
      BY <3>1, <3>2, Zenon
  <2> QED
    BY <2>1, <2>2, <2>3, Zenon
<1>3. Arrives(k)
  BY DEF Callback, ShowCount, ShowView, ShowSearch, ShowError, Changed, NotChanged
<1>4. CASE ShowCount(k)
  <2>1. count' \in Int
    <3>1. -1 \in Int
      OBVIOUS
    <3>2. count' = IF Succeeded(wire[k].ans) THEN wire[k].ans.num ELSE -1
      BY <1>4 DEF ShowCount
    <3> QED
      BY <1>2, <3>1, <3>2
  <2>2. wire' \in Seq(Sent) /\ UNCHANGED <<onclick, table, search>>
    BY <1>1, <1>4 DEF ShowCount
  <2> QED
    BY <1>0, <1>3, <2>1, <2>2, ArrivesWeb DEF search, TypeOK, ToggleLeadsAway
<1>5. CASE ShowView(k)
  <2>1. onclick' \in Views /\ wire' \in Seq(Sent) /\ UNCHANGED <<count, search>>
    BY <1>1, <1>5 DEF ShowView, Views, Other, ViewOf
  <2>2. /\ table' = [kind |-> ViewOf(wire[k]), list |-> wire[k].ans.list, query |-> ""]
        /\ ViewOf(wire[k]) \in Views /\ onclick' # ViewOf(wire[k])
    BY <1>5 DEF ShowView, Display, Views, Other, ViewOf
  <2>3. table' \in [kind : {"loading", "defaults", "all", "search", "error"},
                   list : SUBSET Ids, query : Queries \cup {""}]
    BY <1>2, <2>1, <2>2 DEF Views
  <2>4. ToggleLeadsAway'
    BY <2>2 DEF ToggleLeadsAway
  <2> QED
    BY <1>0, <1>3, <2>1, <2>3, <2>4, ArrivesWeb DEF search, TypeOK
<1>6. CASE ShowSearch(k)
  <2>1. wire' \in Seq(Sent) /\ UNCHANGED <<onclick, count, search>>
    BY <1>1, <1>6 DEF ShowSearch
  <2>2. PICK L \in SUBSET Ids : table' = [kind |-> "search", list |-> L, query |-> wire[k].query]
    BY <1>2, <1>6 DEF ShowSearch, Display
  <2>3. table' \in [kind : {"loading", "defaults", "all", "search", "error"},
                   list : SUBSET Ids, query : Queries \cup {""}]
    BY <1>2, <2>2
  <2>4. ToggleLeadsAway'
    BY <2>2 DEF ToggleLeadsAway, Views
  <2> QED
    BY <1>0, <1>3, <2>1, <2>3, <2>4, ArrivesWeb DEF search, TypeOK
<1>7. CASE ShowError(k)
  <2>1. wire' \in Seq(Sent) /\ UNCHANGED <<onclick, count, search>>
    BY <1>1, <1>7 DEF ShowError
  <2>2. table' = [kind |-> "error", list |-> {}, query |-> ""]
    BY <1>7 DEF ShowError, Display
  <2>3. table' \in [kind : {"loading", "defaults", "all", "search", "error"},
                   list : SUBSET Ids, query : Queries \cup {""}]
    BY <2>2
  <2>4. ToggleLeadsAway'
    BY <2>2 DEF ToggleLeadsAway, Views
  <2> QED
    BY <1>0, <1>3, <2>1, <2>3, <2>4, ArrivesWeb DEF search, TypeOK
<1>8. CASE Changed(k)
  <2>1. Append(Rest(k), Request("count")) \in Seq(Sent)
    BY <1>1, Requested, AppendProperties
  <2>2. /\ refreshCurrentView(Append(Rest(k), Request("count")))
        /\ UNCHANGED <<onclick, shown, type, search_input, searchTimeout>>
    BY <1>8 DEF Changed
  <2>3. wire' \in Seq(Sent) /\ isActive' \in BOOLEAN /\ query' \in Queries \cup {""}
    BY <1>0, <2>1, <2>2, RefreshTyped
  <2> QED
    BY <1>0, <1>3, <2>2, <2>3, ArrivesWeb DEF shown, TypeOK, ToggleLeadsAway
<1>9. CASE NotChanged(k)
  <2>1. wire' \in Seq(Sent) /\ UNCHANGED <<onclick, shown, search>>
    BY <1>1, <1>9 DEF NotChanged
  <2> QED
    BY <1>0, <1>3, <2>1, ArrivesWeb DEF shown, search, TypeOK, ToggleLeadsAway
<1> QED
  BY <1>4, <1>5, <1>6, <1>7, <1>8, <1>9 DEF Callback

LEMMA DebounceWeb == ASSUME WebInv, DebounceFires PROVE WebInv'
<1>0. TypeOK /\ wire \in Seq(Sent)
  BY DEF WebInv, TypeOK, Sent
<1>1. /\ performSearch(wire) /\ searchTimeout' = FALSE
      /\ UNCHANGED <<cards, view, shown, type, search_input, history>>
  BY DEF DebounceFires
<1>2. wire' \in Seq(Sent) /\ isActive' \in BOOLEAN /\ query' \in Queries \cup {""}
  BY <1>0, <1>1, SearchTyped
<1> QED
  BY <1>0, <1>1, <1>2 DEF WebInv, TypeOK, Sent, view, shown, history, AdminStays, members,
     ToggleLeadsAway

LEMMA NextWeb == WebInv /\ [Next]_vars => WebInv'
<1> SUFFICES ASSUME WebInv, [Next]_vars PROVE WebInv'
  OBVIOUS
<1>1. CASE User \/ DebounceFires \/ Client
  BY <1>1, UserWeb, DebounceWeb, ClientWeb
<1>2. ASSUME NEW k \in DOMAIN wire, Serve(k) \/ Lose(k) \/ Callback(k) PROVE WebInv'
  BY <1>2, ServeWeb, LoseWeb, CallbackWeb
<1>3. CASE UNCHANGED vars
  BY <1>3 DEF WebInv, TypeOK, AdminStays, members, ToggleLeadsAway, vars, view, search, shown,
              history
<1> QED
  BY <1>1, <1>2, <1>3 DEF Next

\* What rfid.js, app_local_server.c and other clients keep true at every step.
THEOREM WebInvariance == Spec => []WebInv
  BY InitWeb, NextWeb, PTL DEF Spec

\* Every variable has its type; in particular what the conversions of a request's
\* number leave in the database is always an id of 32 bits and not 0.
THEOREM WebTypeCorrect == Spec => []TypeOK
<1>1. WebInv => TypeOK
  BY DEF WebInv
<1> QED
  BY WebInvariance, <1>1, PTL

\* The admin card survives every request, from the page or past it, whatever
\* number it carries, and every reset, wherever it runs out of heap.
THEOREM AdminProtected == Spec => []AdminStays
<1>1. WebInv => AdminStays
  BY DEF WebInv
<1> QED
  BY WebInvariance, <1>1, PTL

\* The onclick that updateViewButton of rfid.js sets keeps up with the table
\* under every order of answers, for any number of requests under way: a click
\* always loads the view that is not in the table.  The label is not claimed.
THEOREM ToggleRight == Spec => []ToggleLeadsAway
<1>1. WebInv => ToggleLeadsAway
  BY DEF WebInv
<1> QED
  BY WebInvariance, <1>1, PTL

-----------------------------------------------------------------------------
(* The newest request of some kinds: what will be shown last, if no answer  *)
(* overtakes another.                                                       *)

None(w, S) == \A j \in DOMAIN w : w[j].what \notin S
\* The last request under way whose kind is in S, in a set of its own; {} without one.
Newest(w, S) == {w[k] : k \in {k \in DOMAIN w :
                     w[k].what \in S /\ \A j \in DOMAIN w : w[j].what \in S => j <= k}}

LEMMA AppendAt ==
    ASSUME NEW w \in Seq(Sent), NEW r \in Sent
    PROVE  /\ Append(w, r) \in Seq(Sent) /\ Len(w) \in Nat /\ Len(Append(w, r)) = Len(w) + 1
           /\ DOMAIN w = 1..Len(w) /\ DOMAIN Append(w, r) = 1..(Len(w) + 1)
           /\ \A i \in DOMAIN w : Append(w, r)[i] = w[i]
           /\ Append(w, r)[Len(w) + 1] = r
  BY AppendProperties, LenProperties

LEMMA NewestAppended ==
    ASSUME NEW w \in Seq(Sent), NEW r \in Sent, NEW S, r.what \in S
    PROVE  Newest(Append(w, r), S) \subseteq {r} /\ ~None(Append(w, r), S)
<1> DEFINE v == Append(w, r)
<1>1. Len(w) + 1 \in DOMAIN v /\ v[Len(w) + 1] = r
  BY AppendAt
<1>2. ASSUME NEW k \in DOMAIN v, \A j \in DOMAIN v : v[j].what \in S => j <= k PROVE v[k] = r
  <2>1. Len(w) + 1 <= k /\ k \in 1..(Len(w) + 1) /\ Len(w) \in Nat
    BY <1>1, <1>2, AppendAt
  <2>2. k = Len(w) + 1
    BY <2>1
  <2> QED
    BY <1>1, <2>2
<1> HIDE DEF v
<1>3. Newest(v, S) \subseteq {r} /\ ~None(v, S)
  BY <1>1, <1>2 DEF Newest, None
<1> QED
  BY <1>3 DEF v

LEMMA NewestKept ==
    ASSUME NEW w \in Seq(Sent), NEW r \in Sent, NEW S, r.what \notin S
    PROVE  /\ Newest(Append(w, r), S) \subseteq Newest(w, S)
           /\ None(Append(w, r), S) => None(w, S)
<1> DEFINE v == Append(w, r)
<1>1. \A i \in DOMAIN w : i \in DOMAIN v /\ v[i] = w[i]
  BY AppendAt
<1>2. \A i \in DOMAIN v : v[i].what \in S => i \in DOMAIN w
  <2>1. ASSUME NEW i \in DOMAIN v, i \notin DOMAIN w PROVE i = Len(w) + 1
    BY <2>1, AppendAt
  <2>2. v[Len(w) + 1] = r
    BY AppendAt
  <2> QED
    BY <2>1, <2>2
<1> HIDE DEF v
<1>3. Newest(v, S) \subseteq Newest(w, S) /\ (None(v, S) => None(w, S))
  BY <1>1, <1>2 DEF Newest, None
<1> QED
  BY <1>3 DEF v

LEMMA RestAt ==
    ASSUME NEW w \in Seq(Sent), NEW k \in DOMAIN w
    PROVE  /\ DOMAIN RemoveAt(w, k) = 1..(Len(w) - 1)
           /\ Len(w) \in Nat /\ DOMAIN w = 1..Len(w)
           /\ \A i \in 1..(Len(w) - 1) : RemoveAt(w, k)[i] = IF i < k THEN w[i] ELSE w[i + 1]
<1> DEFINE a == SubSeq(w, 1, k - 1)
           b == SubSeq(w, k + 1, Len(w))
<1>1. k \in 1..Len(w) /\ Len(w) \in Nat /\ DOMAIN w = 1..Len(w)
  BY LenProperties
<1>2. a \in Seq(Sent) /\ Len(a) = k - 1 /\ \A i \in 1..(k - 1) : a[i] = w[i]
  BY <1>1, SubSeqProperties
<1>3. b \in Seq(Sent) /\ Len(b) = Len(w) - k /\ \A i \in 1..(Len(w) - k) : b[i] = w[k + i]
  BY <1>1, SubSeqProperties
<1> HIDE DEF a, b
<1>4. /\ a \o b \in Seq(Sent) /\ Len(a \o b) = Len(w) - 1
      /\ \A i \in 1..(Len(w) - 1) : (a \o b)[i] = IF i <= k - 1 THEN a[i] ELSE b[i - (k - 1)]
  <2>1. Len(a) + Len(b) = Len(w) - 1
    BY <1>1, <1>2, <1>3
  <2>2. /\ a \o b \in Seq(Sent) /\ Len(a \o b) = Len(a) + Len(b)
        /\ \A i \in 1..(Len(a) + Len(b)) : (a \o b)[i] = IF i <= Len(a) THEN a[i] ELSE b[i - Len(a)]
    BY <1>2, <1>3, ConcatProperties
  <2> QED
    BY <1>2, <2>1, <2>2, Zenon
<1>5. ASSUME NEW i \in 1..(Len(w) - 1) PROVE (a \o b)[i] = IF i < k THEN w[i] ELSE w[i + 1]
  <2>1. CASE i < k
    <3>1. i \in 1..(k - 1) /\ i <= k - 1
      BY <1>1, <2>1
    <3> QED
      BY <1>2, <1>4, <2>1, <3>1
  <2>2. CASE ~(i < k)
    <3>1. i - (k - 1) \in 1..(Len(w) - k) /\ ~(i <= k - 1) /\ k + (i - (k - 1)) = i + 1
      BY <1>1, <2>2
    <3>2. (a \o b)[i] = b[i - (k - 1)]
      BY <1>4, <3>1
    <3>3. b[i - (k - 1)] = w[i + 1]
      BY <1>3, <3>1
    <3> QED
      BY <2>2, <3>2, <3>3
  <2> QED
    BY <2>1, <2>2
<1>6. RemoveAt(w, k) = a \o b
  BY DEF RemoveAt, a, b
<1>7. DOMAIN (a \o b) = 1..(Len(w) - 1)
  BY <1>4, LenProperties
<1> QED
  BY <1>1, <1>5, <1>6, <1>7

\* The requests that remain when the k-th has been answered: place(i) is where the
\* i-th of them was before.
LEMMA RestPlaces ==
    ASSUME NEW w \in Seq(Sent), NEW k \in DOMAIN w
    PROVE  /\ \A i \in DOMAIN RemoveAt(w, k) : \E j \in DOMAIN w \ {k} :
                /\ RemoveAt(w, k)[i] = w[j] /\ j = IF i < k THEN i ELSE i + 1
           /\ \A j \in DOMAIN w \ {k} : \E i \in DOMAIN RemoveAt(w, k) :
                /\ RemoveAt(w, k)[i] = w[j] /\ i = IF j < k THEN j ELSE j - 1
<1> DEFINE v == RemoveAt(w, k)
           n == Len(w)
<1>1. /\ DOMAIN v = 1..(n - 1) /\ n \in Nat /\ DOMAIN w = 1..n /\ k \in 1..n
      /\ \A i \in 1..(n - 1) : v[i] = IF i < k THEN w[i] ELSE w[i + 1]
  BY RestAt
<1> HIDE DEF v, n
<1>2. ASSUME NEW i \in DOMAIN v
      PROVE \E j \in DOMAIN w \ {k} : v[i] = w[j] /\ j = IF i < k THEN i ELSE i + 1
  <2>1. (IF i < k THEN i ELSE i + 1) \in DOMAIN w \ {k}
    BY <1>1, <1>2
  <2> QED
    BY <1>1, <1>2, <2>1
<1>3. ASSUME NEW j \in DOMAIN w \ {k}
      PROVE \E i \in DOMAIN v : v[i] = w[j] /\ i = IF j < k THEN j ELSE j - 1
  <2>1. CASE j < k
    <3>1. j \in 1..(n - 1)
      BY <1>1, <1>3, <2>1
    <3> QED
      BY <1>1, <2>1, <3>1
  <2>2. CASE ~(j < k)
    <3>1. j - 1 \in 1..(n - 1) /\ ~(j - 1 < k) /\ (j - 1) + 1 = j
      BY <1>1, <1>3, <2>2
    <3> QED
      BY <1>1, <2>2, <3>1
  <2> QED
    BY <2>1, <2>2
<1> QED
  BY <1>2, <1>3 DEF v

LEMMA NewestRest ==
    ASSUME NEW w \in Seq(Sent), NEW k \in DOMAIN w, NEW S,
           w[k].what \in S => \A j \in 1..(k - 1) : w[j].what \notin S
    PROVE  /\ Newest(RemoveAt(w, k), S) \subseteq Newest(w, S)
           /\ None(RemoveAt(w, k), S) /\ w[k].what \notin S => None(w, S)
           /\ None(RemoveAt(w, k), S) /\ w[k].what \in S => w[k] \in Newest(w, S)
<1> DEFINE v == RemoveAt(w, k)
<1>0. /\ k \in Nat /\ k >= 1 /\ \A j \in DOMAIN w : j \in Nat /\ j >= 1
      /\ \A i \in DOMAIN v : i \in Nat
  BY RestAt
<1>1. \A i \in DOMAIN v : \E j \in DOMAIN w \ {k} :
        v[i] = w[j] /\ j = IF i < k THEN i ELSE i + 1
  BY RestPlaces
<1>2. \A j \in DOMAIN w \ {k} : \E i \in DOMAIN v :
        v[i] = w[j] /\ i = IF j < k THEN j ELSE j - 1
  BY RestPlaces
<1> HIDE DEF v
<1>3. ASSUME NEW i \in DOMAIN v, v[i].what \in S,
             \A h \in DOMAIN v : v[h].what \in S => h <= i
      PROVE  v[i] \in Newest(w, S)
  <2>1. PICK j \in DOMAIN w \ {k} : v[i] = w[j] /\ j = IF i < k THEN i ELSE i + 1
    BY <1>1, <1>3
  <2>2. ASSUME NEW h \in DOMAIN w, w[h].what \in S PROVE h <= j
    <3>1. CASE h = k
      <4>1. ~(j < k)
        <5>1. ASSUME j < k PROVE j \in 1..(k - 1)
          BY <1>0, <5>1
        <5> QED
          BY <1>3, <2>1, <2>2, <3>1, <5>1
      <4> QED
        BY <1>0, <3>1, <4>1
    <3>2. CASE h # k
      <4>1. PICK g \in DOMAIN v : v[g] = w[h] /\ g = IF h < k THEN h ELSE h - 1
        BY <1>2, <2>2, <3>2
      <4>2. g <= i
        BY <1>3, <2>2, <4>1
      <4>3. h \in Nat /\ g \in Nat /\ i \in Nat /\ j \in Nat
        BY <1>0
      <4> QED
        BY <1>0, <2>1, <3>2, <4>1, <4>2, <4>3
    <3> QED
      BY <3>1, <3>2
  <2> QED
    BY <1>3, <2>1, <2>2 DEF Newest
<1>4. Newest(v, S) \subseteq Newest(w, S)
  BY <1>3 DEF Newest
<1>5. None(v, S) => \A j \in DOMAIN w \ {k} : w[j].what \notin S
  BY <1>2 DEF None
<1>6. None(v, S) /\ w[k].what \notin S => None(w, S)
  BY <1>5 DEF None
<1>7. None(v, S) /\ w[k].what \in S => w[k] \in Newest(w, S)
  <2> SUFFICES ASSUME None(v, S), w[k].what \in S PROVE w[k] \in Newest(w, S)
    OBVIOUS
  <2>1. \A j \in DOMAIN w : w[j].what \in S => j <= k
    BY <1>0, <1>5
  <2> QED
    BY <2>1 DEF Newest
<1> QED
  BY <1>4, <1>6, <1>7 DEF v

LEMMA NewestAnswered ==
    ASSUME NEW w \in Seq(Sent), NEW k \in DOMAIN w, NEW a, NEW S
    PROVE  LET v == [w EXCEPT ![k].ans = a]
           IN  /\ \A r \in Newest(v, S) :
                    r \in Newest(w, S) \/ (r = [w[k] EXCEPT !.ans = a] /\ w[k] \in Newest(w, S))
               /\ None(v, S) => None(w, S)
<1> DEFINE v == [w EXCEPT ![k].ans = a]
<1>1. DOMAIN v = DOMAIN w /\ \A j \in DOMAIN w : v[j] = IF j = k THEN [w[k] EXCEPT !.ans = a] ELSE w[j]
  OBVIOUS
<1>2. \A j \in DOMAIN w : v[j].what = w[j].what
  <2>1. w[k] \in Sent
    OBVIOUS
  <2>2. [w[k] EXCEPT !.ans = a].what = w[k].what
    BY <2>1 DEF Sent
  <2>3. ASSUME NEW j \in DOMAIN w PROVE v[j].what = w[j].what
    <3>1. CASE j = k
      BY <1>1, <2>2, <3>1
    <3>2. CASE j # k
      BY <1>1, <3>2
    <3> QED
      BY <3>1, <3>2
  <2> QED
    BY <2>3
<1> HIDE DEF v
<1>3. ASSUME NEW j \in DOMAIN v, v[j].what \in S, \A h \in DOMAIN v : v[h].what \in S => h <= j
      PROVE  v[j] \in Newest(w, S) \/ (v[j] = [w[k] EXCEPT !.ans = a] /\ w[k] \in Newest(w, S))
  <2>1. w[j] \in Newest(w, S)
    BY <1>1, <1>2, <1>3 DEF Newest
  <2>2. CASE j = k
    BY <1>1, <2>1, <2>2
  <2>3. CASE j # k
    <3>1. j \in DOMAIN w /\ v[j] = w[j]
      BY <1>1, <1>3, <2>3
    <3>2. v[j] \in Newest(w, S)
      BY <2>1, <3>1
    <3> QED
      BY <3>2
  <2> QED
    BY <2>2, <2>3
<1>4. \A r \in Newest(v, S) :
        r \in Newest(w, S) \/ (r = [w[k] EXCEPT !.ans = a] /\ w[k] \in Newest(w, S))
  BY <1>3 DEF Newest
<1>5. None(v, S) => None(w, S)
  BY <1>1, <1>2 DEF None
<1> QED
  BY <1>4, <1>5 DEF v

-----------------------------------------------------------------------------
(* The view that the page settles to.                                       *)

\* An answer to r will show what the page is set to.
Fits(r) ==
    /\ r.what = "search" => isActive /\ r.query = query
    /\ r.what = "defaults" => currentView = "defaults"
    /\ r.what = "list" => currentView = "all"

TableFits ==
    /\ table.kind = "search" => isActive /\ table.query = query
    /\ table.kind \in Views => table.kind = currentView

\* The debounce timer runs while the box and the search differ.
SearchOK == (isActive <=> query # "") /\ (~searchTimeout => query = search_input)

\* What is asked for last fits, and the table when nothing is asked for.
Chosen ==
    ~overtook => /\ \A r \in Newest(wire, Lists) : Fits(r)
                 /\ None(wire, Lists) => TableFits

-----------------------------------------------------------------------------
(* The database that the page settles to.                                   *)

\* The device has made a change and the page is about to hear of it.
Told(r) == r.what \in Changing /\ Succeeded(r.ans)
UpToDate == ~overtook /\ ~missed /\ \A k \in DOMAIN wire : ~Told(wire[k])

Listed == IF Cardinality(cards) > ListMax THEN {} ELSE members

\* An answer to r that has arrived says what the database holds now.
Reports(r) ==
    Succeeded(r.ans) =>
        /\ r.what \in {"list", "search"} => r.ans.list \in {Listed, {}}
        /\ r.what = "count" => r.ans.num = Cardinality(cards)

TableTrue ==
    /\ table.kind = "all" => table.list \in {Listed, {}}
    /\ table.kind = "search" => table.list \in {Listed \cap Hits[type][table.query], {}}

CountTrue == count \in {Cardinality(cards), -1}

Tracked ==
    UpToDate => /\ \A r \in Newest(wire, Lists) \cup Newest(wire, {"count"}) : Reports(r)
                /\ None(wire, Lists) => TableTrue
                /\ None(wire, {"count"}) => CountTrue

PageInv == WebInv /\ SearchOK /\ Chosen /\ Tracked

LEMMA Unanswered == ~Succeeded(NoAnswer) /\ \A s \in Int \ {200, 201} : ~Succeeded(Failed(s))
<1>1. 0 \notin {200, 201} /\ NoAnswer.status = 0
  BY DEF NoAnswer
<1> QED
  BY <1>1, AnswersTyped DEF Succeeded

LEMMA ListsNotCount ==
    /\ "count" \notin Lists
    /\ \A w \in Changing : w \notin Lists /\ w \notin {"count"}
    /\ \A w \in Lists : w \notin {"count"} /\ w \notin Changing
  BY DEF Lists, Changing

LEMMA RequestIs == \A w : Request(w).what = w /\ Request(w).ans = NoAnswer
  BY DEF Request

\* A request for what the page is set to.
Asked(r) == r \in Sent /\ r.what \in Lists /\ r.ans = NoAnswer /\ Fits(r)

LEMMA LoadIs ==
    ASSUME NEW v \in Views
    PROVE  /\ Load(v) \in Sent /\ Load(v).ans = NoAnswer
           /\ Load(v).what = IF v = "defaults" THEN "defaults" ELSE "list"
  BY Requested, RequestIs DEF Load

LEMMA LoadAsked ==
    ASSUME NEW v \in Views
    PROVE  /\ currentView = v => Asked(Load(v))
           /\ currentView' = v => Asked(Load(v))'
  BY LoadIs DEF Asked, Fits, Lists, Views

LEMMA SearchAsks ==
    ASSUME TypeOK, NEW sent \in Seq(Sent), performSearch(sent), UNCHANGED currentView
    PROVE  /\ \E r : Asked(r)' /\ wire' = Append(sent, r)
           /\ isActive' <=> query' # ""
           /\ query' = search_input
<1>0. /\ isActive' = (search_input # "") /\ query' = search_input
      /\ search_input \in Queries \cup {""} /\ currentView \in Views
  BY DEF performSearch, TypeOK
<1>1. CASE search_input = ""
  <2>1. wire' = Append(sent, Load(currentView))
    BY <1>1 DEF performSearch
  <2>2. Asked(Load(currentView))
    BY <1>0, LoadAsked
  <2>3. Load(currentView).what # "search"
    BY DEF Load, Request
  <2>4. Asked(Load(currentView))'
    BY <2>2, <2>3 DEF Asked, Fits, Load
  <2>5. Load(currentView)' = Load(currentView)
    BY DEF Load
  <2> QED
    BY <1>0, <2>1, <2>4, <2>5
<1>2. CASE search_input # ""
  <2> DEFINE r == [Request("search") EXCEPT !.query = search_input]
  <2>1. wire' = Append(sent, r)
    BY <1>2 DEF performSearch
  <2>2. r \in Sent
    BY <1>0, Requested
  <2>3. r.what = "search" /\ r.query = search_input /\ r.ans = NoAnswer
    BY DEF Request
  <2>4. isActive' /\ query' = search_input
    BY <1>0, <1>2
  <2> HIDE DEF r
  <2>5. PICK q : q = r
    OBVIOUS
  <2>6. Asked(q)'
    BY <2>2, <2>3, <2>4, <2>5 DEF Asked, Fits, Lists
  <2> QED
    BY <1>0, <2>1, <2>5, <2>6
<1> QED
  BY <1>1, <1>2

-----------------------------------------------------------------------------
(* The steps.                                                               *)

LEMMA ChosenBy ==
    ASSUME NEW sent \in Seq(Sent), NEW r, Asked(r)', wire' = Append(sent, r)
    PROVE  /\ Chosen'
           /\ \A q \in Newest(wire', Lists) : ~Succeeded(q.ans)
           /\ ~None(wire', Lists)
<1>1. r \in Sent /\ r.what \in Lists /\ r.ans = NoAnswer /\ Fits(r)'
  BY DEF Asked
<1>2. Newest(wire', Lists) \subseteq {r} /\ ~None(wire', Lists)
  BY <1>1, NewestAppended
<1>3. Newest(wire, Lists)' = Newest(wire', Lists) /\ None(wire, Lists)' = None(wire', Lists)
  BY DEF Newest, None
<1>4. Chosen'
  BY <1>1, <1>2, <1>3 DEF Chosen
<1> QED
  BY <1>1, <1>2, <1>4, Unanswered

LEMMA TwoAppended ==
    ASSUME NEW w \in Seq(Sent), NEW a \in Sent, NEW b \in Sent
    PROVE  w \o <<a, b>> = Append(Append(w, a), b)
  OBVIOUS

\* A step that changes neither the database nor what is shown, and only adds requests
\* or fails them.
LEMMA TrackedKept ==
    ASSUME Tracked, UpToDate' => UpToDate, UNCHANGED <<cards, table, count>>,
           \A r \in Newest(wire', Lists) : r \in Newest(wire, Lists) \/ ~Succeeded(r.ans),
           \A r \in Newest(wire', {"count"}) : r \in Newest(wire, {"count"}) \/ ~Succeeded(r.ans),
           None(wire', Lists) => None(wire, Lists) /\ UNCHANGED type,
           None(wire', {"count"}) => None(wire, {"count"})
    PROVE  Tracked'
<1> SUFFICES ASSUME UpToDate'
             PROVE  /\ \A r \in Newest(wire', Lists) \cup Newest(wire', {"count"}) : Reports(r)'
                    /\ None(wire', Lists) => TableTrue'
                    /\ None(wire', {"count"}) => CountTrue'
  BY DEF Tracked, Newest, None
<1>1. /\ \A r \in Newest(wire, Lists) \cup Newest(wire, {"count"}) : Reports(r)
      /\ None(wire, Lists) => TableTrue
      /\ None(wire, {"count"}) => CountTrue
  BY DEF Tracked
<1>2. UNCHANGED Listed
  BY DEF Listed, members
<1>3. \A r : Reports(r) \/ ~Succeeded(r.ans) => Reports(r)'
  BY <1>2 DEF Reports
<1>4. None(wire', Lists) => TableTrue'
  BY <1>1, <1>2 DEF TableTrue
<1>5. None(wire', {"count"}) => CountTrue'
  BY <1>1 DEF CountTrue
<1> QED
  BY <1>1, <1>3, <1>4, <1>5

LEMMA UpToDateKept ==
    ASSUME UNCHANGED <<overtook, missed>>,
           \A i \in DOMAIN wire : i \in DOMAIN wire' /\ wire'[i] = wire[i]
    PROVE  UpToDate' => UpToDate
  BY DEF UpToDate, Told

\* A step that asks for the list again; "sent" is what is under way before that.
LEMMA AskedPage ==
    ASSUME Tracked, UNCHANGED <<cards, shown, overtook, missed>>,
           wire \in Seq(Sent), NEW sent \in Seq(Sent), NEW r, Asked(r)', wire' = Append(sent, r),
           \A i \in DOMAIN wire : i \in DOMAIN sent /\ sent[i] = wire[i],
           Newest(sent, {"count"}) \subseteq Newest(wire, {"count"}),
           None(sent, {"count"}) => None(wire, {"count"})
    PROVE  Chosen' /\ Tracked'
<1>1. /\ Chosen' /\ ~None(wire', Lists)
      /\ \A q \in Newest(wire', Lists) : ~Succeeded(q.ans)
  BY ChosenBy
<1>2. r \in Sent /\ r.what \notin {"count"}
  BY ListsNotCount DEF Asked
<1>3. /\ Newest(wire', {"count"}) \subseteq Newest(sent, {"count"})
      /\ None(wire', {"count"}) => None(sent, {"count"})
  BY <1>2, NewestKept
<1>4. \A i \in DOMAIN wire : i \in DOMAIN wire' /\ wire'[i] = wire[i]
  BY <1>2, AppendAt
<1>5. UpToDate' => UpToDate
  BY <1>4, UpToDateKept
<1>6. UNCHANGED <<cards, table, count>>
  BY DEF shown
<1>7. Tracked'
  BY <1>1, <1>3, <1>5, <1>6, TrackedKept
<1> QED
  BY <1>1, <1>7

\* A step that changes neither what is shown nor what is asked for.
LEMMA SamePage ==
    ASSUME Chosen, Tracked,
           UNCHANGED <<cards, currentView, isActive, query, type, shown, overtook, missed, wire>>
    PROVE  Chosen' /\ Tracked'
<1>1. Chosen'
  BY DEF Chosen, Newest, None, Fits, TableFits, shown
<1>2. UpToDate' => UpToDate
  BY DEF UpToDate, Told
<1>3. UNCHANGED <<cards, table, count>>
  BY DEF shown
<1>4. Tracked'
  BY <1>2, <1>3, TrackedKept
<1> QED
  BY <1>1, <1>4

LEMMA UserPage == ASSUME PageInv, User PROVE PageInv'
<1>0. /\ WebInv /\ TypeOK /\ wire \in Seq(Sent) /\ SearchOK /\ Chosen /\ Tracked
      /\ currentView \in Views /\ onclick \in Views
  BY DEF PageInv, WebInv, TypeOK, Sent
<1>1. Click
  BY DEF User, ToggleView, addCard, removeCard, resetDatabase, TypeQuery, EnterKey,
         clearSearch, ChangeType
<1>2. UNCHANGED <<cards, shown, overtook, missed>>
  BY <1>1 DEF Click
<1>3. WebInv'
  BY <1>0, UserWeb
<1>4. ASSUME NEW r, Asked(r)', wire' = Append(wire, r) PROVE Chosen' /\ Tracked'
  BY <1>0, <1>2, <1>4, AskedPage
<1>5. CASE ToggleView
  <2>1. currentView' \in Views /\ wire' = Append(wire, Load(currentView')) /\ UNCHANGED search
    BY <1>0, <1>5 DEF ToggleView
  <2>2. PICK u : u = currentView'
    OBVIOUS
  <2>3. SearchOK'
    BY <1>0, <2>1 DEF SearchOK, search
  <2>4. PICK r : r = Load(u)
    OBVIOUS
  <2>5. Asked(r)'
    <3>1. Asked(Load(u))'
      BY <2>1, <2>2, LoadAsked
    <3> QED
      BY <2>4, <3>1
  <2> QED
    BY <1>3, <1>4, <2>1, <2>2, <2>3, <2>4, <2>5 DEF PageInv
<1>6. CASE addCard \/ removeCard \/ resetDatabase
  <2>1. PICK r : r \in Sent /\ r.what \in Changing /\ r.ans = NoAnswer /\ Send(r)
    <3>1. CASE addCard
      <4>1. PICK n \in Numbers, name \in Names : Send([Request("add") EXCEPT !.n = n, !.name = name])
        BY <3>1 DEF addCard
      <4> DEFINE r == [Request("add") EXCEPT !.n = n, !.name = name]
      <4>2. r \in Sent
        BY Requested, Fields DEF Changing
      <4>3. r.what = "add" /\ r.ans = NoAnswer
        BY DEF Request
      <4> HIDE DEF r
      <4> QED
        BY <4>1, <4>2, <4>3 DEF r, Changing
    <3>2. CASE removeCard
      <4>1. PICK n \in Numbers : Send([Request("remove") EXCEPT !.n = n])
        BY <3>2 DEF removeCard
      <4> DEFINE r == [Request("remove") EXCEPT !.n = n]
      <4>2. r \in Sent
        BY Requested, Fields DEF Changing
      <4>3. r.what = "remove" /\ r.ans = NoAnswer
        BY DEF Request
      <4> HIDE DEF r
      <4> QED
        BY <4>1, <4>2, <4>3 DEF r, Changing
    <3>3. CASE resetDatabase
      BY <3>3, Requested, RequestIs DEF resetDatabase, Changing
    <3> QED
      BY <1>6, <3>1, <3>2, <3>3
  <2>2. wire' = Append(wire, r) /\ UNCHANGED <<currentView, search>>
    BY <2>1 DEF Send
  <2>3. r.what \notin Lists /\ r.what \notin {"count"}
    BY <2>1, ListsNotCount
  <2>4. /\ Newest(wire', Lists) \subseteq Newest(wire, Lists)
        /\ Newest(wire', {"count"}) \subseteq Newest(wire, {"count"})
        /\ None(wire', Lists) => None(wire, Lists)
        /\ None(wire', {"count"}) => None(wire, {"count"})
    BY <1>0, <2>1, <2>2, <2>3, NewestKept
  <2>5. UNCHANGED <<currentView, isActive, query, type, search_input, searchTimeout, table, count>>
    BY <1>2, <2>2 DEF search, shown
  <2>6. SearchOK'
    BY <1>0, <2>5 DEF SearchOK
  <2>7. Chosen'
    <3>1. \A q : Fits(q) => Fits(q)'
      BY <2>5 DEF Fits
    <3>2. TableFits => TableFits'
      BY <2>5 DEF TableFits
    <3>3. Newest(wire, Lists)' = Newest(wire', Lists) /\ None(wire, Lists)' = None(wire', Lists)
      BY DEF Newest, None
    <3> QED
      BY <1>0, <1>2, <2>4, <3>1, <3>2, <3>3 DEF Chosen
  <2>8. UpToDate' => UpToDate
    <3>1. \A i \in DOMAIN wire : i \in DOMAIN wire' /\ wire'[i] = wire[i]
      BY <1>0, <2>1, <2>2, AppendAt
    <3> QED
      BY <1>2, <3>1, UpToDateKept
  <2>9. Tracked'
    BY <1>0, <1>2, <2>4, <2>5, <2>8, TrackedKept
  <2> QED
    BY <1>3, <2>6, <2>7, <2>9 DEF PageInv
<1>7. CASE TypeQuery
  <2>1. /\ UNCHANGED <<cards, currentView, isActive, query, type, shown, overtook, missed, wire>>
        /\ searchTimeout'
    BY <1>2, <1>7 DEF TypeQuery
  <2>2. Chosen' /\ Tracked'
    BY <1>0, <2>1, SamePage
  <2> QED
    BY <1>0, <1>3, <2>1, <2>2 DEF PageInv, SearchOK
<1>8. CASE EnterKey
  <2>1. performSearch(wire) /\ UNCHANGED <<currentView, type, search_input>>
    BY <1>8 DEF EnterKey
  <2>2. /\ \E r : Asked(r)' /\ wire' = Append(wire, r)
        /\ isActive' <=> query' # ""
        /\ query' = search_input
    BY <1>0, <2>1, SearchAsks
  <2> QED
    BY <1>3, <1>4, <2>1, <2>2 DEF PageInv, SearchOK
<1>9. CASE clearSearch
  <2>1. /\ isActive' = FALSE /\ query' = "" /\ search_input' = ""
        /\ wire' = Append(wire, Load(currentView)) /\ UNCHANGED currentView
    BY <1>9 DEF clearSearch
  <2>2. Asked(Load(currentView)) /\ Load(currentView).what # "search"
    BY <1>0, LoadAsked DEF Load, Request
  <2>3. PICK r : r = Load(currentView)
    OBVIOUS
  <2>4. Asked(r)'
    BY <2>1, <2>2, <2>3 DEF Asked, Fits
  <2> QED
    BY <1>3, <1>4, <2>1, <2>3, <2>4 DEF PageInv, SearchOK
<1>10. CASE ChangeType
  <2>1. /\ isActive' = FALSE /\ query' = "" /\ search_input' = ""
        /\ wire' = wire \o <<Load(currentView), Load(currentView)>> /\ UNCHANGED currentView
    BY <1>10 DEF ChangeType
  <2>2. Asked(Load(currentView)) /\ Load(currentView).what # "search"
    BY <1>0, LoadAsked DEF Load, Request
  <2>3. PICK r : r = Load(currentView)
    OBVIOUS
  <2>4. Asked(r)' /\ r \in Sent /\ r.what \notin {"count"}
    BY <2>1, <2>2, <2>3, ListsNotCount DEF Asked, Fits
  <2> DEFINE sent == Append(wire, r)
  <2>5. sent \in Seq(Sent) /\ \A i \in DOMAIN wire : i \in DOMAIN sent /\ sent[i] = wire[i]
    BY <1>0, <2>4, AppendAt
  <2>6. /\ Newest(sent, {"count"}) \subseteq Newest(wire, {"count"})
        /\ None(sent, {"count"}) => None(wire, {"count"})
    BY <1>0, <2>4, NewestKept
  <2>7. wire' = Append(sent, r)
    BY <1>0, <2>1, <2>3, <2>4, TwoAppended
  <2> HIDE DEF sent
  <2>8. Chosen' /\ Tracked'
    BY <1>0, <1>2, <2>4, <2>5, <2>6, <2>7, AskedPage
  <2> QED
    BY <1>3, <2>1, <2>8 DEF PageInv, SearchOK
<1> QED
  BY <1>5, <1>6, <1>7, <1>8, <1>9, <1>10 DEF User

LEMMA DebouncePage == ASSUME PageInv, DebounceFires PROVE PageInv'
<1>0. /\ WebInv /\ TypeOK /\ wire \in Seq(Sent) /\ Chosen /\ Tracked
  BY DEF PageInv, WebInv, TypeOK, Sent
<1>1. /\ performSearch(wire)
      /\ UNCHANGED <<cards, currentView, shown, overtook, missed, search_input>>
  BY DEF DebounceFires, view, history
<1>2. /\ \E r : Asked(r)' /\ wire' = Append(wire, r)
      /\ isActive' <=> query' # ""
      /\ query' = search_input
  BY <1>0, <1>1, SearchAsks
<1>3. Chosen' /\ Tracked'
  BY <1>0, <1>1, <1>2, AskedPage
<1>4. WebInv'
  BY <1>0, DebounceWeb
<1> QED
  BY <1>1, <1>2, <1>3, <1>4 DEF PageInv, SearchOK

\* What a change leaves: the database as it was, or an answer that tells of the change.
LEMMA ChangeTold ==
    ASSUME NEW req, req.what \in Changing, NEW o \in Handled(req)
    PROVE  o.cards = cards \/ Succeeded(o.ans) \/ o.ans.status = 500
<1>0. /\ \A s : Refuse(s).cards = cards
      /\ \A db, a : Outcome(db, a).ans = a /\ Outcome(db, a).cards = db
  BY DEF Refuse, Outcome
<1>1. Succeeded(Ok(200)) /\ Succeeded(Ok(201)) /\ Failed(500).status = 500
  BY DEF Succeeded, Ok, Failed, NoAnswer
<1>2. CASE req.what = "add"
  <2>1. o \in add_card(req.n, req.name)
    BY <1>2 DEF Handled
  <2>2. \/ o \in {Refuse(400), Refuse(500)}
        \/ \E db : o = Outcome(db, Ok(201))
    <3>1. \/ o \in {Refuse(400), Refuse(500)}
          \/ o = Outcome(cards \cup {[id |-> uint32_t(valueint(req.n)), name |-> req.name]}, Ok(201))
      BY <2>1, AddOutcomes
    <3>2. PICK db : db = cards \cup {[id |-> uint32_t(valueint(req.n)), name |-> req.name]}
      OBVIOUS
    <3> QED
      BY <3>1, <3>2, Zenon
  <2> QED
    BY <1>0, <1>1, <2>2
<1>3. CASE req.what = "remove"
  <2>1. o \in remove_card(req.n)
    BY <1>3 DEF Handled
  <2>2. \/ o \in {Refuse(400), Refuse(403), Refuse(404), Refuse(500)}
        \/ \E db : o = Outcome(db, Ok(200))
    BY <2>1 DEF remove_card, NoHeap
  <2> QED
    BY <1>0, <1>1, <2>2
<1>4. CASE req.what = "reset"
  <2>1. o \in reset_cards
    BY <1>4 DEF Handled
  <2>2. (\E db : o = Outcome(db, Ok(200))) \/ (\E db : o = Outcome(db, Failed(500)))
    BY <2>1 DEF reset_cards
  <2> QED
    BY <1>0, <1>1, <2>2
<1> QED
  BY <1>2, <1>3, <1>4 DEF Changing

\* What a question is answered.
LEMMA ReadReports ==
    ASSUME NEW req, req.what \in {"count"} \cup Lists, NEW o \in Handled(req)
    PROVE  /\ o.cards = cards
           /\ req.what \in {"list", "search"} => o.ans.list \in {Listed, {}}
           /\ req.what = "count" => o.ans.num = Cardinality(cards)
<1>1. CASE req.what \in {"list", "search"}
  <2>1. o \in list_cards
    BY <1>1 DEF Handled
  <2>2. PICK l \in get_card_list_json :
           o = Outcome(cards, [Ok(200) EXCEPT !.list = l.list, !.json = l.json])
    BY <2>1 DEF list_cards
  <2>3. l.list \in {Listed, {}}
    <3>1. PICK b \in BOOLEAN : b = (\A c \in cards : c.name = "plain")
      OBVIOUS
    <3>2. l \in {Unlisted, IF Cardinality(cards) > ListMax THEN Unlisted
                           ELSE [list |-> members, json |-> b]}
      BY <2>2, <3>1 DEF get_card_list_json, NoHeap
    <3>3. Unlisted.list = {}
      BY DEF Unlisted
    <3>4. [list |-> members, json |-> b].list = members
      OBVIOUS
    <3> QED
      BY <3>2, <3>3, <3>4 DEF Listed
  <2>4. [Ok(200) EXCEPT !.list = l.list, !.json = l.json].list = l.list
    BY DEF Ok, Failed, NoAnswer
  <2>5. o.cards = cards /\ o.ans.list = l.list
    BY <2>2, <2>4 DEF Outcome
  <2> QED
    BY <1>1, <2>3, <2>5
<1>2. CASE req.what = "defaults"
  BY <1>2 DEF Handled, get_default_cards, Outcome
<1>3. CASE req.what = "count"
  <2>1. o = Outcome(cards, [Ok(200) EXCEPT !.num = Cardinality(cards)])
    BY <1>3 DEF Handled, get_card_count
  <2>2. [Ok(200) EXCEPT !.num = Cardinality(cards)].num = Cardinality(cards)
    BY DEF Ok, Failed, NoAnswer
  <2> QED
    BY <1>3, <2>1, <2>2 DEF Outcome
<1> QED
  BY <1>1, <1>2, <1>3 DEF Lists

\* A request answered in its place does not change what is asked for last.
LEMMA AnsweredChosen ==
    ASSUME Chosen, NEW k \in DOMAIN wire, wire \in Seq(Sent), NEW a,
           wire' = [wire EXCEPT ![k].ans = a],
           UNCHANGED <<view, search, shown, overtook>>
    PROVE  Chosen'
<1>1. /\ \A r \in Newest(wire', Lists) :
            r \in Newest(wire, Lists) \/ (r = [wire[k] EXCEPT !.ans = a] /\ wire[k] \in Newest(wire, Lists))
      /\ None(wire', Lists) => None(wire, Lists)
  BY NewestAnswered
<1>2. UNCHANGED <<currentView, isActive, query, table>>
  BY DEF view, search, shown
<1>3. wire[k] \in Sent
  OBVIOUS
<1>4. /\ [wire[k] EXCEPT !.ans = a].what = wire[k].what
      /\ [wire[k] EXCEPT !.ans = a].query = wire[k].query
  BY <1>3 DEF Sent
<1>5. \A r : Fits(r) => Fits(r)'
  BY <1>2 DEF Fits
<1>6. Fits(wire[k]) => Fits([wire[k] EXCEPT !.ans = a])
  BY <1>4 DEF Fits
<1>7. TableFits => TableFits'
  BY <1>2 DEF TableFits
<1> SUFFICES ASSUME ~overtook'
             PROVE  /\ \A r \in Newest(wire', Lists) : Fits(r)'
                    /\ None(wire', Lists) => TableFits'
  BY DEF Chosen, Newest, None
<1>8. /\ \A r \in Newest(wire, Lists) : Fits(r)
      /\ None(wire, Lists) => TableFits
  BY DEF Chosen
<1>9. ASSUME NEW r \in Newest(wire', Lists) PROVE Fits(r)
  <2>1. CASE r \in Newest(wire, Lists)
    BY <1>8, <2>1
  <2>2. CASE r = [wire[k] EXCEPT !.ans = a] /\ wire[k] \in Newest(wire, Lists)
    BY <1>6, <1>8, <2>2
  <2> QED
    BY <1>1, <2>1, <2>2
<1> QED
  BY <1>1, <1>5, <1>7, <1>8, <1>9

\* An answer that has arrived reports truly, if no change has been heard of since.
LEMMA AnsweredTracked ==
    ASSUME Tracked, NEW k \in DOMAIN wire, wire \in Seq(Sent), NEW a,
           wire' = [wire EXCEPT ![k].ans = a], UNCHANGED <<search, shown>>,
           UpToDate' => UpToDate /\ cards' = cards,
           UpToDate' => Reports([wire[k] EXCEPT !.ans = a])
    PROVE  Tracked'
<1>1. \A S : /\ \A r \in Newest(wire', S) :
                  r \in Newest(wire, S) \/ (r = [wire[k] EXCEPT !.ans = a] /\ wire[k] \in Newest(wire, S))
             /\ None(wire', S) => None(wire, S)
  BY NewestAnswered
<1>2. UNCHANGED <<type, table, count>>
  BY DEF search, shown
<1> SUFFICES ASSUME UpToDate'
             PROVE  /\ \A r \in Newest(wire', Lists) \cup Newest(wire', {"count"}) : Reports(r)'
                    /\ None(wire', Lists) => TableTrue'
                    /\ None(wire', {"count"}) => CountTrue'
  BY DEF Tracked, Newest, None
<1>3. /\ \A r \in Newest(wire, Lists) \cup Newest(wire, {"count"}) : Reports(r)
      /\ None(wire, Lists) => TableTrue
      /\ None(wire, {"count"}) => CountTrue
  BY DEF Tracked
<1>4. UNCHANGED <<cards, Listed>>
  BY DEF Listed, members
<1>5. /\ \A r : Reports(r) => Reports(r)'
      /\ TableTrue => TableTrue'
      /\ CountTrue => CountTrue'
  BY <1>2, <1>4 DEF Reports, TableTrue, CountTrue
<1>6. ASSUME NEW S \in {Lists, {"count"}}, NEW r \in Newest(wire', S) PROVE Reports(r)
  <2>1. CASE r \in Newest(wire, S)
    BY <1>3, <1>6, <2>1
  <2>2. CASE r = [wire[k] EXCEPT !.ans = a]
    BY <2>2
  <2> QED
    BY <1>1, <2>1, <2>2
<1>7. \A r \in Newest(wire', Lists) \cup Newest(wire', {"count"}) : Reports(r)
  BY <1>6
<1> QED
  BY <1>1, <1>3, <1>5, <1>7

LEMMA ServePage == ASSUME PageInv, NEW k \in DOMAIN wire, Serve(k) PROVE PageInv'
<1>0. /\ WebInv /\ wire \in Seq(Sent) /\ SearchOK /\ Chosen /\ Tracked
      /\ overtook \in BOOLEAN /\ missed \in BOOLEAN
  BY DEF PageInv, WebInv, TypeOK, Sent
<1>1. PICK o \in Handled(wire[k]) :
         /\ cards' = o.cards /\ wire' = [wire EXCEPT ![k].ans = o.ans]
         /\ missed' = (missed \/ (o.cards # cards /\ o.ans.status = 500))
  BY DEF Serve
<1>2. wire[k].ans = NoAnswer /\ UNCHANGED <<view, search, shown, overtook>>
  BY DEF Serve
<1>3. wire[k] \in Sent
  BY <1>0
<1> DEFINE r == [wire[k] EXCEPT !.ans = o.ans]
<1>4. r.what = wire[k].what /\ r.ans = o.ans
  BY <1>3 DEF Sent
<1>5. Chosen'
  BY <1>0, <1>1, <1>2, AnsweredChosen
<1>6. UpToDate' => UpToDate /\ cards' = cards
  <2> SUFFICES ASSUME UpToDate' PROVE UpToDate /\ cards' = cards
    OBVIOUS
  <2>1. ~missed /\ ~(o.cards # cards /\ o.ans.status = 500) /\ ~overtook
    BY <1>0, <1>1, <1>2 DEF UpToDate
  <2>2. \A j \in DOMAIN wire : ~Told(wire'[j])
    BY <1>1 DEF UpToDate, Told
  <2>3. wire'[k] = r
    BY <1>1
  <2>4. ~Told(r)
    BY <2>2, <2>3
  <2>5. cards' = cards
    <3>1. CASE wire[k].what \in Changing
      BY <1>1, <1>4, <2>1, <2>4, <3>1, ChangeTold DEF Told
    <3>2. CASE wire[k].what \in {"count"} \cup Lists
      BY <1>1, <3>2, ReadReports
    <3> QED
      BY <1>3, <3>1, <3>2 DEF Sent, Lists
  <2>6. ASSUME NEW j \in DOMAIN wire PROVE ~Told(wire[j])
    <3>1. CASE j = k
      BY <1>2, <3>1, Unanswered DEF Told
    <3>2. CASE j # k
      <4>1. wire'[j] = wire[j]
        BY <1>1, <3>2
      <4> QED
        BY <2>2, <4>1
    <3> QED
      BY <3>1, <3>2
  <2> QED
    BY <2>1, <2>5, <2>6 DEF UpToDate
<1>7. Reports(r)
  <2>1. CASE wire[k].what \in {"count"} \cup Lists
    <3>1. /\ wire[k].what \in {"list", "search"} => o.ans.list \in {Listed, {}}
          /\ wire[k].what = "count" => o.ans.num = Cardinality(cards)
      BY <2>1, ReadReports
    <3> HIDE DEF r
    <3> QED
      BY <1>4, <3>1 DEF Reports
  <2>2. CASE wire[k].what \in Changing
    <3> HIDE DEF r
    <3> QED
      BY <1>4, <2>2 DEF Reports, Changing
  <2> QED
    BY <1>3, <2>1, <2>2 DEF Sent, Lists
<1>8. Tracked'
  BY <1>0, <1>1, <1>2, <1>6, <1>7, AnsweredTracked
<1>9. WebInv'
  BY <1>0, ServeWeb
<1> QED
  BY <1>0, <1>2, <1>5, <1>8, <1>9 DEF PageInv, SearchOK, search

LEMMA LosePage == ASSUME PageInv, NEW k \in DOMAIN wire, Lose(k) PROVE PageInv'
<1>0. /\ WebInv /\ wire \in Seq(Sent) /\ SearchOK /\ Chosen /\ Tracked
      /\ overtook \in BOOLEAN /\ missed \in BOOLEAN
  BY DEF PageInv, WebInv, TypeOK, Sent
<1>1. /\ wire' = [wire EXCEPT ![k].ans = Failed(-1)]
      /\ missed' = (missed \/ Told(wire[k]))
      /\ UNCHANGED <<cards, view, search, shown, overtook>>
  BY DEF Lose, Told
<1>2. Chosen'
  BY <1>0, <1>1, AnsweredChosen
<1>3. UpToDate' => UpToDate /\ cards' = cards
  <2> SUFFICES ASSUME UpToDate' PROVE UpToDate
    BY <1>1
  <2>1. ~missed /\ ~Told(wire[k]) /\ ~overtook
    BY <1>0, <1>1 DEF UpToDate
  <2>2. \A j \in DOMAIN wire : ~Told(wire'[j])
    BY <1>1 DEF UpToDate, Told
  <2>3. ASSUME NEW j \in DOMAIN wire PROVE ~Told(wire[j])
    <3>1. CASE j # k
      <4>1. wire'[j] = wire[j]
        BY <1>1, <3>1
      <4> QED
        BY <2>2, <4>1
    <3> QED
      BY <2>1, <3>1
  <2> QED
    BY <2>1, <2>3 DEF UpToDate
<1>4. Reports([wire[k] EXCEPT !.ans = Failed(-1)])
  <2>1. wire[k] \in Sent
    BY <1>0
  <2>2. [wire[k] EXCEPT !.ans = Failed(-1)].ans = Failed(-1)
    BY <2>1 DEF Sent
  <2>3. -1 \in Int \ {200, 201}
    OBVIOUS
  <2> QED
    BY <2>2, <2>3, Unanswered DEF Reports
<1>5. Tracked'
  BY <1>0, <1>1, <1>3, <1>4, AnsweredTracked
<1>6. WebInv'
  BY <1>0, LoseWeb
<1> QED
  BY <1>0, <1>1, <1>2, <1>5, <1>6 DEF PageInv, SearchOK, search

LEMMA ClientPage == ASSUME PageInv, Client PROVE PageInv'
<1>0. /\ WebInv /\ SearchOK /\ Chosen /\ Tracked /\ missed \in BOOLEAN
  BY DEF PageInv, WebInv, TypeOK
<1>1. /\ UNCHANGED <<view, search, shown, wire, overtook>>
      /\ \E o : cards' = o.cards /\ missed' = (missed \/ o.cards # cards)
  BY DEF Client
<1>2. UNCHANGED <<currentView, isActive, query, type, search_input, searchTimeout>>
  BY <1>1 DEF view, search
<1>3. Chosen'
  BY <1>0, <1>1, <1>2 DEF Chosen, Newest, None, Fits, TableFits, shown
<1>4. Tracked'
  <2>1. CASE missed'
    BY <2>1 DEF Tracked, UpToDate
  <2>2. CASE ~missed'
    <3>1. UNCHANGED <<cards, missed>>
      BY <1>0, <1>1, <2>2
    <3> QED
      BY <1>0, <1>1, <1>2, <3>1, SamePage
  <2> QED
    BY <2>1, <2>2
<1>5. WebInv'
  BY <1>0, ClientWeb
<1> QED
  BY <1>0, <1>2, <1>3, <1>4, <1>5 DEF PageInv, SearchOK

-----------------------------------------------------------------------------
(* The callbacks.                                                           *)

\* What is left when the k-th answer arrives and has overtaken no other.
LEMMA RestNewest ==
    ASSUME wire \in Seq(Sent), NEW k \in DOMAIN wire, Arrives(k), ~overtook',
           NEW S \in {Lists, {"count"}}
    PROVE  /\ Newest(Rest(k), S) \subseteq Newest(wire, S)
           /\ None(Rest(k), S) /\ wire[k].what \notin S => None(wire, S)
           /\ None(Rest(k), S) /\ wire[k].what \in S => wire[k] \in Newest(wire, S)
<1>1. wire[k].what \in S => \A j \in 1..(k - 1) : wire[j].what \notin S
  BY DEF Arrives
<1> QED
  BY <1>1, NewestRest DEF Rest

LEMMA RestUpToDate ==
    ASSUME wire \in Seq(Sent), NEW k \in DOMAIN wire, Arrives(k), ~overtook' => ~overtook,
           wire' = Rest(k), ~Told(wire[k])
    PROVE  UpToDate' => UpToDate
<1> SUFFICES ASSUME UpToDate' PROVE UpToDate
  OBVIOUS
<1>1. ~overtook /\ ~missed
  BY DEF UpToDate, Arrives
<1>2. \A i \in DOMAIN wire' : ~Told(wire'[i])
  BY DEF UpToDate, Told
<1>3. ASSUME NEW j \in DOMAIN wire PROVE ~Told(wire[j])
  <2>1. CASE j = k
    BY <2>1
  <2>2. CASE j # k
    <3>1. PICK i \in DOMAIN wire' : wire'[i] = wire[j]
      BY <2>2, RestPlaces DEF Rest
    <3> QED
      BY <1>2, <3>1
  <2> QED
    BY <2>1, <2>2
<1> QED
  BY <1>1, <1>3 DEF UpToDate

\* An answer is shown in its element, and nothing else happens.
LEMMA ShownPage ==
    ASSUME WebInv, Chosen, Tracked, NEW k \in DOMAIN wire, Arrives(k), wire' = Rest(k),
           ~Told(wire[k]), UNCHANGED search,
           wire[k].what \notin Lists => UNCHANGED table,
           wire[k].what \in Lists /\ Fits(wire[k]) => TableFits',
           wire[k].what \in Lists /\ Reports(wire[k]) => TableTrue',
           wire[k].what # "count" => UNCHANGED count,
           wire[k].what = "count" /\ Reports(wire[k]) => CountTrue'
    PROVE  Chosen' /\ Tracked'
<1>0. wire \in Seq(Sent) /\ overtook \in BOOLEAN
  BY DEF WebInv, TypeOK, Sent
<1>1. (~overtook' => ~overtook) /\ UNCHANGED <<cards, currentView, missed>>
  BY <1>0 DEF Arrives
<1>2. UNCHANGED <<isActive, query, type>>
  BY DEF search
<1>3. /\ \A r : Fits(r) => Fits(r)'
      /\ \A r : Reports(r) => Reports(r)'
      /\ UNCHANGED table => (TableFits => TableFits') /\ (TableTrue => TableTrue')
      /\ UNCHANGED count => (CountTrue => CountTrue')
  BY <1>1, <1>2 DEF Fits, Reports, TableFits, TableTrue, CountTrue, Listed, members
<1>4. ~overtook' => \A S \in {Lists, {"count"}} :
        /\ Newest(wire', S) \subseteq Newest(wire, S)
        /\ None(wire', S) /\ wire[k].what \notin S => None(wire, S)
        /\ None(wire', S) /\ wire[k].what \in S => wire[k] \in Newest(wire, S)
  BY <1>0, RestNewest
<1>5. Chosen'
  <2> SUFFICES ASSUME ~overtook'
               PROVE  /\ \A r \in Newest(wire', Lists) : Fits(r)'
                      /\ None(wire', Lists) => TableFits'
    BY DEF Chosen, Newest, None
  <2>1. /\ \A r \in Newest(wire, Lists) : Fits(r)
        /\ None(wire, Lists) => TableFits
    BY <1>1 DEF Chosen
  <2>2. \A r \in Newest(wire', Lists) : Fits(r)'
    BY <1>3, <1>4, <2>1
  <2>3. ASSUME None(wire', Lists) PROVE TableFits'
    <3>1. CASE wire[k].what \in Lists
      BY <1>4, <2>1, <2>3, <3>1
    <3>2. CASE wire[k].what \notin Lists
      BY <1>3, <1>4, <2>1, <2>3, <3>2
    <3> QED
      BY <3>1, <3>2
  <2> QED
    BY <2>2, <2>3
<1>6. Tracked'
  <2> SUFFICES ASSUME UpToDate'
               PROVE  /\ \A r \in Newest(wire', Lists) \cup Newest(wire', {"count"}) : Reports(r)'
                      /\ None(wire', Lists) => TableTrue'
                      /\ None(wire', {"count"}) => CountTrue'
    BY DEF Tracked, Newest, None
  <2>1. UpToDate /\ ~overtook'
    BY <1>0, <1>1, RestUpToDate DEF UpToDate
  <2>2. /\ \A r \in Newest(wire, Lists) \cup Newest(wire, {"count"}) : Reports(r)
        /\ None(wire, Lists) => TableTrue
        /\ None(wire, {"count"}) => CountTrue
    BY <2>1 DEF Tracked
  <2>3. \A r \in Newest(wire', Lists) \cup Newest(wire', {"count"}) : Reports(r)'
    BY <1>3, <1>4, <2>1, <2>2
  <2>4. ASSUME None(wire', Lists) PROVE TableTrue'
    <3>1. CASE wire[k].what \in Lists
      BY <1>4, <2>1, <2>2, <2>4, <3>1
    <3>2. CASE wire[k].what \notin Lists
      BY <1>3, <1>4, <2>1, <2>2, <2>4, <3>2
    <3> QED
      BY <3>1, <3>2
  <2>5. ASSUME None(wire', {"count"}) PROVE CountTrue'
    <3>1. CASE wire[k].what = "count"
      BY <1>4, <2>1, <2>2, <2>5, <3>1
    <3>2. CASE wire[k].what # "count"
      BY <1>3, <1>4, <2>1, <2>2, <2>5, <3>2
    <3> QED
      BY <3>1, <3>2
  <2> QED
    BY <2>3, <2>4, <2>5
<1> QED
  BY <1>5, <1>6

\* After a change the count and the list are asked for again, so that nothing that
\* the page has been told before counts.
LEMMA ChangedPage ==
    ASSUME WebInv, SearchOK, NEW k \in DOMAIN wire, Changed(k)
    PROVE  SearchOK' /\ Chosen' /\ Tracked'
<1> DEFINE c == Request("count")
           sent == Append(Rest(k), c)
<1>0. TypeOK /\ wire \in Seq(Sent) /\ currentView \in Views
  BY DEF WebInv, TypeOK, Sent
<1>1. Rest(k) \in Seq(Sent)
  BY <1>0, RestTyped
<1>2. c \in Sent /\ c.what \in {"count"} /\ c.ans = NoAnswer
  BY Requested, RequestIs
<1>3. sent \in Seq(Sent) /\ Newest(sent, {"count"}) \subseteq {c} /\ ~None(sent, {"count"})
  BY <1>1, <1>2, AppendAt, NewestAppended
<1>4. /\ refreshCurrentView(sent)
      /\ UNCHANGED <<shown, type, search_input, searchTimeout, currentView>>
  BY DEF Changed, Arrives
<1> HIDE DEF sent, c
<1>5. SearchOK' /\ \E r : Asked(r)' /\ wire' = Append(sent, r)
  <2>1. CASE performSearch(sent)
    <3>1. /\ \E r : Asked(r)' /\ wire' = Append(sent, r)
          /\ isActive' <=> query' # ""
          /\ query' = search_input
      BY <1>0, <1>3, <1>4, <2>1, SearchAsks
    <3> QED
      BY <1>4, <3>1 DEF SearchOK
  <2>2. CASE ~(isActive /\ query # "") /\ wire' = Append(sent, Load(currentView))
             /\ UNCHANGED <<isActive, query>>
    <3>1. Asked(Load(currentView)) /\ Load(currentView).what # "search"
      BY <1>0, LoadAsked, LoadIs
    <3>2. PICK r : r = Load(currentView)
      OBVIOUS
    <3>3. Asked(r)'
      BY <1>4, <3>1, <3>2 DEF Asked, Fits
    <3>4. SearchOK'
      BY <1>4, <2>2 DEF SearchOK
    <3> QED
      BY <2>2, <3>2, <3>3, <3>4
  <2> QED
    BY <1>4, <2>1, <2>2 DEF refreshCurrentView
<1>6. PICK r : Asked(r)' /\ wire' = Append(sent, r)
  BY <1>5
<1>7. r \in Sent /\ r.what \notin {"count"}
  BY <1>6, ListsNotCount DEF Asked
<1>8. /\ Chosen' /\ ~None(wire', Lists)
      /\ \A q \in Newest(wire', Lists) : ~Succeeded(q.ans)
  BY <1>3, <1>6, ChosenBy
<1>9. /\ Newest(wire', {"count"}) \subseteq Newest(sent, {"count"})
      /\ None(wire', {"count"}) => None(sent, {"count"})
  BY <1>3, <1>6, <1>7, NewestKept
<1>10. \A q \in Newest(wire', {"count"}) : ~Succeeded(q.ans)
  BY <1>2, <1>3, <1>9, Unanswered
<1>11. Tracked'
  BY <1>3, <1>8, <1>9, <1>10 DEF Tracked, Newest, None, Reports
<1> QED
  BY <1>5, <1>8, <1>11

LEMMA CallbackPage == ASSUME PageInv, NEW k \in DOMAIN wire, Callback(k) PROVE PageInv'
<1>0. /\ WebInv /\ SearchOK /\ Chosen /\ Tracked /\ TypeOK
      /\ wire \in Seq(Sent) /\ table.kind \in {"loading", "defaults", "all", "search", "error"}
  BY DEF PageInv, WebInv, TypeOK, Sent
<1>1. WebInv'
  BY <1>0, CallbackWeb
<1>2. ASSUME UNCHANGED search PROVE SearchOK'
  <2>1. UNCHANGED <<isActive, query, search_input, searchTimeout>>
    BY <1>2 DEF search
  <2> QED
    BY <1>0, <2>1 DEF SearchOK
<1>3. UNCHANGED search => UNCHANGED <<isActive, query, type>>
  BY DEF search
<1>4. CASE ShowCount(k)
  <2>1. /\ Arrives(k) /\ wire[k].what = "count" /\ wire' = Rest(k)
        /\ count' = IF Succeeded(wire[k].ans) THEN wire[k].ans.num ELSE -1
        /\ UNCHANGED <<onclick, table, search>>
    BY <1>4 DEF ShowCount
  <2>2. UNCHANGED cards
    BY <2>1 DEF Arrives
  <2>3. Reports(wire[k]) => CountTrue'
    BY <2>1, <2>2 DEF Reports, CountTrue
  <2>4. ~Told(wire[k]) /\ wire[k].what \notin Lists
    BY <2>1 DEF Told, Changing, Lists
  <2>5. Chosen' /\ Tracked'
    BY <1>0, <2>1, <2>3, <2>4, ShownPage
  <2> QED
    BY <1>1, <1>2, <2>1, <2>5 DEF PageInv
<1>5. CASE ShowView(k)
  <2>1. /\ Arrives(k) /\ wire[k].what \in {"defaults", "list"} /\ wire' = Rest(k)
        /\ Succeeded(wire[k].ans)
        /\ UNCHANGED <<count, search>>
    BY <1>5 DEF ShowView
  <2>2. /\ table'.kind = IF wire[k].what = "list" THEN "all" ELSE "defaults"
        /\ table'.list = wire[k].ans.list
    BY <1>5 DEF ShowView, Display, ViewOf
  <2>3. UNCHANGED <<cards, currentView>>
    BY <2>1 DEF Arrives
  <2>4. Fits(wire[k]) => TableFits'
    BY <2>1, <2>2, <2>3 DEF Fits, TableFits
  <2>5. Reports(wire[k]) => TableTrue'
    BY <2>1, <2>2, <2>3 DEF Reports, TableTrue, Listed, members
  <2>6. ~Told(wire[k]) /\ wire[k].what \in Lists /\ wire[k].what # "count"
    BY <2>1 DEF Told, Changing, Lists
  <2>7. Chosen' /\ Tracked'
    BY <1>0, <2>1, <2>4, <2>5, <2>6, ShownPage
  <2> QED
    BY <1>1, <1>2, <2>1, <2>7 DEF PageInv
<1>6. CASE ShowSearch(k)
  <2>1. /\ Arrives(k) /\ wire[k].what = "search" /\ wire' = Rest(k)
        /\ Succeeded(wire[k].ans)
        /\ UNCHANGED <<count, search>>
    BY <1>6 DEF ShowSearch
  <2>2. /\ table'.kind = "search" /\ table'.query = wire[k].query
        /\ table'.list = wire[k].ans.list \cap Hits[type][wire[k].query]
    BY <1>6 DEF ShowSearch, Display
  <2>3. UNCHANGED <<cards, isActive, query, type>>
    BY <1>3, <2>1 DEF Arrives
  <2>4. Fits(wire[k]) => TableFits'
    BY <2>1, <2>2, <2>3 DEF Fits, TableFits, Views
  <2>5. Reports(wire[k]) => TableTrue'
    <3>1. \A X : {} \cap X = {}
      OBVIOUS
    <3>2. Listed' = Listed
      BY <2>3 DEF Listed, members
    <3>3. Reports(wire[k]) => wire[k].ans.list \in {Listed, {}}
      BY <2>1 DEF Reports
    <3>4. Reports(wire[k]) => table'.list \in {Listed \cap Hits[type][table'.query], {}}
      BY <2>2, <3>1, <3>3
    <3> QED
      BY <2>2, <2>3, <3>2, <3>4 DEF TableTrue
  <2>6. ~Told(wire[k]) /\ wire[k].what \in Lists /\ wire[k].what # "count"
    BY <2>1 DEF Told, Changing, Lists
  <2>7. Chosen' /\ Tracked'
    BY <1>0, <2>1, <2>4, <2>5, <2>6, ShownPage
  <2> QED
    BY <1>1, <1>2, <2>1, <2>7 DEF PageInv
<1>7. CASE ShowError(k)
  <2>1. /\ Arrives(k) /\ wire[k].what \in Lists /\ wire' = Rest(k)
        /\ UNCHANGED <<count, search>>
    BY <1>7 DEF ShowError
  <2>2. table'.kind = "error"
    BY <1>7 DEF ShowError, Display
  <2>3. TableFits' /\ TableTrue'
    BY <2>2 DEF TableFits, TableTrue, Views
  <2>4. ~Told(wire[k]) /\ wire[k].what # "count"
    BY <2>1, ListsNotCount DEF Told
  <2>5. Chosen' /\ Tracked'
    BY <1>0, <2>1, <2>3, <2>4, ShownPage
  <2> QED
    BY <1>1, <1>2, <2>1, <2>5 DEF PageInv
<1>8. CASE Changed(k)
  BY <1>0, <1>1, <1>8, ChangedPage DEF PageInv
<1>9. CASE NotChanged(k)
  <2>1. /\ Arrives(k) /\ wire[k].what \in Changing /\ ~Succeeded(wire[k].ans)
        /\ wire' = Rest(k) /\ UNCHANGED <<onclick, shown, search>>
    BY <1>9 DEF NotChanged
  <2>2. ~Told(wire[k]) /\ wire[k].what \notin Lists /\ wire[k].what # "count"
    BY <2>1, ListsNotCount DEF Told
  <2>3. UNCHANGED <<table, count>>
    BY <2>1 DEF shown
  <2>4. Chosen' /\ Tracked'
    BY <1>0, <2>1, <2>2, <2>3, ShownPage
  <2> QED
    BY <1>1, <1>2, <2>1, <2>4 DEF PageInv
<1> QED
  BY <1>4, <1>5, <1>6, <1>7, <1>8, <1>9 DEF Callback

LEMMA InitPage == Init => PageInv
<1> SUFFICES ASSUME Init PROVE PageInv
  OBVIOUS
<1>1. WebInv /\ SearchOK
  BY InitWeb DEF Init, SearchOK
<1> DEFINE c == Request("count")
           d == Request("defaults")
<1>2. /\ c \in Sent /\ c.what = "count" /\ c.ans = NoAnswer
      /\ d \in Sent /\ d.what = "defaults" /\ d.ans = NoAnswer
  BY Requested, RequestIs
<1> HIDE DEF c, d
<1>3. wire = <<c, d>> /\ wire[1] = c /\ wire[2] = d /\ DOMAIN wire = {1, 2}
  <2>1. wire = <<c, d>>
    BY DEF Init, c, d
  <2> QED
    BY <2>1
<1>4. Newest(wire, Lists) \subseteq {d} /\ ~None(wire, Lists)
  BY <1>2, <1>3 DEF Newest, None, Lists
<1>5. Newest(wire, {"count"}) \subseteq {c} /\ ~None(wire, {"count"})
  BY <1>2, <1>3 DEF Newest, None
<1>6. Chosen
  BY <1>2, <1>4 DEF Chosen, Fits, Init
<1>7. Tracked
  BY <1>2, <1>4, <1>5, Unanswered DEF Tracked, Reports
<1> QED
  BY <1>1, <1>6, <1>7 DEF PageInv

LEMMA NextPage == PageInv /\ [Next]_vars => PageInv'
<1> SUFFICES ASSUME PageInv, [Next]_vars PROVE PageInv'
  OBVIOUS
<1>1. CASE User \/ DebounceFires \/ Client
  BY <1>1, UserPage, DebouncePage, ClientPage
<1>2. ASSUME NEW k \in DOMAIN wire, Serve(k) \/ Lose(k) \/ Callback(k) PROVE PageInv'
  BY <1>2, ServePage, LosePage, CallbackPage
<1>3. CASE UNCHANGED vars
  <2>1. WebInv'
    BY <1>3, NextWeb DEF PageInv
  <2>2. UNCHANGED <<cards, currentView, search, shown, overtook, missed, wire>>
    BY <1>3 DEF vars, view, history
  <2>3. Chosen' /\ Tracked'
    BY <2>2, SamePage DEF PageInv, search
  <2> QED
    BY <2>1, <2>2, <2>3 DEF PageInv, SearchOK, search
<1> QED
  BY <1>1, <1>2, <1>3 DEF Next

\* What rfid.js keeps of the requests under way: the newest list asked for is the one
\* that the page is set to, and what an answer reports is true until the page is told
\* of a change.
THEOREM PageInvariance == Spec => []PageInv
  BY InitPage, NextPage, PTL DEF Spec

LEMMA AtRestNone == AtRest => \A S : None(wire, S)
  BY DEF AtRest, None

\* loadAllCards, loadDefaultCards and performSearch of rfid.js: once nothing is under
\* way the table is the one asked for last, whatever was clicked and typed meanwhile
\* and however many requests failed, unless an answer overtook a later one.
THEOREM ViewSettled == Spec => []ViewSettles
<1>1. PageInv => ViewSettles
  BY AtRestNone DEF PageInv, Chosen, TableFits, SearchOK, AtRest, ViewSettles
<1> QED
  BY PageInvariance, <1>1, PTL

\* refreshCurrentView after each change: once nothing is under way the table and the
\* count are what the database holds, for any database, any requests of the page and
\* any answers lost, unless an answer overtook a later one or a change was not told.
THEOREM PageCurrent == Spec => []Current
<1>1. PageInv => Current
  <2> SUFFICES ASSUME PageInv, AtRest, ~overtook, ~missed
               PROVE  TableTrue /\ CountTrue
    BY DEF Current, TableTrue, CountTrue, Listed
  <2>1. UpToDate
    BY DEF UpToDate, AtRest
  <2> QED
    BY <2>1, AtRestNone DEF PageInv, Tracked
<1> QED
  BY PageInvariance, <1>1, PTL
=============================================================================
