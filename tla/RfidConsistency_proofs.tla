----------------------- MODULE RfidConsistency_proofs -----------------------
(* Without file system faults and restarts, for any number of tasks, ids    *)
(* and cards: the two files of the card database agree whenever nobody      *)
(* holds rfid_mutex, and every call acts on the set of cards at one moment, *)
(* as RfidDb promises.                                                      *)
EXTENDS RfidManager_proofs, FiniteSetTheorems

\* Records as add_card writes them, no id twice.
Clean(s) ==
    /\ s \in Seq(Record)
    /\ \A k \in DOMAIN s : s[k].active
    /\ \A j, k \in DOMAIN s : s[j].id = s[k].id => j = k

Length == IF cards = NoFile THEN 0 ELSE Len(cards)
CleanCards == cards # NoFile => Clean(cards)
Agree == hdr = [count |-> Length, max |-> MaxCards] /\ Length <= MaxCards /\ CleanCards

\* What the locals of the section's owner say about the files it will write.
Plan(t) ==
    /\ db = [count |-> db.count, max |-> MaxCards] /\ db.count <= MaxCards
    /\ fn[t] \in {"add", "remove", "format", "save"}
    /\ fn[t] = "add" => /\ db.count = Length + 1 /\ CleanCards
                        /\ cards # NoFile => ~Has(cards, id[t])
    /\ fn[t] = "remove" => db.count = Len(buf) /\ Clean(buf)
    /\ fn[t] = "format" => db.count = 0
    /\ fn[t] = "save" => db.count = Length /\ CleanCards

\* The header does not exist before the first boot has created it, and then
\* neither does the cards file.
FirstBoot ==
    /\ hdr = NoFile =>
         /\ cards = NoFile /\ ~booted
         /\ pc[Main] \in {"mk_exists", "mk_open"} /\ fn[Main] = "init"
    /\ pc[Main] = "mk_open" => hdr = NoFile
    /\ pc[Main] = "mk_write" => hdr = Torn /\ cards = NoFile /\ ~booted /\ fn[Main] = "init"

\* The files at each point of the section.
AtPoint(t) ==
    /\ pc[t] \in {"read", "give"} => Agree
    /\ pc[t] \in {"hdr_open", "hdr_write", "cards_open", "cards_write"} => Plan(t)
    /\ pc[t] \in {"cards_open", "cards_write", "cards_del"} => hdr = db
    /\ pc[t] \in {"cards_open", "cards_write"} => fn[t] \in {"add", "remove"}
    /\ pc[t] = "cards_del" => db = Fresh

Between == owner = None /\ hdr # NoFile /\ pc[Main] # "mk_write" => Agree

Steady == FirstBoot /\ Between /\ \A t \in Threads : AtPoint(t)

NoDiskFaults == Faults \subseteq {"malloc"} /\ MaxCrashes = 0

\* No stat has failed.
Told == misled = {}

-----------------------------------------------------------------------------
(* What can fail.                                                           *)

\* Without disk faults, every read delivers what the file has.
LEMMA AllRead ==
    ASSUME NoDiskFaults, NEW t, NEW lost \in BOOLEAN, Lost(t, lost)
    PROVE  lost = FALSE /\ UNCHANGED misled
BY DEF Lost, NoFault, faults, Unnoticed, Happens, NoDiskFaults

LEMMA AllReading ==
    ASSUME NoDiskFaults, NEW t, NEW f, NEW lost \in BOOLEAN, Reading(t, f, lost)
    PROVE  lost = FALSE
BY AllRead DEF Reading

\* And no thread is told that the header is missing.
LEMMA ToldNext ==
    ASSUME NoDiskFaults, Told, [Next]_vars
    PROVE  Told'
<1>1. CASE UNCHANGED vars
  BY <1>1 DEF vars, faults, Told
<1>2. ASSUME NEW t \in Threads, Step(t) PROVE Told'
  <2>1. CASE \/ ReadAdd(t) \/ ReadRemove(t) \/ ReadCheck(t) \/ ReadCount(t) \/ ReadList(t)
             \/ ReadJson(t) \/ ReadLoad(t) \/ ReadValid(t) \/ ReadSave(t) \/ CardsMissing(t)
    <3>1. \E lost \in BOOLEAN : Lost(t, lost)
      BY <2>1 DEF ReadAdd, ReadRemove, ReadCheck, ReadCount, ReadList, ReadJson, ReadLoad,
         ReadValid, ReadSave, CardsMissing, Reading
    <3>. QED
      BY <3>1, AllRead DEF Told
  <2>2. CASE MkExists(t) \/ MkOpen(t) \/ MkWrite(t) \/ Take(t) \/ Give(t) \/ Return(t)
    BY <2>2 DEF MkExists, MkOpen, MkWrite, Take, Give, Return, Told, NoFault, faults, Fault, Unnoticed,
       StatLies, Happens, NoDiskFaults
  <2>3. CASE \/ ReadFails(t) \/ HdrOpen(t) \/ HdrWrite(t) \/ CardsOpen(t) \/ CardsWrite(t)
             \/ CardsDelete(t)
    BY <2>3 DEF ReadFails, HdrOpen, HdrWrite, CardsOpen, CardsWrite, CardsDelete, Told,
       NoFault, faults, Fault, Unnoticed
  <2>. QED
    BY <1>2, <2>1, <2>2, <2>3 DEF Step
<1>3. CASE (\E t \in Tasks : Call(t)) \/ Crash
  BY <1>3 DEF Call, Crash, faults, Told
<1>. QED
  BY <1>1, <1>2, <1>3 DEF Next

-----------------------------------------------------------------------------
(* Records.                                                                 *)

\* A database without cards is clean.
LEMMA EmptyClean == Clean(<<>>)
BY EmptySeq, LenProperties DEF Clean

\* When the files agree, a read of the cards gets exactly the cards.
LEMMA ReadExact ==
    ASSUME Agree, NEW h \in HdrReads(FALSE), NEW s \in CardReads(h.count, FALSE)
    PROVE  /\ h = hdr /\ h.count = Length /\ h.max = MaxCards /\ Clean(s)
           /\ cards # NoFile => s = cards
<1>1. hdr \in Header /\ h = hdr /\ h.count = Length /\ h.max = MaxCards /\ Length \in Nat
  BY LenProperties, SizesAssumption DEF Agree, HdrReads, Header, Length, CleanCards, Clean
<1>2. CASE cards = NoFile
  <2>1. s \in Seq(Record) /\ Len(s) = 0 /\ DOMAIN s = 1..0
    BY <1>1, <1>2, ReadType DEF Length
  <2>. QED
    BY <1>1, <1>2, <2>1 DEF Clean
<1>3. CASE cards # NoFile
  <2>1. cards \in Seq(Record) /\ DOMAIN cards = 1..Len(cards) /\ Clean(cards)
    BY <1>3, LenProperties DEF Agree, CleanCards, Clean
  <2>2. s \in Seq(Record) /\ Len(s) = Len(cards)
    BY <1>1, <1>3, ReadType DEF Length
  <2>3. ASSUME NEW i \in 1..Len(cards) PROVE s[i] = cards[i]
    <3>1. \A j \in 1..i : j \in 1..Len(cards)
      BY <2>1, LenProperties
    <3>2. Aligned(i)
      BY <2>1, <3>1, ElementOfSeq, FilesAssumption DEF Aligned
    <3>. QED
      BY <1>1, <1>3, <3>2 DEF CardReads, Length
  <2>4. s = cards
    BY <2>1, <2>2, <2>3, SeqEqual
  <2>. QED
    BY <1>1, <2>1, <2>4
<1>. QED
  BY <1>2, <1>3

\* Appending a card with a new id keeps a sequence of records clean.
LEMMA AppendClean ==
    ASSUME NEW s, Clean(s), NEW i \in Ids, ~Has(s, i)
    PROVE  LET a == Append(s, [id |-> i, active |-> TRUE])
           IN  Clean(a) /\ Len(a) = Len(s) + 1
<1>. DEFINE c == [id |-> i, active |-> TRUE]
            a == Append(s, c)
<1>1. c \in Record /\ s \in Seq(Record) /\ DOMAIN s = 1..Len(s) /\ Len(s) \in Nat
  BY LenProperties DEF Record, Clean
<1>2. /\ a \in Seq(Record) /\ Len(a) = Len(s) + 1
      /\ \A k \in 1..Len(s) : a[k] = s[k]
      /\ a[Len(s) + 1] = c
  BY <1>1, AppendProperties
<1>3. DOMAIN a = 1..(Len(s) + 1)
  BY <1>2, LenProperties
<1>4. \A k \in DOMAIN a : a[k].active
  BY <1>1, <1>2, <1>3 DEF Clean
<1>5. \A k \in 1..Len(s) : s[k].id # i
  BY <1>1 DEF Has
<1>6. ASSUME NEW j \in DOMAIN a, NEW k \in DOMAIN a, a[j].id = a[k].id PROVE j = k
  <2>1. c.id = i
    OBVIOUS
  <2>2. CASE j \in 1..Len(s) /\ k \in 1..Len(s)
    BY <1>1, <1>2, <1>6, <2>2 DEF Clean
  <2>3. CASE j = Len(s) + 1 \/ k = Len(s) + 1
    BY <1>1, <1>2, <1>3, <1>5, <1>6, <2>1, <2>3
  <2>. QED
    BY <1>1, <1>3, <2>2, <2>3
<1>. QED
  BY <1>2, <1>4, <1>6 DEF Clean

\* Taking out the record that was found leaves a clean sequence.
LEMMA WithoutClean ==
    ASSUME NEW s, Clean(s), NEW i, Has(s, i)
    PROVE  /\ Clean(Without(s, First(s, i)))
           /\ Len(Without(s, First(s, i))) = Len(s) - 1 /\ Len(s) > 0
<1>1. s \in Seq(Record) /\ DOMAIN s = 1..Len(s) /\ Len(s) \in Nat
  BY LenProperties DEF Clean
<1>2. PICK m \in 1..Len(s) : s[m].id = i
  BY <1>1 DEF Has
<1>3. m \in DOMAIN s /\ \A j \in 1..(m - 1) : s[j].id # i
  BY <1>1, <1>2 DEF Clean
<1>4. First(s, i) \in 1..Len(s)
  BY <1>1, <1>2, <1>3 DEF First
<1>. DEFINE k == First(s, i)
            w == Without(s, k)
<1>. HIDE DEF k
<1>5. Len(s) > 0 /\ k \in 1..Len(s)
  BY <1>1, <1>2, <1>4 DEF k
<1>6. w \in Seq(Record) /\ Len(w) = Len(s) - 1
  BY <1>1, <1>5, WithoutType
<1>7. DOMAIN w = 1..(Len(s) - 1)
  BY DEF Without
<1>8. \A j \in 1..(Len(s) - 1) : w[j] = IF j < k THEN s[j] ELSE s[j + 1]
  BY DEF Without
<1>. DEFINE from(j) == IF j < k THEN j ELSE j + 1
<1>9. \A j \in 1..(Len(s) - 1) : from(j) \in 1..Len(s) /\ w[j] = s[from(j)]
  BY <1>1, <1>5, <1>8
<1>10. \A j, l \in 1..(Len(s) - 1) : from(j) = from(l) => j = l
  BY <1>1, <1>5
<1>. HIDE DEF w, from
<1>11. \A j \in DOMAIN w : w[j].active
  BY <1>1, <1>7, <1>9 DEF Clean
<1>12. \A j, l \in DOMAIN w : w[j].id = w[l].id => j = l
  BY <1>1, <1>7, <1>9, <1>10 DEF Clean
<1>. QED
  BY <1>5, <1>6, <1>11, <1>12 DEF Clean, k, w

-----------------------------------------------------------------------------
(* Who may be where.                                                        *)

\* The header exists and nobody creates it while a thread is in the section.
LEMMA InSection ==
    ASSUME Inv, Steady, NEW t \in Threads, pc[t] \in Section \cup {"take"}
    PROVE  hdr # NoFile /\ pc[Main] \notin Creating
<1>. USE TasksAssumption DEF Inv, Threads, Section, Creating
<1>1. CASE t = Main
  BY <1>1 DEF Steady, FirstBoot
<1>2. CASE t \in Tasks
  BY <1>2 DEF Steady, FirstBoot, BootFirst, DataOK
<1>. QED
  BY <1>1, <1>2

\* A step inside the section only has to restore what holds at its end point.
LEMMA SectionStep ==
    ASSUME Inv', NEW t \in Threads, pc'[t] \in Section, hdr' # NoFile,
           pc'[Main] \notin Creating, AtPoint(t)'
    PROVE  Steady'
<1>1. owner' = t /\ owner' # None
  BY TasksAssumption DEF Inv, Mutex, Threads
<1>2. FirstBoot' /\ Between'
  BY <1>1 DEF FirstBoot, Between, Creating
<1>3. ASSUME NEW u \in Threads, u # t PROVE AtPoint(u)'
  <2>1. pc'[u] \notin Section
    BY <1>1, <1>3 DEF Inv, Mutex
  <2>. QED
    BY <2>1 DEF AtPoint, Section
<1>. QED
  BY <1>2, <1>3 DEF Steady

\* When nobody is in the section afterwards, the files have to agree.
LEMMA FreeStep ==
    ASSUME Inv', owner' = None, FirstBoot', Between'
    PROVE  Steady'
<1>1. \A u \in Threads : pc'[u] \notin Section
  BY TasksAssumption DEF Inv, Mutex, Threads
<1>. QED
  BY <1>1 DEF Steady, AtPoint, Section

\* A step outside the section that leaves the files alone.
LEMMA OutsideStep ==
    ASSUME Inv, Steady, NEW t \in Threads, pc[t] \notin Section, pc'[t] \notin Section,
           \A u \in Threads \ {t} : pc'[u] = pc[u] /\ fn'[u] = fn[u] /\ id'[u] = id[u],
           UNCHANGED <<hdr, cards, owner, db, buf>>,
           FirstBoot', pc[Main] # "mk_write"
    PROVE  Steady'
<1>1. Between'
  BY DEF Steady, Between, Agree, Length, CleanCards
<1>2. AtPoint(t)'
  BY DEF AtPoint, Section
<1>3. ASSUME NEW u \in Threads \ {t} PROVE AtPoint(u)'
  BY <1>3 DEF Steady, AtPoint, Agree, Plan, Length, CleanCards
<1>. QED
  BY <1>1, <1>2, <1>3 DEF Steady

-----------------------------------------------------------------------------
(* The steps.                                                               *)

\* Finding the header, or finding that it is missing, at boot.
LEMMA MkExistsSteady ==
    ASSUME NoDiskFaults, Told, Inv, Inv', Steady, NEW t \in Threads, MkExists(t)
    PROVE  Steady'
<1>. USE TasksAssumption DEF Inv, Threads
<1>1. /\ pc' = [pc EXCEPT ![t] = pc'[t]] /\ pc'[t] \in {"mk_open", "take", "done"}
      /\ UNCHANGED <<hdr, cards, owner, db, buf, booted>>
      /\ \A u \in Threads \ {t} : fn'[u] = fn[u] /\ id'[u] = id[u]
  BY DEF MkExists, MkDone, LoadDefault, Done, Enter, Go, ControlOK
<1>2. CASE hdr = NoFile
  <2>1. t = Main /\ fn[t] = "init" /\ pc'[t] = "mk_open" /\ fn' = fn
    BY <1>2 DEF HeaderThere, Steady, FirstBoot, MkExists, Go, ControlOK
  <2>2. FirstBoot'
    BY <1>1, <1>2, <2>1 DEF Steady, FirstBoot
  <2>. QED
    BY <1>1, <2>1, <2>2, OutsideStep DEF Section, MkExists, ControlOK
<1>3. CASE hdr # NoFile
  <2>1. pc'[t] \in {"take", "done"}
    BY <1>3 DEF MkExists, StatLies, Happens, NoDiskFaults, MkDone, LoadDefault, Done, Enter, Go, ControlOK
  <2>2. pc[Main] # "mk_write"
    BY <1>3, <2>1 DEF MkExists, Steady, FirstBoot, BootFirst, ControlOK
  <2>3. FirstBoot'
    BY <1>1, <1>3, <2>1, <2>2 DEF Steady, FirstBoot, ControlOK
  <2>. QED
    BY <1>1, <2>1, <2>2, <2>3, OutsideStep DEF Section, MkExists, ControlOK
<1>. QED
  BY <1>2, <1>3

\* Creating the header, before any other task calls.
LEMMA MkOpenSteady ==
    ASSUME NoDiskFaults, Told, Inv, Inv', Steady, NEW t \in Threads, MkOpen(t)
    PROVE  Steady'
<1>. USE TasksAssumption DEF Inv, Threads
<1>1. t = Main /\ hdr = NoFile
  BY DEF MkOpen, Told, HeaderThere, Creating, Steady, FirstBoot
<1>2. hdr' = Torn /\ pc' = [pc EXCEPT ![t] = "mk_write"] /\ UNCHANGED <<fn, cards, owner, booted>>
  BY DEF MkOpen, Fault, Unnoticed, StatLies, Happens, NoDiskFaults, Go
<1>3. \A u \in Threads : pc[u] \notin Section
  BY <1>1 DEF MkOpen, Section, BootFirst, Steady, FirstBoot
<1>4. owner' = None
  BY <1>2, <1>3 DEF DataOK, Mutex
<1>5. FirstBoot' /\ Between'
  BY <1>1, <1>2, FilesAssumption DEF Steady, FirstBoot, Between, ControlOK
<1>. QED
  BY <1>4, <1>5, FreeStep

\* The created header counts no cards, and there is no cards file yet.
LEMMA MkWriteSteady ==
    ASSUME NoDiskFaults, Told, Inv, Inv', Steady, NEW t \in Threads, MkWrite(t)
    PROVE  Steady'
<1>. USE TasksAssumption DEF Inv, Threads
<1>1. t = Main /\ cards = NoFile /\ ~booted /\ fn[t] = "init"
  BY DEF MkWrite, Told, HeaderThere, Creating, Steady, FirstBoot
<1>2. hdr' = Fresh /\ pc' = [pc EXCEPT ![t] = "take"] /\ UNCHANGED <<cards, owner, booted>>
  BY <1>1 DEF MkWrite, MkDone, Fault, Unnoticed, StatLies, Happens, NoDiskFaults, Go
<1>3. \A u \in Threads : pc[u] \notin Section
  BY <1>1 DEF MkWrite, Section, BootFirst
<1>4. owner' = None
  BY <1>2, <1>3 DEF DataOK, Mutex
<1>5. Agree'
  BY <1>1, <1>2, SizesAssumption DEF Agree, Fresh, Length, CleanCards
<1>6. FirstBoot' /\ Between'
  BY <1>1, <1>2, <1>5, FreshType, FilesAssumption DEF FirstBoot, Between, ControlOK
<1>. QED
  BY <1>4, <1>6, FreeStep

\* A call starts outside the section.
LEMMA CallSteady ==
    ASSUME Inv, Inv', Steady, NEW t \in Tasks, Call(t)
    PROVE  Steady'
<1>. USE TasksAssumption DEF Inv, Threads
<1>1. /\ pc' = [pc EXCEPT ![t] = pc'[t]] /\ pc'[t] \in {"take", "done"}
      /\ UNCHANGED <<hdr, cards, owner, db, buf, booted>>
      /\ \A u \in Threads \ {t} : fn'[u] = fn[u] /\ id'[u] = id[u]
  BY DEF Call, Done, Go, ControlOK
<1>2. booted /\ pc[Main] = "idle" /\ pc'[Main] = "idle" /\ hdr # NoFile
  BY <1>1 DEF Call, BootFirst, Steady, FirstBoot, ControlOK
<1>3. FirstBoot'
  BY <1>1, <1>2 DEF FirstBoot
<1>. QED
  BY <1>1, <1>2, <1>3, OutsideStep DEF Section, Call, ControlOK

\* A call ends outside the section.
LEMMA ReturnSteady ==
    ASSUME Inv, Inv', Steady, NEW t \in Threads, Return(t)
    PROVE  Steady'
<1>. USE TasksAssumption DEF Inv, Threads
<1>1. /\ pc' = [pc EXCEPT ![t] = "idle"]
      /\ UNCHANGED <<hdr, cards, owner, db, buf>>
      /\ \A u \in Threads \ {t} : fn'[u] = fn[u] /\ id'[u] = id[u]
  BY DEF Return, Go, ControlOK
<1>2. hdr # NoFile /\ pc[Main] \notin Creating
  BY DEF Return, BootFirst, Steady, FirstBoot, Creating, DataOK
<1>3. FirstBoot'
  BY <1>1, <1>2 DEF FirstBoot, Creating, ControlOK
<1>. QED
  BY <1>1, <1>2, <1>3, OutsideStep DEF Section, Return, Creating, ControlOK

\* Whoever enters the section finds files that agree.
LEMMA TakeSteady ==
    ASSUME Inv, Inv', Steady, NEW t \in Threads, Take(t)
    PROVE  Steady'
<1>. USE TasksAssumption DEF Inv, Threads
<1>1. hdr # NoFile /\ pc[Main] \notin Creating
  BY InSection DEF Take
<1>2. Agree /\ UNCHANGED <<hdr, cards, fn>>
  BY <1>1 DEF Take, Steady, Between, Creating, calls
<1>3. Agree'
  BY <1>2 DEF Agree, Length, CleanCards
<1>4. pc'[t] \in {"read", "hdr_open"} /\ pc'[t] \in Section /\ pc'[Main] \notin Creating
  BY <1>1 DEF Take, Go, Section, Creating, ControlOK
<1>5. pc'[t] = "hdr_open" => fn'[t] = "format" /\ db' = Fresh
  BY <1>2 DEF Take, Go, ControlOK
<1>6. pc'[t] = "hdr_open" => Plan(t)'
  BY <1>5, FreshType, SizesAssumption DEF Plan, Fresh
<1>7. AtPoint(t)'
  BY <1>3, <1>4, <1>6 DEF AtPoint
<1>. QED
  BY <1>1, <1>2, <1>4, <1>7, SectionStep

\* A read that ends the call: the files stay as they are.
LEMMA ReadEndSteady ==
    ASSUME Inv, Inv', Steady, NEW t \in Threads, pc[t] = "read",
           pc' = [pc EXCEPT ![t] = "give"], UNCHANGED <<hdr, cards>>
    PROVE  Steady'
<1>. USE TasksAssumption DEF Inv, Threads
<1>1. hdr # NoFile /\ pc[Main] \notin Creating
  BY InSection DEF Section
<1>2. Agree'
  BY DEF Steady, AtPoint, Agree, Length, CleanCards
<1>3. pc'[t] = "give" /\ pc'[t] \in Section /\ pc'[Main] \notin Creating
  BY <1>1 DEF Section, Creating, ControlOK
<1>4. AtPoint(t)'
  BY <1>2, <1>3 DEF AtPoint
<1>. QED
  BY <1>1, <1>3, <1>4, SectionStep

\* A read that decides to write: the plan describes the writes to come.
LEMMA ReadPlanSteady ==
    ASSUME Inv, Inv', Steady, NEW t \in Threads, pc[t] = "read",
           pc' = [pc EXCEPT ![t] = "hdr_open"], UNCHANGED <<hdr, cards>>, Plan(t)'
    PROVE  Steady'
<1>. USE TasksAssumption DEF Inv, Threads
<1>1. hdr # NoFile /\ pc[Main] \notin Creating
  BY InSection DEF Section
<1>2. pc'[t] = "hdr_open" /\ pc'[t] \in Section /\ pc'[Main] \notin Creating
  BY <1>1 DEF Section, Creating, ControlOK
<1>3. AtPoint(t)'
  BY <1>2 DEF AtPoint
<1>. QED
  BY <1>1, <1>2, <1>3, SectionStep

\* add_card: a new id, and room for it, or no write at all.
LEMMA ReadAddSteady ==
    ASSUME NoDiskFaults, Inv, Inv', Steady, NEW t \in Threads, ReadAdd(t)
    PROVE  Steady'
<1>0. pc[t] = "read" /\ fn[t] = "add" /\ UNCHANGED <<hdr, cards, fn, id, buf>> /\ Agree
  BY DEF ReadAdd, Reading, calls, Steady, AtPoint
<1>1. PICK h \in HdrReads(FALSE) : \E s \in CardReads(h.count, FALSE) :
         \/ Finish(t, "INVALID_STATE")
         \/ Finish(t, "NO_MEM")
         \/ /\ ~Has(s, id[t]) /\ h.count < h.max
            /\ db' = [h EXCEPT !.count = @ + 1]
            /\ Go(t, "hdr_open")
  BY AllReading DEF ReadAdd
<1>2. PICK s \in CardReads(h.count, FALSE) :
         \/ Finish(t, "INVALID_STATE")
         \/ Finish(t, "NO_MEM")
         \/ /\ ~Has(s, id[t]) /\ h.count < h.max
            /\ db' = [h EXCEPT !.count = @ + 1]
            /\ Go(t, "hdr_open")
  BY <1>1
<1>3. h = hdr /\ h.count = Length /\ h.max = MaxCards /\ (cards # NoFile => s = cards)
  BY <1>0, ReadExact
<1>4. CASE Finish(t, "INVALID_STATE") \/ Finish(t, "NO_MEM")
  BY <1>0, <1>4, ReadEndSteady DEF Finish, Go
<1>5. CASE ~Has(s, id[t]) /\ h.count < h.max /\ db' = [h EXCEPT !.count = @ + 1] /\ Go(t, "hdr_open")
  <2>1. h = [count |-> Length, max |-> MaxCards] /\ Length \in Nat
    BY <1>0, <1>3, LenProperties DEF Agree, Length, CleanCards, Clean
  <2>2. db' = [count |-> Length + 1, max |-> MaxCards] /\ Length + 1 <= MaxCards
    BY <1>3, <1>5, <2>1, SizesAssumption
  <2>3. Length' = Length /\ CleanCards'
    BY <1>0 DEF Length, CleanCards, Agree
  <2>4. Plan(t)'
    BY <1>0, <1>3, <1>5, <2>2, <2>3 DEF Plan
  <2>. QED
    BY <1>0, <1>5, <2>4, ReadPlanSteady DEF Go
<1>. QED
  BY <1>2, <1>4, <1>5

\* remove_card: the records that remain, or no write at all.
LEMMA ReadRemoveSteady ==
    ASSUME NoDiskFaults, Inv, Inv', Steady, NEW t \in Threads, ReadRemove(t)
    PROVE  Steady'
<1>0. pc[t] = "read" /\ fn[t] = "remove" /\ UNCHANGED <<hdr, cards, fn, id>> /\ Agree
  BY DEF ReadRemove, Reading, calls, Steady, AtPoint
<1>1. PICK h \in HdrReads(FALSE) : \E s \in CardReads(h.count, FALSE) :
         \/ Finish(t, "NOT_FOUND")
         \/ /\ Has(s, id[t])
            /\ db' = [h EXCEPT !.count = @ - 1]
            /\ buf' = Without(s, First(s, id[t]))
            /\ Go(t, "hdr_open")
  BY AllReading DEF ReadRemove
<1>2. PICK s \in CardReads(h.count, FALSE) :
         \/ Finish(t, "NOT_FOUND")
         \/ /\ Has(s, id[t])
            /\ db' = [h EXCEPT !.count = @ - 1]
            /\ buf' = Without(s, First(s, id[t]))
            /\ Go(t, "hdr_open")
  BY <1>1
<1>3. h = hdr /\ h.count = Length /\ Clean(s)
  BY <1>0, ReadExact
<1>4. CASE Finish(t, "NOT_FOUND")
  BY <1>0, <1>4, ReadEndSteady DEF Finish, Go
<1>5. CASE /\ Has(s, id[t]) /\ db' = [h EXCEPT !.count = @ - 1]
           /\ buf' = Without(s, First(s, id[t])) /\ Go(t, "hdr_open")
  <2>1. h = [count |-> Length, max |-> MaxCards] /\ Length \in Nat /\ Length <= MaxCards
    BY <1>0, <1>3, LenProperties DEF Agree, Length, CleanCards, Clean
  <2>2. Clean(buf') /\ Len(buf') = Len(s) - 1
    BY <1>3, <1>5, WithoutClean
  <2>3. Len(s) = Length
    BY <1>3, <2>1, ReadType
  <2>4. db' = [count |-> Length - 1, max |-> MaxCards]
    BY <1>5, <2>1
  <2>5. Plan(t)'
    BY <1>0, <2>1, <2>2, <2>3, <2>4, SizesAssumption DEF Plan
  <2>. QED
    BY <1>0, <1>5, <2>5, ReadPlanSteady DEF Go
<1>. QED
  BY <1>2, <1>4, <1>5

\* save_to_file: the header it writes is the one it read.
LEMMA ReadSaveSteady ==
    ASSUME NoDiskFaults, Inv, Inv', Steady, NEW t \in Threads, ReadSave(t)
    PROVE  Steady'
<1>1. pc[t] = "read" /\ fn[t] = "save" /\ UNCHANGED <<hdr, cards, fn>> /\ Agree
  BY DEF ReadSave, Reading, calls, Steady, AtPoint
<1>2. hdr \in Header
  BY <1>1, LenProperties, SizesAssumption DEF Agree, Header, Length, CleanCards, Clean
<1>3. db' = hdr
  BY <1>2, AllReading DEF ReadSave, HdrReads
<1>4. Length' = Length /\ CleanCards'
  BY <1>1 DEF Length, CleanCards, Agree
<1>5. Plan(t)'
  BY <1>1, <1>3, <1>4 DEF Plan, Agree
<1>. QED
  BY <1>1, <1>5, ReadPlanSteady DEF ReadSave, Go

\* The header is empty; its new value is in db.
LEMMA HdrOpenSteady ==
    ASSUME Inv, Inv', Steady, NoDiskFaults, NEW t \in Threads, HdrOpen(t)
    PROVE  Steady'
<1>. USE TasksAssumption DEF Inv, Threads
<1>1. hdr' = Torn /\ pc' = [pc EXCEPT ![t] = "hdr_write"] /\ UNCHANGED <<cards, db, buf, fn, id>>
  BY DEF HdrOpen, Fault, Unnoticed, StatLies, Happens, NoDiskFaults, Go, calls
<1>2. pc[Main] \notin Creating /\ Plan(t)
  BY InSection DEF HdrOpen, Section, Steady, AtPoint
<1>3. Plan(t)'
  BY <1>1, <1>2 DEF Plan, Length, CleanCards
<1>4. pc'[t] = "hdr_write" /\ pc'[t] \in Section /\ pc'[Main] \notin Creating
  BY <1>1, <1>2 DEF Section, Creating, ControlOK
<1>5. AtPoint(t)'
  BY <1>3, <1>4 DEF AtPoint
<1>. QED
  BY <1>1, <1>4, <1>5, SectionStep, FilesAssumption

\* The header is written; the cards file is still to follow it.
LEMMA HdrWriteSteady ==
    ASSUME Inv, Inv', Steady, NoDiskFaults, NEW t \in Threads, HdrWrite(t)
    PROVE  Steady'
<1>. USE TasksAssumption DEF Inv, Threads
<1>1. /\ hdr' = db /\ HdrWritten(t) /\ UNCHANGED <<cards, db, buf, fn, id>>
      /\ pc' = [pc EXCEPT ![t] = pc'[t]]
  BY DEF HdrWrite, HdrWritten, Fault, Unnoticed, StatLies, Happens, NoDiskFaults, Go, Finish, calls, ControlOK
<1>2. pc[Main] \notin Creating /\ Plan(t)
  BY InSection DEF HdrWrite, Section, Steady, AtPoint
<1>3. Plan(t)' /\ Length' = Length /\ CleanCards' = CleanCards
  BY <1>1, <1>2 DEF Plan, Length, CleanCards
<1>4. /\ pc'[t] \in {"cards_open", "cards_del", "give"}
      /\ pc'[t] = "cards_open" => fn[t] \in {"add", "remove"}
      /\ pc'[t] = "cards_del" => fn[t] = "format" \/ (fn[t] = "remove" /\ ~(db.count > 0))
      /\ pc'[t] = "give" => fn[t] = "save"
  BY <1>1, <1>2 DEF HdrWritten, Go, Finish, ControlOK, Plan
<1>5. pc'[t] = "cards_del" => db' = Fresh
  BY <1>1, <1>2, <1>4 DEF Plan, Fresh, DataOK, Header
<1>6. pc'[t] = "give" => Agree'
  BY <1>1, <1>2, <1>3, <1>4 DEF Plan, Agree
<1>7. pc'[t] \in Section /\ pc'[Main] \notin Creating /\ hdr' # NoFile
  BY <1>1, <1>2, <1>4, FilesAssumption DEF Section, Creating, ControlOK, DataOK
<1>8. AtPoint(t)'
  BY <1>1, <1>3, <1>4, <1>5, <1>6 DEF AtPoint
<1>. QED
  BY <1>7, <1>8, SectionStep

\* The cards file is ready for the write that was planned.
LEMMA CardsOpenSteady ==
    ASSUME Inv, Inv', Steady, NoDiskFaults, NEW t \in Threads, CardsOpen(t)
    PROVE  Steady'
<1>. USE TasksAssumption DEF Inv, Threads
<1>1. /\ cards' = (IF fn[t] = "add" /\ cards # NoFile THEN cards ELSE <<>>)
      /\ pc' = [pc EXCEPT ![t] = "cards_write"] /\ UNCHANGED <<hdr, db, buf, fn, id>>
  BY DEF CardsOpen, Fault, Unnoticed, StatLies, Happens, NoDiskFaults, Go, calls
<1>2. hdr # NoFile /\ pc[Main] \notin Creating /\ Plan(t) /\ hdr = db /\ fn[t] \in {"add", "remove"}
  BY InSection DEF CardsOpen, Section, Steady, AtPoint
<1>3. fn[t] = "add" => Length' = Length /\ CleanCards' /\ (cards' # NoFile => ~Has(cards', id[t]))
  BY <1>1, <1>2, EmptyClean, EmptySeq DEF Plan, Length, CleanCards, Has
<1>4. Plan(t)'
  BY <1>1, <1>2, <1>3 DEF Plan
<1>5. pc'[t] = "cards_write" /\ pc'[t] \in Section /\ pc'[Main] \notin Creating
  BY <1>1, <1>2 DEF Section, Creating, ControlOK
<1>6. AtPoint(t)'
  BY <1>1, <1>2, <1>4, <1>5 DEF AtPoint
<1>. QED
  BY <1>1, <1>2, <1>5, <1>6, SectionStep

\* The cards file is written: the files agree again.
LEMMA CardsWriteSteady ==
    ASSUME Inv, Inv', Steady, NoDiskFaults, NEW t \in Threads, CardsWrite(t)
    PROVE  Steady'
<1>. USE TasksAssumption DEF Inv, Threads
<1>1. /\ cards' = (IF fn[t] = "add" THEN Append(cards, NewCard(t)) ELSE buf)
      /\ pc' = [pc EXCEPT ![t] = "give"] /\ UNCHANGED hdr
  BY DEF CardsWrite, Fault, Unnoticed, StatLies, Happens, NoDiskFaults, Go, Finish
<1>2. /\ hdr # NoFile /\ pc[Main] \notin Creating /\ Plan(t) /\ hdr = db
      /\ fn[t] \in {"add", "remove"} /\ cards # NoFile /\ id[t] \in Ids
  BY InSection DEF CardsWrite, Section, Steady, AtPoint, Opened, ControlOK
<1>3. Clean(cards') /\ Len(cards') = db.count
  BY <1>1, <1>2, AppendClean DEF Plan, NewCard, Length, CleanCards
<1>4. cards' # NoFile
  BY <1>3, SeqMonotonic, FilesAssumption DEF Clean
<1>5. Agree'
  BY <1>1, <1>2, <1>3, <1>4 DEF Agree, Plan, Length, CleanCards
<1>6. pc'[t] = "give" /\ pc'[t] \in Section /\ pc'[Main] \notin Creating
  BY <1>1, <1>2 DEF Section, Creating, ControlOK
<1>7. AtPoint(t)'
  BY <1>5, <1>6 DEF AtPoint
<1>. QED
  BY <1>1, <1>2, <1>6, <1>7, SectionStep

\* The cards file is gone, and the header counts no cards.
LEMMA CardsDeleteSteady ==
    ASSUME Inv, Inv', Steady, NoDiskFaults, NEW t \in Threads, CardsDelete(t)
    PROVE  Steady'
<1>. USE TasksAssumption DEF Inv, Threads
<1>1. cards' = NoFile /\ pc' = [pc EXCEPT ![t] = "give"] /\ UNCHANGED hdr
  BY DEF CardsDelete, Fault, Unnoticed, StatLies, Happens, NoDiskFaults, Go, Finish
<1>2. hdr # NoFile /\ pc[Main] \notin Creating /\ hdr = Fresh
  BY InSection DEF CardsDelete, Section, Steady, AtPoint
<1>3. Agree'
  BY <1>1, <1>2, SizesAssumption DEF Agree, Fresh, Length, CleanCards
<1>4. pc'[t] = "give" /\ pc'[t] \in Section /\ pc'[Main] \notin Creating
  BY <1>1, <1>2 DEF Section, Creating, ControlOK
<1>5. AtPoint(t)'
  BY <1>3, <1>4 DEF AtPoint
<1>. QED
  BY <1>1, <1>2, <1>4, <1>5, SectionStep

\* The section is left with files that agree.
LEMMA GiveSteady ==
    ASSUME Inv, Inv', Steady, NEW t \in Threads, Give(t)
    PROVE  Steady'
<1>. USE TasksAssumption DEF Inv, Threads
<1>1. owner' = None /\ UNCHANGED <<hdr, cards>> /\ pc' = [pc EXCEPT ![t] = pc'[t]]
  BY DEF Give, Go, Enter, LoadDefault, Done, ControlOK
<1>2. pc'[t] \in {"mk_exists", "take", "done"}
  BY DEF Give, Go, Enter, LoadDefault, Done, ControlOK
<1>3. hdr # NoFile /\ pc[Main] \notin Creating /\ Agree
  BY InSection DEF Give, Section, Steady, AtPoint
<1>4. Agree'
  BY <1>1, <1>3 DEF Agree, Length, CleanCards
<1>5. FirstBoot' /\ Between'
  BY <1>1, <1>2, <1>3, <1>4 DEF FirstBoot, Between, Creating, ControlOK
<1>. QED
  BY <1>1, <1>5, FreeStep

\* There are no files yet, and nobody may call.
LEMMA InitSteady == Init => Steady
BY TasksAssumption DEF Init, Steady, FirstBoot, Between, AtPoint, Booting, Threads

\* Every step keeps the files in step with the program point.
LEMMA NextSteady ==
    ASSUME NoDiskFaults, Told, Inv, Inv', Steady, [Next]_vars
    PROVE  Steady'
<1>1. CASE UNCHANGED vars
  BY <1>1 DEF vars, Steady, FirstBoot, Between, AtPoint, Agree, Plan, Length, CleanCards
<1>2. ASSUME NEW t \in Tasks, Call(t) PROVE Steady'
  BY <1>2, CallSteady
<1>3. ASSUME NEW t \in Threads,
             \/ ReadFails(t) \/ CardsMissing(t) \/ ReadCheck(t) \/ ReadCount(t)
             \/ ReadList(t) \/ ReadJson(t) \/ ReadLoad(t) \/ ReadValid(t)
      PROVE  Steady'
  <2>1. pc[t] = "read" /\ pc' = [pc EXCEPT ![t] = "give"] /\ UNCHANGED <<hdr, cards>>
    BY <1>3 DEF ReadFails, CardsMissing, ReadCheck, ReadCount, ReadList, ReadJson, ReadLoad,
       ReadValid, Reading, Finish, Go
  <2>. QED
    BY <2>1, ReadEndSteady
<1>4. ASSUME NEW t \in Threads, Step(t) PROVE Steady'
  BY <1>3, <1>4, MkExistsSteady, MkOpenSteady, MkWriteSteady, TakeSteady, ReadAddSteady,
     ReadRemoveSteady, ReadSaveSteady, HdrOpenSteady, HdrWriteSteady, CardsOpenSteady,
     CardsWriteSteady, CardsDeleteSteady, GiveSteady, ReturnSteady DEF Step
<1>5. CASE Crash
  BY <1>5 DEF Crash, NoDiskFaults, Inv, DataOK
<1>. QED
  BY <1>1, <1>2, <1>4, <1>5 DEF Next

\* Without faults and restarts, whatever the tasks call and however their calls
\* interleave: whenever nobody holds rfid_mutex, the header counts exactly the
\* records of the cards file, which are whole, active and without a double id.
THEOREM Consistency == ASSUME NoDiskFaults PROVE Spec => []Consistent
<1>1. Init => Inv /\ Told /\ Steady
  BY InitInv, InitSteady DEF Init, Told
<1>2. Inv /\ Told /\ Steady /\ [Next]_vars => (Inv /\ Told /\ Steady)'
  BY NextInv, ToldNext, NextSteady
<1>3. Inv /\ Steady => Consistent
  <2>. SUFFICES ASSUME Inv, Steady, Resting PROVE Intact
    BY DEF Consistent
  <2>1. Agree
    BY DEF Resting, Inv, BootFirst, Steady, FirstBoot, Between
  <2>2. hdr = [count |-> Length, max |-> MaxCards] /\ Length \in Nat
    BY <2>1, LenProperties DEF Agree, Length, CleanCards, Clean
  <2>3. hdr \in Header /\ hdr.count <= hdr.max /\ hdr.max = MaxCards
    BY <2>1, <2>2, SizesAssumption DEF Agree, Header
  <2>4. IF cards = NoFile THEN hdr.count = 0 ELSE Len(cards) = hdr.count
    BY <2>2 DEF Length
  <2>5. cards # NoFile =>
          /\ \A k \in DOMAIN cards : cards[k] \in Record /\ cards[k].active
          /\ \A j, k \in DOMAIN cards : cards[j].id = cards[k].id => j = k
    BY <2>1, ElementOfSeq, LenProperties DEF Agree, CleanCards, Clean
  <2>. QED
    BY <2>3, <2>4, <2>5 DEF Intact
<1>. QED
  BY <1>1, <1>2, <1>3, PTL DEF Spec

-----------------------------------------------------------------------------
(* The refinement of RfidDb: what each call is about to answer.             *)

Held == IF cards = NoFile THEN {} ELSE CardIds(cards)
Malloc == "malloc" \in Faults

\* Where a function can be.
FunctionOf(t) ==
    /\ fn[t] = "init" => pc[t] \in {"idle", "mk_exists"} \cup Creating
    /\ fn[t] = "load" => pc[t] \in {"take", "read", "give"}
    /\ fn[t] = "defaults" => pc[t] = "mk_exists"
    /\ pc[t] = "mk_exists" => fn[t] \in {"init", "defaults"}
    /\ pc[t] = "cards_del" => fn[t] \in {"format", "remove"}
    /\ fn[t] # "revert"

\* The default card that load_defaults is at.
Next_default(t) == nxt[t] \in DOMAIN Defaults /\ id[t] = Defaults[nxt[t]]

\* The result that a section ends with.
ResultOf(t) ==
    pc[t] = "give" =>
        /\ fn[t] = "format" => res[t] = "OK"
        /\ fn[t] = "add" =>
             \/ res[t] \in {"OK", "INVALID_STATE"} /\ id[t] \in Held
             \/ res[t] = "NO_MEM" /\ (Malloc \/ (Length >= MaxCards /\ id[t] \notin Held))

\* remove_card's copy is the database without its card.
CopyOf(t) ==
    fn[t] = "remove" =>
        /\ pc[t] \in {"hdr_open", "hdr_write", "cards_open", "cards_del"} =>
             cards # NoFile /\ id[t] \in Held /\ CardIds(buf) = Held \ {id[t]}
        /\ pc[t] = "cards_write" => id[t] \notin CardIds(buf)
        /\ pc[t] = "cards_del" => CardIds(buf) = {}

\* The call of a task: an answer exists once the section is over, and not before.
CallOf(t) ==
    /\ pc[t] = "idle" => top[t] = "boot" /\ id[t] = Admin /\ res[t] = None
    /\ pc[t] # "idle" => \/ top[t] \in Api \ {"reset"} /\ fn[t] = top[t]
                         \/ top[t] = "reset" /\ fn[t] \in {"format", "defaults", "add"}
    /\ pc[t] \notin {"give", "done"} => res[t] = None
    /\ pc[t] \in {"give", "done"} => res[t] # None
    /\ fn[t] = "remove" /\ pc[t] # "done" => id[t] # Admin
    /\ top[t] = "reset" /\ fn[t] = "add" /\ pc[t] # "done" => Next_default(t)

\* app_main's own adds, before any task calls.
BootOf(t) ==
    pc[t] # "idle" =>
        /\ top[t] = "boot" /\ fn[t] \in {"init", "load", "defaults", "add"}
        /\ fn[t] = "add" /\ pc[t] # "done" =>
             Next_default(t) /\ \A k \in 1..(nxt[t] - 1) : Defaults[k] \in Held
        /\ pc[t] = "done" =>
             (\A k \in DOMAIN Defaults : Defaults[k] \in Held) \/ Length >= MaxCards \/ Malloc

Claims(t) ==
    /\ FunctionOf(t) /\ ResultOf(t) /\ CopyOf(t)
    /\ t \in Tasks => CallOf(t)
    /\ t = Main => BootOf(t)

Linked == \A t \in Threads : Claims(t)

-----------------------------------------------------------------------------
(* The ids of a sequence of records.                                        *)

\* A clean sequence has as many ids as records.
LEMMA CleanIds ==
    ASSUME NEW s, Clean(s)
    PROVE  IsFiniteSet(CardIds(s)) /\ Cardinality(CardIds(s)) = Len(s)
<1>. DEFINE n == Len(s)
            f == [k \in 1..n |-> s[k].id]
<1>1. n \in Nat /\ DOMAIN s = 1..n
  BY LenProperties DEF Clean
<1>2. IsFiniteSet(1..n) /\ Cardinality(1..n) = n
  <2>1. IsFiniteSet(1..n) /\ Cardinality(1..n) = IF 1 > n THEN 0 ELSE n - 1 + 1
    BY <1>1, FS_Interval
  <2>2. (IF 1 > n THEN 0 ELSE n - 1 + 1) = n
    BY <1>1
  <2>. QED
    BY <2>1, <2>2
<1>3. f \in [1..n -> CardIds(s)]
  BY <1>1 DEF CardIds
<1>4. \A j, k \in 1..n : f[j] = f[k] => j = k
  BY <1>1 DEF Clean
<1>5. \A i \in CardIds(s) : \E k \in 1..n : f[k] = i
  BY <1>1 DEF CardIds
<1>6. f \in Bijection(1..n, CardIds(s))
  BY <1>3, <1>4, <1>5 DEF Bijection, Injection, Surjection, IsInjective
<1>7. ExistsBijection(1..n, CardIds(s))
  BY <1>6 DEF ExistsBijection
<1>. QED
  BY <1>2, <1>7, FS_Bijection

\* No records, no ids.
LEMMA NoIds == CardIds(<<>>) = {}
<1>1. Len(<<>>) = 0 /\ <<>> \in Seq(Record)
  BY EmptySeq
<1>2. DOMAIN <<>> = 1..0
  BY <1>1, LenProperties
<1>. QED
  BY <1>2 DEF CardIds

\* Appending a record adds its id.
LEMMA AppendIds ==
    ASSUME NEW s \in Seq(Record), NEW c \in Record
    PROVE  CardIds(Append(s, c)) = CardIds(s) \cup {c.id}
<1>. DEFINE a == Append(s, c)
<1>1. DOMAIN s = 1..Len(s) /\ Len(s) \in Nat
  BY LenProperties
<1>2. /\ a \in Seq(Record) /\ Len(a) = Len(s) + 1
      /\ \A k \in 1..Len(s) : a[k] = s[k]
      /\ a[Len(s) + 1] = c
  BY <1>1, AppendProperties
<1>3. DOMAIN a = 1..(Len(s) + 1)
  BY <1>2, LenProperties
<1>. HIDE DEF a
<1>4. \A k \in DOMAIN s : k \in DOMAIN a /\ a[k].id = s[k].id
  BY <1>1, <1>2, <1>3
<1>5. Len(s) + 1 \in DOMAIN a /\ a[Len(s) + 1].id = c.id
  BY <1>1, <1>2, <1>3
<1>6. \A k \in DOMAIN a : k \in DOMAIN s \/ k = Len(s) + 1
  BY <1>1, <1>3
<1>7. CardIds(a) \subseteq CardIds(s) \cup {c.id}
  BY <1>4, <1>5, <1>6 DEF CardIds
<1>8. CardIds(s) \cup {c.id} \subseteq CardIds(a)
  BY <1>4, <1>5 DEF CardIds
<1>. QED
  BY <1>7, <1>8 DEF a

\* The search finds a record with the id.
LEMMA FirstFound ==
    ASSUME NEW s, Clean(s), NEW i, Has(s, i)
    PROVE  First(s, i) \in DOMAIN s /\ s[First(s, i)].id = i
<1>1. s \in Seq(Record) /\ DOMAIN s = 1..Len(s) /\ Len(s) \in Nat
  BY LenProperties DEF Clean
<1>2. PICK m \in 1..Len(s) : s[m].id = i
  BY <1>1 DEF Has
<1>3. m \in DOMAIN s /\ \A j \in 1..(m - 1) : s[j].id # i
  BY <1>1, <1>2 DEF Clean
<1>. QED
  BY <1>1, <1>2, <1>3 DEF First

\* Taking out the record that was found takes out its id, and no other.
LEMMA WithoutIds ==
    ASSUME NEW s, Clean(s), NEW i, Has(s, i)
    PROVE  CardIds(Without(s, First(s, i))) = CardIds(s) \ {i}
<1>1. s \in Seq(Record) /\ DOMAIN s = 1..Len(s) /\ Len(s) \in Nat
  BY LenProperties DEF Clean
<1>4. First(s, i) \in 1..Len(s) /\ s[First(s, i)].id = i
  BY <1>1, FirstFound
<1>. DEFINE k == First(s, i)
            w == Without(s, k)
            from(j) == IF j < k THEN j ELSE j + 1
<1>. HIDE DEF k
<1>5. DOMAIN w = 1..(Len(s) - 1) /\ k \in 1..Len(s) /\ s[k].id = i
  BY <1>4 DEF Without, k
<1>6. \A j \in 1..(Len(s) - 1) : w[j] = s[from(j)] /\ from(j) \in 1..Len(s) /\ from(j) # k
  BY <1>1, <1>5 DEF Without
<1>7. \A j \in 1..Len(s) : j # k => \E l \in 1..(Len(s) - 1) : from(l) = j
  <2>. SUFFICES ASSUME NEW j \in 1..Len(s), j # k PROVE \E l \in 1..(Len(s) - 1) : from(l) = j
    OBVIOUS
  <2>1. CASE j < k
    BY <1>1, <1>5, <2>1
  <2>2. CASE j > k
    <3>1. j - 1 \in 1..(Len(s) - 1) /\ from(j - 1) = j
      BY <1>1, <1>5, <2>2
    <3>. QED
      BY <3>1
  <2>. QED
    BY <1>1, <1>5, <2>1, <2>2
<1>. HIDE DEF w, from
<1>8. CardIds(w) \subseteq CardIds(s) \ {i}
  BY <1>1, <1>5, <1>6 DEF CardIds, Clean
<1>9. ASSUME NEW x \in CardIds(s) \ {i} PROVE x \in CardIds(w)
  <2>1. PICK j \in 1..Len(s) : s[j].id = x
    BY <1>1 DEF CardIds
  <2>2. PICK l \in 1..(Len(s) - 1) : from(l) = j
    BY <1>5, <1>7, <1>9, <2>1
  <2>. QED
    BY <1>5, <1>6, <2>1, <2>2 DEF CardIds
<1>. QED
  BY <1>8, <1>9 DEF w, k

\* When the files agree, the header counts the ids.
LEMMA HeldCount ==
    ASSUME Agree
    PROVE  IsFiniteSet(Held) /\ Cardinality(Held) = Length /\ Length \in Nat
<1>1. CASE cards = NoFile
  BY <1>1, FS_EmptySet DEF Held, Length
<1>2. CASE cards # NoFile
  BY <1>2, CleanIds, LenProperties DEF Agree, CleanCards, Held, Length, Clean
<1>. QED
  BY <1>1, <1>2

-----------------------------------------------------------------------------
(* What a step leaves alone.                                                *)

\* The other threads stay where they are.
Others(t) ==
    \A u \in Threads \ {t} :
        /\ pc'[u] = pc[u] /\ top'[u] = top[u] /\ fn'[u] = fn[u]
        /\ id'[u] = id[u] /\ nxt'[u] = nxt[u] /\ res'[u] = res[u]

\* A thread changes its own program point, arguments and result only.
LEMMA StepOthers == ASSUME Inv, NEW t \in Threads, Step(t) PROVE Others(t)
<1>. USE DEF Inv, ControlOK, Others
<1>1. CASE Return(t)
  BY <1>1 DEF Return, Go
<1>2. CASE MkExists(t) \/ MkOpen(t) \/ MkWrite(t)
  BY <1>2 DEF MkExists, MkOpen, MkWrite, MkDone, MkFailed, LoadDefault, Done, Enter, Go
<1>3. CASE Take(t)
  BY <1>3 DEF Take, Go, calls
<1>4. CASE Give(t)
  BY <1>4 DEF Give, LoadDefault, Done, Enter, Go
<1>5. CASE ReadFails(t) \/ CardsMissing(t)
  BY <1>5 DEF ReadFails, CardsMissing, Finish, Go, calls
<1>6. CASE \/ ReadAdd(t) \/ ReadRemove(t) \/ ReadCheck(t) \/ ReadCount(t) \/ ReadList(t)
           \/ ReadJson(t) \/ ReadLoad(t) \/ ReadValid(t) \/ ReadSave(t)
  <2>1. UNCHANGED calls
    BY <1>6 DEF ReadAdd, ReadRemove, ReadCheck, ReadCount, ReadList, ReadJson, ReadLoad,
       ReadValid, ReadSave, Reading
  <2>2. \E p, r : pc' = [pc EXCEPT ![t] = p] /\ (res' = [res EXCEPT ![t] = r] \/ res' = res)
    BY <1>6 DEF ReadAdd, ReadRemove, ReadCheck, ReadCount, ReadList, ReadJson, ReadLoad,
       ReadValid, ReadSave, Finish, Go
  <2>. QED
    BY <2>1, <2>2 DEF calls
<1>7. CASE HdrOpen(t) \/ HdrWrite(t)
  BY <1>7 DEF HdrOpen, HdrWrite, HdrWritten, Finish, Go, calls
<1>8. CASE CardsOpen(t)
  BY <1>8 DEF CardsOpen, CardsFailed, Finish, Go, calls
<1>9. CASE CardsWrite(t)
  BY <1>9 DEF CardsWrite, CardsFailed, Finish, Go, calls
<1>10. CASE CardsDelete(t)
  BY <1>10 DEF CardsDelete, Finish, Go, calls
<1>. QED
  BY <1>1, <1>2, <1>3, <1>4, <1>5, <1>6, <1>7, <1>8, <1>9, <1>10 DEF Step

LEMMA CallOthers == ASSUME Inv, NEW t \in Tasks, Call(t) PROVE Others(t)
<1>1. \E p, r : pc' = [pc EXCEPT ![t] = p] /\ res' = [res EXCEPT ![t] = r]
  BY DEF Call, Done, Go
<1>. QED
  BY <1>1 DEF Call, Inv, ControlOK, Others

\* A task moves only once app_main is idle, for good.
LEMMA AfterBoot ==
    ASSUME Inv, NEW t \in Tasks, pc[t] # "idle" \/ booted
    PROVE  booted /\ pc[Main] = "idle"
BY DEF Inv, BootFirst, DataOK

\* The claims about the others survive a step of one thread.
LEMMA LinkedStep ==
    ASSUME Inv, Linked, NEW t \in Threads, Others(t),
           pc[t] \in Section \/ UNCHANGED <<cards, buf>>,
           t \in Tasks => pc[Main] = "idle", Claims(t)'
    PROVE  Linked'
<1>. SUFFICES ASSUME NEW u \in Threads, u # t PROVE Claims(u)'
  BY DEF Linked
<1>1. /\ pc'[u] = pc[u] /\ top'[u] = top[u] /\ fn'[u] = fn[u]
      /\ id'[u] = id[u] /\ nxt'[u] = nxt[u] /\ res'[u] = res[u]
  BY DEF Others
<1>2. Claims(u)
  BY DEF Linked
<1>3. pc[u] \notin Section \/ UNCHANGED <<cards, buf>>
  BY DEF Inv, Mutex
<1>4. UNCHANGED <<cards, buf>> => Held' = Held /\ Length' = Length
  BY DEF Held, Length
<1>5. FunctionOf(u)'
  BY <1>1, <1>2 DEF Claims, FunctionOf
<1>6. ResultOf(u)'
  BY <1>1, <1>2, <1>3, <1>4 DEF Claims, ResultOf, Section
<1>7. CopyOf(u)'
  BY <1>1, <1>2, <1>3, <1>4 DEF Claims, CopyOf, Section
<1>8. u \in Tasks => CallOf(u)'
  BY <1>1, <1>2 DEF Claims, CallOf, Next_default
<1>9. u = Main => BootOf(u)'
  <2>. SUFFICES ASSUME u = Main PROVE BootOf(u)'
    OBVIOUS
  <2>1. t \in Tasks
    BY DEF Threads
  <2>2. pc'[u] = "idle"
    BY <1>1, <2>1
  <2>. QED
    BY <2>2 DEF BootOf
<1>. QED
  BY <1>5, <1>6, <1>7, <1>8, <1>9 DEF Claims

-----------------------------------------------------------------------------
(* Linked is inductive.                                                     *)

\* A step only has to keep the claims about the thread that takes it.
LEMMA StepLinked ==
    ASSUME Inv, Linked, NEW t \in Threads, Step(t),
           pc[t] \in Section \/ UNCHANGED <<cards, buf>>, Claims(t)'
    PROVE  Linked'
BY StepOthers, StepAlone, AfterBoot, LinkedStep DEF Threads

\* The thread at one program point goes to another, inside the same function.
LEMMA WithinFunction ==
    ASSUME Inv, NEW t \in Threads, Claims(t), NEW p \in {"read", "hdr_open", "hdr_write", "cards_open", "cards_write", "cards_del"},
           pc[t] \notin {"idle", "give", "done"},
           pc' = [pc EXCEPT ![t] = p], UNCHANGED <<calls, res>>,
           fn[t] \notin {"init", "defaults"},
           fn[t] = "load" => p = "read",
           p = "cards_del" => fn[t] \in {"format", "remove"},
           CopyOf(t)', Held' = Held
    PROVE  Claims(t)'
<1>. USE TasksAssumption DEF Inv, calls
<1>1. pc'[t] = p /\ UNCHANGED <<top, fn, id, nxt, res>>
  BY DEF ControlOK
<1>2. FunctionOf(t)'
  BY <1>1 DEF Claims, FunctionOf, Creating
<1>3. ResultOf(t)'
  BY <1>1 DEF ResultOf
<1>4. t \in Tasks => CallOf(t)'
  BY <1>1 DEF Claims, CallOf, Next_default
<1>5. t = Main => BootOf(t)'
  BY <1>1 DEF Claims, BootOf, Next_default
<1>. QED
  BY <1>2, <1>3, <1>4, <1>5 DEF Claims

\* The section ends with a result that the function may have.
LEMMA SectionEnds ==
    ASSUME Inv, NEW t \in Threads, Claims(t), NEW r \in Results,
           pc[t] \in Section \ {"give"},
           pc' = [pc EXCEPT ![t] = "give"], res' = [res EXCEPT ![t] = r], UNCHANGED calls,
           ResultOf(t)',
           t = Main => Held \subseteq Held'
    PROVE  Claims(t)'
<1>. USE TasksAssumption DEF Inv, calls
<1>1. pc'[t] = "give" /\ res'[t] = r /\ UNCHANGED <<top, fn, id, nxt>>
  BY DEF ControlOK
<1>2. r # None
  BY NoneAssumption
<1>3. FunctionOf(t)'
  BY <1>1 DEF Claims, FunctionOf, Creating, Section
<1>4. CopyOf(t)'
  BY <1>1 DEF CopyOf
<1>5. t \in Tasks => CallOf(t)'
  BY <1>1, <1>2 DEF Claims, CallOf, Next_default, Section
<1>6. t = Main => BootOf(t)'
  BY <1>1 DEF Claims, BootOf, Next_default, Section
<1>. QED
  BY <1>1, <1>3, <1>4, <1>5, <1>6 DEF Claims

\* A program point is in the section.
LEMMA SectionPoints ==
    /\ "read" \in Section \ {"give"} /\ "hdr_open" \in Section \ {"give"}
    /\ "hdr_write" \in Section \ {"give"} /\ "cards_open" \in Section \ {"give"}
    /\ "cards_write" \in Section \ {"give"} /\ "cards_del" \in Section \ {"give"}
    /\ "give" \in Section
BY DEF Section

\* load_defaults is at a default card, or past the last one.
LEMMA LoadDefaultTo ==
    ASSUME Inv, NEW t \in Threads, NEW n \in Nat \ {0}, LoadDefault(t, n), UNCHANGED top
    PROVE  /\ nxt'[t] = n /\ top'[t] = top[t]
           /\ n \in DOMAIN Defaults =>
                pc'[t] = "take" /\ fn'[t] = "add" /\ id'[t] = Defaults[n] /\ res'[t] = None
           /\ n \notin DOMAIN Defaults =>
                pc'[t] = "done" /\ res'[t] = "OK" /\ fn'[t] = fn[t] /\ id'[t] = id[t]
<1>1. n \in DOMAIN Defaults <=> ~(n > Len(Defaults))
  BY IdsAssumption, LenProperties
<1>. QED
  BY <1>1 DEF LoadDefault, Done, Enter, Go, Inv, ControlOK

\* There is a first default card.
LEMMA FirstDefault == 1 \in DOMAIN Defaults /\ DOMAIN Defaults = 1..Len(Defaults) /\ Len(Defaults) \in Nat
BY DefaultsAssumption, IdsAssumption, LenProperties, EmptySeq

\* init, or load_defaults, finds the header.
LEMMA MkDoneClaims ==
    ASSUME Inv, NEW t \in Threads, Claims(t), pc[t] \in {"mk_exists", "mk_write"}, MkDone(t),
           UNCHANGED top
    PROVE  Claims(t)'
<1>. USE TasksAssumption DEF Inv
<1>1. CASE fn[t] = "init"
  <2>1. /\ pc'[t] = "take" /\ fn'[t] = "load" /\ res'[t] = None
        /\ UNCHANGED <<top, id, nxt>>
    BY <1>1 DEF MkDone, Go, Enter, ControlOK
  <2>2. t \notin Tasks
    BY <1>1 DEF Claims, CallOf, Api
  <2>. QED
    BY <2>1, <2>2 DEF Claims, FunctionOf, ResultOf, CopyOf, BootOf, Creating
<1>2. CASE fn[t] # "init"
  <2>1. LoadDefault(t, 1)
    BY <1>2 DEF MkDone
  <2>2. /\ nxt'[t] = 1 /\ top'[t] = top[t]
        /\ pc'[t] = "take" /\ fn'[t] = "add" /\ id'[t] = Defaults[1] /\ res'[t] = None
    BY <2>1, LoadDefaultTo, FirstDefault
  <2>3. (Next_default(t))'
    BY <2>2, FirstDefault DEF Next_default
  <2>4. t \in Tasks => top[t] = "reset"
    BY <1>2 DEF Claims, FunctionOf, CallOf, HeaderThere, Creating, Api
  <2>5. t \in Tasks => CallOf(t)'
    BY <2>2, <2>3, <2>4 DEF CallOf
  <2>6. t = Main => BootOf(t)'
    BY <2>2, <2>3 DEF Claims, BootOf
  <2>. QED
    BY <2>2, <2>5, <2>6 DEF Claims, FunctionOf, ResultOf, CopyOf, Creating
<1>. QED
  BY <1>1, <1>2

\* Finding the header, or finding that it is missing.
LEMMA MkExistsLinked ==
    ASSUME NoDiskFaults, Told, Inv, Steady, Linked, NEW t \in Threads, MkExists(t)
    PROVE  Linked'
<1>. USE TasksAssumption DEF Inv
<1>1. Step(t) /\ UNCHANGED <<top, cards, buf>> /\ pc[t] = "mk_exists" /\ Claims(t)
  BY DEF MkExists, Step, Linked
<1>2. CASE hdr = NoFile
  <2>1. t = Main /\ fn[t] = "init"
    BY <1>1, <1>2 DEF Steady, FirstBoot, HeaderThere, Threads
  <2>2. pc'[t] = "mk_open" /\ UNCHANGED <<top, fn, id, nxt, res>>
    BY <1>2 DEF MkExists, Go, ControlOK
  <2>3. Claims(t)'
    BY <1>1, <2>1, <2>2 DEF Claims, FunctionOf, ResultOf, CopyOf, BootOf, Creating
  <2>. QED
    BY <1>1, <2>3, StepLinked
<1>3. CASE hdr # NoFile
  <2>1. MkDone(t)
    BY <1>3 DEF MkExists, StatLies, Happens, NoDiskFaults
  <2>. QED
    BY <1>1, <2>1, MkDoneClaims, StepLinked
<1>. QED
  BY <1>2, <1>3

\* Creating the header, in init.
LEMMA MkOpenLinked ==
    ASSUME NoDiskFaults, Told, Inv, Steady, Linked, NEW t \in Threads, MkOpen(t)
    PROVE  Linked'
<1>. USE TasksAssumption DEF Inv
<1>1. Step(t) /\ UNCHANGED <<top, cards, buf>> /\ pc[t] = "mk_open" /\ Claims(t)
  BY DEF MkOpen, Step, Linked
<1>2. t = Main /\ fn[t] = "init"
  BY <1>1 DEF Told, HeaderThere, Creating, Threads, Steady, FirstBoot
<1>3. pc'[t] = "mk_write" /\ UNCHANGED <<top, fn, id, nxt, res>>
  BY DEF MkOpen, Fault, Unnoticed, StatLies, Happens, NoDiskFaults, Go, ControlOK
<1>4. Claims(t)'
  BY <1>1, <1>2, <1>3 DEF Claims, FunctionOf, ResultOf, CopyOf, BootOf, Creating
<1>. QED
  BY <1>1, <1>4, StepLinked

LEMMA MkWriteLinked ==
    ASSUME NoDiskFaults, Told, Inv, Steady, Linked, NEW t \in Threads, MkWrite(t)
    PROVE  Linked'
<1>1. Step(t) /\ UNCHANGED <<top, cards, buf>> /\ pc[t] = "mk_write" /\ Claims(t)
  BY DEF MkWrite, Step, Linked
<1>2. MkDone(t)
  BY DEF MkWrite, Fault, Unnoticed, StatLies, Happens, NoDiskFaults
<1>. QED
  BY <1>1, <1>2, MkDoneClaims, StepLinked

\* A thread enters the section.
LEMMA TakeLinked ==
    ASSUME Inv, Linked, NEW t \in Threads, Take(t)
    PROVE  Linked'
<1>1. Step(t) /\ UNCHANGED <<cards, buf, calls, res>> /\ pc[t] = "take" /\ Claims(t)
  BY DEF Take, Step, Linked
<1>2. Held' = Held
  BY <1>1 DEF Held
<1>3. fn[t] \notin {"init", "defaults"} /\ (fn[t] = "format" => fn[t] \notin {"load", "remove"})
  BY <1>1 DEF Claims, FunctionOf, Creating
<1>4. PICK p \in {"read", "hdr_open"} : pc' = [pc EXCEPT ![t] = p] /\ (p = "hdr_open" => fn[t] = "format")
  BY DEF Take, Go
<1>5. CopyOf(t)'
  BY <1>1, <1>4 DEF CopyOf, calls, Inv, ControlOK
<1>6. Claims(t)'
  BY <1>1, <1>2, <1>3, <1>4, <1>5, WithinFunction
<1>. QED
  BY <1>1, <1>6, StepLinked

\* A search of what was read is a search of the database.
LEMMA ReadHeld ==
    ASSUME Agree, NEW h \in HdrReads(FALSE), NEW s \in CardReads(h.count, FALSE)
    PROVE  /\ h.count = Length /\ h.max = MaxCards /\ Length \in Nat /\ Clean(s)
           /\ CardIds(s) = Held
           /\ \A i : Has(s, i) <=> i \in Held
<1>1. /\ h = hdr /\ h.count = Length /\ h.max = MaxCards /\ Clean(s)
      /\ cards # NoFile => s = cards
  BY ReadExact
<1>2. Length \in Nat
  BY HeldCount
<1>3. CardIds(s) = Held
  <2>1. CASE cards = NoFile
    <3>1. DOMAIN s = 1..0
      BY <1>1, <1>2, <2>1, ReadType DEF Length
    <3>. QED
      BY <2>1, <3>1 DEF CardIds, Held
  <2>2. CASE cards # NoFile
    BY <1>1, <2>2 DEF Held
  <2>. QED
    BY <2>1, <2>2
<1>4. \A i : Has(s, i) <=> i \in CardIds(s)
  BY DEF Has, CardIds
<1>. QED
  BY <1>1, <1>2, <1>3, <1>4

\* A read that ends the call with a result that fits the database.
LEMMA ReadEndLinked ==
    ASSUME Inv, Linked, NEW t \in Threads, Step(t), pc[t] = "read", NEW r \in Results,
           Finish(t, r), UNCHANGED <<cards, calls>>,
           fn[t] = "add" => \/ r = "INVALID_STATE" /\ id[t] \in Held
                            \/ r = "NO_MEM" /\ (Malloc \/ (Length >= MaxCards /\ id[t] \notin Held))
    PROVE  Linked'
<1>1. /\ pc' = [pc EXCEPT ![t] = "give"] /\ res' = [res EXCEPT ![t] = r]
      /\ Claims(t) /\ Held' = Held /\ Length' = Length
  BY DEF Finish, Go, Linked, Held, Length
<1>2. fn[t] # "format"
  BY DEF Inv, HeaderThere
<1>3. ResultOf(t)'
  BY <1>1, <1>2 DEF ResultOf, calls, Inv, ControlOK
<1>4. Claims(t)'
  BY <1>1, <1>3, SectionEnds, SectionPoints
<1>. QED
  BY <1>4, StepLinked, SectionPoints

\* Without disk faults, a read fails only for want of heap.
LEMMA OnlyMalloc ==
    ASSUME NoDiskFaults, Inv, Steady, NEW t \in Threads, ReadFails(t)
    PROVE  /\ Malloc /\ pc[t] = "read" /\ fn[t] \in Allocates
           /\ Finish(t, "NO_MEM") /\ UNCHANGED <<hdr, cards, owner, db, buf, calls, booted>>
<1>1. pc[t] = "read" /\ hdr # NoFile
  BY InSection DEF ReadFails, Section
<1>. QED
  BY <1>1 DEF ReadFails, Fault, Unnoticed, StatLies, Happens, NoDiskFaults, Malloc

LEMMA ReadFailsLinked ==
    ASSUME NoDiskFaults, Inv, Steady, Linked, NEW t \in Threads, ReadFails(t)
    PROVE  Linked'
BY OnlyMalloc, ReadEndLinked DEF Step, Results

\* The files agree, so the cards file is there when the header counts cards.
LEMMA CardsThere ==
    ASSUME NoDiskFaults, Inv, Steady, NEW t \in Threads
    PROVE  ~CardsMissing(t)
<1>. SUFFICES ASSUME CardsMissing(t) PROVE FALSE
  OBVIOUS
<1>1. Agree
  BY DEF CardsMissing, Steady, AtPoint
<1>2. hdr \in Header /\ HdrReads(FALSE) = {hdr} /\ hdr.count = Length
  BY <1>1, HeldCount, SizesAssumption DEF Agree, Header, HdrReads
<1>. QED
  BY <1>2, AllRead DEF CardsMissing, Loaded, Length

\* add_card: what it found decides its result.
LEMMA ReadAddLinked ==
    ASSUME NoDiskFaults, Inv, Steady, Linked, NEW t \in Threads, ReadAdd(t)
    PROVE  Linked'
<1>1. /\ Step(t) /\ pc[t] = "read" /\ fn[t] = "add" /\ UNCHANGED <<cards, buf, calls>>
      /\ Agree /\ Claims(t)
  BY DEF ReadAdd, Reading, Step, Steady, AtPoint, Linked
<1>2a. PICK h \in HdrReads(FALSE) : \E s \in CardReads(h.count, FALSE) :
         \/ Has(s, id[t]) /\ Finish(t, "INVALID_STATE")
         \/ ~Has(s, id[t]) /\ h.count >= h.max /\ Finish(t, "NO_MEM")
         \/ Go(t, "hdr_open") /\ UNCHANGED res
  BY AllReading DEF ReadAdd
<1>2. PICK s \in CardReads(h.count, FALSE) :
         \/ Has(s, id[t]) /\ Finish(t, "INVALID_STATE")
         \/ ~Has(s, id[t]) /\ h.count >= h.max /\ Finish(t, "NO_MEM")
         \/ Go(t, "hdr_open") /\ UNCHANGED res
  BY <1>2a
<1>3. h.count = Length /\ h.max = MaxCards /\ (Has(s, id[t]) <=> id[t] \in Held)
  BY <1>1, ReadHeld
<1>4. CASE Has(s, id[t]) /\ Finish(t, "INVALID_STATE")
  BY <1>1, <1>3, <1>4, ReadEndLinked DEF Results
<1>5. CASE ~Has(s, id[t]) /\ h.count >= h.max /\ Finish(t, "NO_MEM")
  BY <1>1, <1>3, <1>5, ReadEndLinked DEF Results
<1>6. CASE Go(t, "hdr_open") /\ UNCHANGED res
  <2>1. pc' = [pc EXCEPT ![t] = "hdr_open"] /\ Held' = Held /\ CopyOf(t)'
    BY <1>1, <1>6 DEF Go, Held, CopyOf, calls
  <2>2. Claims(t)'
    BY <1>1, <1>6, <2>1, WithinFunction
  <2>. QED
    BY <1>1, <2>2, StepLinked
<1>. QED
  BY <1>2, <1>4, <1>5, <1>6

\* remove_card: its copy of the cards is the database without the card.
LEMMA ReadRemoveLinked ==
    ASSUME NoDiskFaults, Inv, Steady, Linked, NEW t \in Threads, ReadRemove(t)
    PROVE  Linked'
<1>1. /\ Step(t) /\ pc[t] = "read" /\ fn[t] = "remove" /\ UNCHANGED <<cards, calls>>
      /\ Agree /\ Claims(t)
  BY DEF ReadRemove, Reading, Step, Steady, AtPoint, Linked
<1>2a. PICK h \in HdrReads(FALSE) : \E s \in CardReads(h.count, FALSE) :
         \/ Finish(t, "NOT_FOUND")
         \/ /\ Has(s, id[t]) /\ buf' = Without(s, First(s, id[t]))
            /\ Go(t, "hdr_open") /\ UNCHANGED res
  BY AllReading DEF ReadRemove
<1>2. PICK s \in CardReads(h.count, FALSE) :
         \/ Finish(t, "NOT_FOUND")
         \/ /\ Has(s, id[t]) /\ buf' = Without(s, First(s, id[t]))
            /\ Go(t, "hdr_open") /\ UNCHANGED res
  BY <1>2a
<1>3. Clean(s) /\ CardIds(s) = Held /\ (Has(s, id[t]) <=> id[t] \in Held)
  BY <1>1, ReadHeld
<1>4. CASE Finish(t, "NOT_FOUND")
  BY <1>1, <1>4, ReadEndLinked DEF Results
<1>5. CASE Has(s, id[t]) /\ buf' = Without(s, First(s, id[t])) /\ Go(t, "hdr_open") /\ UNCHANGED res
  <2>1. CardIds(buf') = Held \ {id[t]} /\ id[t] \in Held /\ cards # NoFile
    BY <1>3, <1>5, WithoutIds DEF Held
  <2>2. pc' = [pc EXCEPT ![t] = "hdr_open"] /\ Held' = Held /\ UNCHANGED <<cards, fn, id>>
    BY <1>1, <1>5 DEF Go, Held, calls
  <2>3. pc'[t] = "hdr_open"
    BY <2>2 DEF Inv, ControlOK
  <2>4. CopyOf(t)'
    BY <2>1, <2>2, <2>3 DEF CopyOf
  <2>5. Claims(t)'
    BY <1>1, <1>5, <2>2, <2>4, WithinFunction
  <2>. QED
    BY <1>1, <2>5, StepLinked, SectionPoints
<1>. QED
  BY <1>2, <1>4, <1>5

\* The reads that only answer.
LEMMA ReadAnswersLinked ==
    ASSUME Inv, Linked, NEW t \in Threads,
           ReadCheck(t) \/ ReadCount(t) \/ ReadList(t) \/ ReadJson(t) \/ ReadLoad(t) \/ ReadValid(t)
    PROVE  Linked'
<1>1. /\ Step(t) /\ pc[t] = "read" /\ fn[t] # "add" /\ UNCHANGED <<cards, calls>>
  BY DEF ReadCheck, ReadCount, ReadList, ReadJson, ReadLoad, ReadValid, Reading, Step
<1>2. PICK r \in Results : Finish(t, r)
  BY DEF ReadCheck, ReadCount, ReadList, ReadJson, ReadLoad, ReadValid, Results
<1>. QED
  BY <1>1, <1>2, ReadEndLinked

LEMMA ReadSaveLinked ==
    ASSUME Inv, Linked, NEW t \in Threads, ReadSave(t)
    PROVE  Linked'
<1>1. /\ Step(t) /\ pc[t] = "read" /\ fn[t] = "save" /\ UNCHANGED <<cards, buf, calls, res>>
      /\ Claims(t)
  BY DEF ReadSave, Reading, Step, Linked
<1>2. pc' = [pc EXCEPT ![t] = "hdr_open"] /\ Held' = Held /\ CopyOf(t)'
  BY <1>1 DEF ReadSave, Go, Held, CopyOf, calls
<1>3. Claims(t)'
  BY <1>1, <1>2, WithinFunction
<1>. QED
  BY <1>1, <1>3, StepLinked

\* The header is opened for its rewrite.
LEMMA HdrOpenLinked ==
    ASSUME Inv, Steady, Linked, NoDiskFaults, NEW t \in Threads, HdrOpen(t)
    PROVE  Linked'
<1>1. /\ Step(t) /\ pc[t] = "hdr_open" /\ UNCHANGED <<cards, buf, calls, res>>
      /\ pc' = [pc EXCEPT ![t] = "hdr_write"] /\ Claims(t)
  BY DEF HdrOpen, Fault, Unnoticed, StatLies, Happens, NoDiskFaults, Go, Step, Linked
<1>2. fn[t] \in {"add", "remove", "format", "save"}
  BY <1>1 DEF Steady, AtPoint, Plan
<1>3. CopyOf(t)' /\ Held' = Held
  BY <1>1 DEF Claims, CopyOf, Held, calls, Inv, ControlOK
<1>4. Claims(t)'
  BY <1>1, <1>2, <1>3, WithinFunction
<1>. QED
  BY <1>1, <1>4, StepLinked

\* The header is written; save_to_file is done.
LEMMA HdrWriteLinked ==
    ASSUME Inv, Steady, Linked, NoDiskFaults, NEW t \in Threads, HdrWrite(t)
    PROVE  Linked'
<1>1. /\ Step(t) /\ pc[t] = "hdr_write" /\ UNCHANGED <<cards, buf, calls>>
      /\ HdrWritten(t) /\ Claims(t)
  BY DEF HdrWrite, Fault, Unnoticed, StatLies, Happens, NoDiskFaults, Step, Linked
<1>2. fn[t] \in {"add", "remove", "format", "save"}
  BY <1>1 DEF Steady, AtPoint, Plan
<1>3. Held' = Held
  BY <1>1 DEF Held
<1>4. CASE fn[t] = "save"
  <2>1. pc' = [pc EXCEPT ![t] = "give"] /\ res' = [res EXCEPT ![t] = "OK"]
    BY <1>1, <1>4 DEF HdrWritten, Finish, Go
  <2>2. ResultOf(t)'
    BY <1>1, <1>4 DEF ResultOf, calls
  <2>3. Claims(t)'
    BY <1>1, <1>3, <2>1, <2>2, SectionEnds, SectionPoints DEF Results
  <2>. QED
    BY <1>1, <2>3, StepLinked
<1>5. CASE fn[t] # "save"
  <2>1. PICK p \in {"cards_open", "cards_del"} :
          /\ pc' = [pc EXCEPT ![t] = p] /\ res' = res
          /\ p = "cards_del" => fn[t] = "format" \/ (fn[t] = "remove" /\ ~(db.count > 0))
    BY <1>1, <1>2, <1>5 DEF HdrWritten, Go
  <2>2. p = "cards_del" /\ fn[t] = "remove" => CardIds(buf) = {}
    <3>. SUFFICES ASSUME ~(db.count > 0), fn[t] = "remove" PROVE CardIds(buf) = {}
      BY <2>1
    <3>1. buf \in Seq(Record) /\ Len(buf) = db.count /\ DOMAIN buf = 1..Len(buf) /\ Len(buf) \in Nat
      BY <1>1, LenProperties DEF Steady, AtPoint, Plan, Clean
    <3>. QED
      BY <3>1 DEF CardIds
  <2>3. CopyOf(t)'
    BY <1>1, <1>3, <2>1, <2>2 DEF Claims, CopyOf, calls, Inv, ControlOK
  <2>4. Claims(t)'
    BY <1>1, <1>2, <1>3, <2>1, <2>3, WithinFunction
  <2>. QED
    BY <1>1, <2>4, StepLinked
<1>. QED
  BY <1>4, <1>5

\* remove_card's fopen empties the file: from here its copy is the database.
LEMMA CardsOpenLinked ==
    ASSUME Inv, Steady, Linked, NoDiskFaults, NEW t \in Threads, CardsOpen(t)
    PROVE  Linked'
<1>1. /\ Step(t) /\ pc[t] = "cards_open" /\ UNCHANGED <<buf, calls, res>>
      /\ pc' = [pc EXCEPT ![t] = "cards_write"] /\ Claims(t)
      /\ cards' = IF fn[t] = "add" /\ cards # NoFile THEN cards ELSE <<>>
  BY DEF CardsOpen, Fault, Unnoticed, StatLies, Happens, NoDiskFaults, Go, Step, Linked
<1>2. fn[t] \in {"add", "remove"}
  BY <1>1 DEF Steady, AtPoint
<1>3. CASE fn[t] = "add"
  <2>1. Held' = Held
    <3>1. CardIds(<<>>) = {}
      BY NoIds
    <3>. QED
      BY <1>1, <1>3, <3>1 DEF Held
  <2>2. CopyOf(t)'
    BY <1>1, <1>3 DEF CopyOf, calls
  <2>3. Claims(t)'
    BY <1>1, <1>3, <2>1, <2>2, WithinFunction
  <2>. QED
    BY <1>1, <2>3, StepLinked, SectionPoints
<1>4. CASE fn[t] = "remove"
  <2>1. pc'[t] = "cards_write" /\ UNCHANGED <<top, fn, id, nxt, res, buf>> /\ t # Main
    BY <1>1, <1>4 DEF Inv, ControlOK, calls, Claims, BootOf
  <2>2. id[t] \notin CardIds(buf)
    BY <1>1, <1>4 DEF Claims, CopyOf
  <2>3. FunctionOf(t)' /\ ResultOf(t)' /\ CopyOf(t)'
    BY <1>4, <2>1, <2>2 DEF FunctionOf, ResultOf, CopyOf
  <2>4. t \in Tasks => CallOf(t)'
    BY <1>1, <1>4, <2>1 DEF Claims, CallOf
  <2>5. Claims(t)'
    BY <2>1, <2>3, <2>4 DEF Claims
  <2>. QED
    BY <1>1, <2>5, StepLinked, SectionPoints
<1>. QED
  BY <1>2, <1>3, <1>4

\* The write of the cards file, when no fault cuts it short.
LEMMA CardsWritten ==
    ASSUME Inv, Steady, NoDiskFaults, NEW t \in Threads, CardsWrite(t)
    PROVE  /\ pc[t] = "cards_write" /\ fn[t] \in {"add", "remove"} /\ Finish(t, "OK")
           /\ UNCHANGED <<hdr, owner, db, buf, calls, booted>>
           /\ cards # NoFile /\ cards' # NoFile
           /\ fn[t] = "add" => /\ Held' = Held \cup {id[t]} /\ id[t] \notin Held
                               /\ Length < MaxCards /\ CleanCards
           /\ fn[t] = "remove" => cards' = buf /\ Held' = CardIds(buf)
<1>1. /\ pc[t] = "cards_write" /\ Finish(t, "OK") /\ UNCHANGED <<hdr, owner, db, buf, calls, booted>>
      /\ cards' = IF fn[t] = "add" THEN Append(cards, NewCard(t)) ELSE buf
  BY DEF CardsWrite, Fault, Unnoticed, StatLies, Happens, NoDiskFaults
<1>2. fn[t] \in {"add", "remove"} /\ Plan(t) /\ cards # NoFile /\ id[t] \in Ids
  BY <1>1 DEF Steady, AtPoint, Inv, Opened, ControlOK
<1>3. CASE fn[t] = "add"
  <2>1. Clean(cards) /\ ~Has(cards, id[t]) /\ Length = Len(cards) /\ db.count = Length + 1 /\ db.count <= MaxCards
    BY <1>2, <1>3 DEF Plan, CleanCards, Length
  <2>2. cards \in Seq(Record) /\ Len(cards) \in Nat
    BY <2>1, LenProperties DEF Clean
  <2>3. NewCard(t) \in Record /\ NewCard(t).id = id[t]
    BY <1>2 DEF NewCard, Record
  <2>4. cards' # NoFile
    BY <1>1, <1>3, <2>2, <2>3, AppendProperties, SeqMonotonic, FilesAssumption
  <2>5. Held' = Held \cup {id[t]}
    BY <1>1, <1>2, <1>3, <2>2, <2>3, <2>4, AppendIds DEF Held
  <2>6. id[t] \notin Held
    BY <1>2, <2>1 DEF Held, Has, CardIds
  <2>. QED
    BY <1>1, <1>2, <1>3, <2>1, <2>2, <2>4, <2>5, <2>6, SizesAssumption DEF Plan
<1>4. CASE fn[t] = "remove"
  <2>1. cards' = buf /\ buf \in Seq(Record)
    BY <1>1, <1>4 DEF Inv, DataOK
  <2>2. cards' # NoFile
    BY <2>1, SeqMonotonic, FilesAssumption
  <2>. QED
    BY <1>1, <1>2, <1>4, <2>1, <2>2 DEF Held
<1>. QED
  BY <1>2, <1>3, <1>4

LEMMA CardsWriteLinked ==
    ASSUME Inv, Steady, Linked, NoDiskFaults, NEW t \in Threads, CardsWrite(t)
    PROVE  Linked'
<1>1. Step(t) /\ Claims(t) /\ pc[t] = "cards_write"
  BY CardsWritten DEF Step, Linked
<1>2. pc' = [pc EXCEPT ![t] = "give"] /\ res' = [res EXCEPT ![t] = "OK"] /\ UNCHANGED calls
  BY CardsWritten DEF Finish, Go
<1>3. fn[t] \in {"add", "remove"} /\ (fn[t] = "add" => Held' = Held \cup {id[t]})
  BY CardsWritten
<1>4. ResultOf(t)'
  BY <1>2, <1>3 DEF ResultOf, calls, Inv, ControlOK
<1>5. t = Main => Held \subseteq Held'
  BY <1>1, <1>3 DEF Claims, BootOf
<1>6. Claims(t)'
  BY <1>1, <1>2, <1>4, <1>5, SectionEnds, SectionPoints DEF Results
<1>. QED
  BY <1>1, <1>6, StepLinked, SectionPoints

\* The cards file is deleted.
LEMMA CardsDeleteLinked ==
    ASSUME Inv, Linked, NoDiskFaults, NEW t \in Threads, CardsDelete(t)
    PROVE  Linked'
<1>1. Step(t) /\ Claims(t) /\ pc[t] = "cards_del" /\ UNCHANGED calls
  BY DEF CardsDelete, Step, Linked
<1>2. pc' = [pc EXCEPT ![t] = "give"] /\ res' = [res EXCEPT ![t] = "OK"]
  BY DEF CardsDelete, Fault, Unnoticed, StatLies, Happens, NoDiskFaults, Finish, Go
<1>3. fn[t] \in {"format", "remove"} /\ t # Main
  BY <1>1 DEF Claims, FunctionOf, BootOf
<1>4. ResultOf(t)'
  BY <1>1, <1>2, <1>3 DEF ResultOf, calls, Inv, ControlOK
<1>5. Claims(t)'
  BY <1>1, <1>2, <1>3, <1>4, SectionEnds, SectionPoints DEF Results
<1>. QED
  BY <1>1, <1>5, StepLinked, SectionPoints

\* What Give does to the thread: on to load_defaults, to the next default
\* card, or back to the caller.
GoesToDefaults(t) == fn[t] = "load" \/ (fn[t] = "format" /\ top[t] = "reset" /\ res[t] = "OK")
GoesToNext(t) == fn[t] = "add" /\ top[t] \in {"boot", "reset"} /\ res[t] \in {"OK", "INVALID_STATE"}

LEMMA GiveGoes ==
    ASSUME Inv, NEW t \in Threads, Give(t)
    PROVE  /\ pc[t] = "give" /\ UNCHANGED <<hdr, cards, top, booted>>
           /\ GoesToDefaults(t) =>
                pc'[t] = "mk_exists" /\ fn'[t] = "defaults" /\ res'[t] = None /\ UNCHANGED <<id, nxt>>
           /\ GoesToNext(t) => LoadDefault(t, nxt[t] + 1)
           /\ ~GoesToDefaults(t) /\ ~GoesToNext(t) => pc'[t] = "done" /\ UNCHANGED <<fn, id, nxt, res>>
<1>. DEFINE D == GoesToDefaults(t)
            N == GoesToNext(t)
<1>1. /\ pc[t] = "give" /\ UNCHANGED <<hdr, cards, top, booted>>
      /\ CASE D -> Go(t, "mk_exists") /\ Enter(t, "defaults") /\ UNCHANGED <<id, nxt>>
           [] N -> LoadDefault(t, nxt[t] + 1)
           [] OTHER -> Go(t, "done") /\ UNCHANGED <<fn, id, nxt, res>>
  BY DEF Give, GoesToDefaults, GoesToNext
<1>2. ~(D /\ N)
  BY DEF GoesToDefaults, GoesToNext
<1>. HIDE DEF D, N
<1>3. CASE D
  BY <1>1, <1>2, <1>3 DEF Go, Enter, Inv, ControlOK, D, N
<1>4. CASE N
  BY <1>1, <1>2, <1>4 DEF N, D
<1>5. CASE ~D /\ ~N
  BY <1>1, <1>5 DEF Go, Inv, ControlOK, N, D
<1>. QED
  BY <1>1, <1>3, <1>4, <1>5

\* The section is left: the claims about the next function, or about the reply.
LEMMA GiveLinked ==
    ASSUME Inv, Steady, Linked, NEW t \in Threads, Give(t)
    PROVE  Linked'
<1>. USE TasksAssumption DEF Inv
<1>1. Step(t) /\ Claims(t) /\ pc[t] = "give" /\ UNCHANGED <<cards, top>>
  BY GiveGoes DEF Step, Linked
<1>2. Held' = Held /\ Length' = Length /\ nxt[t] \in Nat \ {0} /\ nxt[t] + 1 \in Nat \ {0}
  BY <1>1 DEF Held, Length, ControlOK
<1>3. CASE GoesToDefaults(t)
  <2>1. pc'[t] = "mk_exists" /\ fn'[t] = "defaults" /\ res'[t] = None /\ UNCHANGED <<id, nxt>>
    BY <1>3, GiveGoes
  <2>2. FunctionOf(t)' /\ ResultOf(t)' /\ CopyOf(t)'
    BY <2>1 DEF FunctionOf, ResultOf, CopyOf, Creating
  <2>3. t \in Tasks => CallOf(t)'
    BY <1>1, <1>3, <2>1 DEF GoesToDefaults, CallOf, HeaderThere
  <2>4. t = Main => BootOf(t)'
    BY <1>1, <2>1 DEF Claims, BootOf
  <2>. QED
    BY <1>1, <2>2, <2>3, <2>4, StepLinked, SectionPoints DEF Claims
<1>4. CASE GoesToNext(t)
  <2>1. LoadDefault(t, nxt[t] + 1)
    BY <1>4, GiveGoes
  <2>2. /\ nxt'[t] = nxt[t] + 1 /\ top'[t] = top[t]
        /\ nxt[t] + 1 \in DOMAIN Defaults =>
             pc'[t] = "take" /\ fn'[t] = "add" /\ id'[t] = Defaults[nxt[t] + 1] /\ res'[t] = None
        /\ nxt[t] + 1 \notin DOMAIN Defaults =>
             pc'[t] = "done" /\ res'[t] = "OK" /\ fn'[t] = fn[t] /\ id'[t] = id[t]
    BY <1>1, <1>2, <2>1, LoadDefaultTo
  <2>3. fn[t] = "add" /\ top[t] \in {"boot", "reset"}
    BY <1>4 DEF GoesToNext
  <2>4. Next_default(t) /\ id[t] \in Held
    <3>1. id[t] \in Held
      BY <1>1, <1>4 DEF GoesToNext, Claims, ResultOf
    <3>2. Next_default(t)
      BY <1>1, <2>3 DEF Claims, CallOf, BootOf, Threads, Api
    <3>. QED
      BY <3>1, <3>2
  <2>5. FunctionOf(t)' /\ ResultOf(t)' /\ CopyOf(t)'
    BY <2>2, <2>3 DEF FunctionOf, ResultOf, CopyOf, Creating
  <2>6. nxt[t] + 1 \in DOMAIN Defaults => Next_default(t)'
    BY <2>2 DEF Next_default
  <2>7. "OK" # None
    BY NoneAssumption DEF Results
  <2>8. t \in Tasks => CallOf(t)'
    BY <1>1, <2>2, <2>3, <2>6, <2>7 DEF Claims, CallOf, Api
  <2>9. ASSUME t = Main PROVE BootOf(t)'
    <3>1. top[t] = "boot" /\ \A k \in 1..(nxt[t] - 1) : Defaults[k] \in Held
      BY <1>1, <2>3, <2>9 DEF Claims, BootOf
    <3>2. Defaults[nxt[t]] \in Held
      BY <2>4 DEF Next_default
    <3>3. \A k \in 1..nxt[t] : k \in 1..(nxt[t] - 1) \/ k = nxt[t]
      BY <1>2
    <3>4. \A k \in 1..nxt[t] : Defaults[k] \in Held
      BY <3>1, <3>2, <3>3
    <3>5. CASE nxt[t] + 1 \in DOMAIN Defaults
      <4>1. nxt'[t] - 1 = nxt[t]
        BY <1>2, <2>2
      <4>2. PICK m : m = nxt'[t] - 1
        OBVIOUS
      <4>3. \A k \in 1..m : Defaults[k] \in Held'
        BY <1>2, <3>4, <4>1, <4>2
      <4>. QED
        BY <2>2, <2>6, <3>1, <3>5, <4>2, <4>3 DEF BootOf
    <3>6. CASE nxt[t] + 1 \notin DOMAIN Defaults
      <4>1. DOMAIN Defaults \subseteq 1..nxt[t]
        BY <1>2, <2>4, <3>6, FirstDefault DEF Next_default
      <4>2. \A k \in DOMAIN Defaults : Defaults[k] \in Held'
        BY <1>2, <3>4, <4>1
      <4>. QED
        BY <2>2, <2>3, <3>1, <3>6, <4>2 DEF BootOf
    <3>. QED
      BY <3>5, <3>6
  <2>. QED
    BY <1>1, <2>5, <2>8, <2>9, StepLinked, SectionPoints DEF Claims
<1>5. CASE ~GoesToDefaults(t) /\ ~GoesToNext(t)
  <2>1. pc'[t] = "done" /\ UNCHANGED <<fn, id, nxt, res>>
    BY <1>5, GiveGoes
  <2>2. fn[t] \notin {"init", "load", "defaults"}
    BY <1>1, <1>5 DEF Claims, FunctionOf, GoesToDefaults, Creating
  <2>3. FunctionOf(t)' /\ ResultOf(t)' /\ CopyOf(t)'
    BY <1>1, <2>1, <2>2 DEF Claims, FunctionOf, ResultOf, CopyOf, Creating
  <2>4. t \in Tasks => CallOf(t)'
    BY <1>1, <2>1 DEF Claims, CallOf
  <2>5. ASSUME t = Main PROVE BootOf(t)'
    <3>1. top[t] = "boot" /\ fn[t] = "add"
      BY <1>1, <2>2, <2>5 DEF Claims, BootOf
    <3>2. res[t] = "NO_MEM" /\ (Malloc \/ Length >= MaxCards)
      BY <1>1, <1>5, <3>1 DEF Claims, ResultOf, GoesToNext
    <3>. QED
      BY <1>1, <1>2, <2>1, <3>1, <3>2 DEF BootOf
  <2>. QED
    BY <1>1, <2>3, <2>4, <2>5, StepLinked, SectionPoints DEF Claims
<1>. QED
  BY <1>3, <1>4, <1>5

\* The call returns.
LEMMA ReturnLinked ==
    ASSUME Inv, Linked, NEW t \in Threads, Return(t)
    PROVE  Linked'
<1>. USE TasksAssumption DEF Inv
<1>1. Step(t) /\ UNCHANGED <<cards, buf>>
  BY DEF Return, Step
<1>2. pc'[t] = "idle" /\ top'[t] = "boot" /\ fn'[t] = "init" /\ id'[t] = Admin /\ res'[t] = None
  BY DEF Return, Go, ControlOK
<1>3. Claims(t)'
  BY <1>2 DEF Claims, FunctionOf, ResultOf, CopyOf, CallOf, BootOf
<1>. QED
  BY <1>1, <1>3, StepLinked

\* A task calls.
LEMMA CallIs ==
    ASSUME Inv, NEW t \in Tasks, Call(t)
    PROVE  /\ booted /\ pc[t] = "idle" /\ UNCHANGED <<cards, buf, nxt, booted, owner>>
           /\ top'[t] \in Api /\ id'[t] \in Ids
           /\ fn'[t] = IF top'[t] = "reset" THEN "format" ELSE top'[t]
           /\ IF top'[t] = "remove" /\ id'[t] = Admin
                THEN pc'[t] = "done" /\ res'[t] = "NOT_SUPPORTED"
                ELSE pc'[t] = "take" /\ res'[t] = None
<1>. USE DEF Threads
<1>1. PICK f \in Calls, i \in Ids :
         /\ top' = [top EXCEPT ![t] = f]
         /\ fn' = [fn EXCEPT ![t] = IF f = "reset" THEN "format" ELSE f]
         /\ id' = [id EXCEPT ![t] = i]
         /\ IF f = "remove" /\ i = Admin
              THEN Done(t, "NOT_SUPPORTED")
              ELSE res' = [res EXCEPT ![t] = None] /\ Go(t, "take")
  BY IdsAssumption DEF Call
<1>2. f \in Api
  BY CallsAssumption
<1>3. top'[t] = f /\ id'[t] = i /\ fn'[t] = IF f = "reset" THEN "format" ELSE f
  BY <1>1 DEF Inv, ControlOK
<1>4. IF f = "remove" /\ i = Admin THEN pc'[t] = "done" /\ res'[t] = "NOT_SUPPORTED"
                                   ELSE pc'[t] = "take" /\ res'[t] = None
  BY <1>1 DEF Done, Go, Inv, ControlOK
<1>. QED
  BY <1>2, <1>3, <1>4 DEF Call

LEMMA CallLinked ==
    ASSUME Inv, Linked, NEW t \in Tasks, Call(t)
    PROVE  Linked'
<1>. USE TasksAssumption DEF Inv
<1>1. "NOT_SUPPORTED" # None
  BY NoneAssumption DEF Results
<1>2. t \in Threads /\ t # Main /\ pc'[t] \in {"take", "done"} /\ fn'[t] \in Api
  BY CallIs DEF Threads, Api
<1>3. FunctionOf(t)' /\ ResultOf(t)' /\ CopyOf(t)'
  BY <1>2 DEF FunctionOf, ResultOf, CopyOf, Api
<1>4. CallOf(t)'
  BY <1>1, CallIs DEF CallOf, Api
<1>5. Claims(t)'
  BY <1>2, <1>3, <1>4 DEF Claims
<1>. QED
  BY <1>2, <1>5, CallIs, CallOthers, AfterBoot, LinkedStep

\* Nobody has called yet.
LEMMA InitLinked == Init => Linked
BY TasksAssumption DEF Init, Linked, Claims, FunctionOf, ResultOf, CopyOf, CallOf, BootOf, Booting, Threads

\* Every step keeps what is claimed about calls.
LEMMA NextLinked ==
    ASSUME NoDiskFaults, Told, Inv, Steady, Linked, [Next]_vars
    PROVE  Linked'
<1>1. CASE UNCHANGED vars
  <2>1. UNCHANGED <<cards, buf, pc, top, fn, id, nxt, res>>
    BY <1>1 DEF vars
  <2>2. Held' = Held /\ Length' = Length
    BY <2>1 DEF Held, Length
  <2>. QED
    BY <2>1, <2>2 DEF Linked, Claims, FunctionOf, ResultOf, CopyOf, CallOf, BootOf, Next_default
<1>2. ASSUME NEW t \in Tasks, Call(t) PROVE Linked'
  BY <1>2, CallLinked
<1>3. ASSUME NEW t \in Threads, Step(t) PROVE Linked'
  BY <1>3, MkExistsLinked, MkOpenLinked, MkWriteLinked, TakeLinked, ReadFailsLinked, CardsThere,
     ReadAddLinked, ReadRemoveLinked, ReadAnswersLinked, ReadSaveLinked, HdrOpenLinked,
     HdrWriteLinked, CardsOpenLinked, CardsWriteLinked, CardsDeleteLinked, GiveLinked,
     ReturnLinked DEF Step
<1>4. CASE Crash
  BY <1>4 DEF Crash, NoDiskFaults, Inv, DataOK
<1>. QED
  BY <1>1, <1>2, <1>3, <1>4 DEF Next

-----------------------------------------------------------------------------
(* The abstract database as the model shows it.                             *)

Op == [u \in Tasks |-> top[u]]
Arg == [u \in Tasks |-> IF top[u] = "reset" THEN Admin ELSE id[u]]
Reply == [u \in Tasks |-> IF InReset(u) THEN None ELSE res[u]]
TodoOf == [u \in Tasks |-> Todo(u)]
Shown == <<Members, Op, Arg, Reply, TodoOf, booted>>

\* RfidDb counts with the same operator.
LEMMA SameCount == ASSUME NEW S PROVE Abstract!Cardinality(S) = Cardinality(S)
BY DEF Cardinality, Abstract!Cardinality

\* Nothing that RfidDb speaks of changes.
LEMMA Stutter == ASSUME UNCHANGED Shown PROVE UNCHANGED Abstract!vars
BY DEF Shown, Op, Arg, Reply, TodoOf, Abstract!vars

\* A call of t that is under way, and whose effect changes only its own reply.
Effect(t, r) ==
    /\ t \in Tasks /\ booted /\ Reply[t] = None
    /\ Reply' = [Reply EXCEPT ![t] = r]
    /\ UNCHANGED <<Op, Arg, booted>>

\* Each clause of RfidDb's actions, in the model's terms.
LEMMA AddEffect ==
    ASSUME NEW t, NEW r, Effect(t, r), Op[t] = "add", UNCHANGED TodoOf,
           \/ r = "INVALID_STATE" /\ Arg[t] \in Members /\ UNCHANGED Members
           \/ /\ r = "NO_MEM" /\ Arg[t] \notin Members /\ Cardinality(Members) >= MaxCards
              /\ UNCHANGED Members
           \/ /\ r = "OK" /\ Arg[t] \notin Members /\ ~(Cardinality(Members) >= MaxCards)
              /\ Members' = Members \cup {Arg[t]}
    PROVE  Abstract!Next
<1>1. Abstract!Add(t)
  BY SameCount DEF Effect, Op, Arg, Reply, TodoOf, Abstract!Add, Abstract!Pending, Abstract!Answer, Abstract!Full
<1>. QED
  BY <1>1 DEF Effect, Abstract!Next

LEMMA NoMemoryEffect ==
    ASSUME NEW t, Effect(t, "NO_MEM"), Op[t] \in {"add", "remove", "check"}, Malloc,
           UNCHANGED <<Members, TodoOf>>
    PROVE  Abstract!Next
<1>1. Abstract!NoMemory(t)
  BY DEF Effect, Op, Arg, Reply, TodoOf, Malloc, Abstract!NoMemory, Abstract!Pending, Abstract!Answer
<1>. QED
  BY <1>1 DEF Effect, Abstract!Next

LEMMA RemoveEffect ==
    ASSUME NEW t, NEW r, Effect(t, r), Op[t] = "remove", UNCHANGED TodoOf,
           \/ r = "NOT_FOUND" /\ Arg[t] \notin Members /\ UNCHANGED Members
           \/ r = "OK" /\ Arg[t] \in Members /\ Arg[t] # Admin /\ Members' = Members \ {Arg[t]}
    PROVE  Abstract!Next
<1>1. Abstract!Remove(t)
  BY DEF Effect, Op, Arg, Reply, TodoOf, Abstract!Remove, Abstract!Pending, Abstract!Answer
<1>. QED
  BY <1>1 DEF Effect, Abstract!Next

LEMMA CheckEffect ==
    ASSUME NEW t, Op[t] = "check", UNCHANGED <<Members, TodoOf>>,
           Effect(t, IF Arg[t] \in Members THEN "OK" ELSE "NOT_FOUND")
    PROVE  Abstract!Next
<1>1. Abstract!Check(t)
  BY DEF Effect, Op, Arg, Reply, TodoOf, Abstract!Check, Abstract!Pending, Abstract!Answer
<1>. QED
  BY <1>1 DEF Effect, Abstract!Next

LEMMA ValidOrSaveEffect ==
    ASSUME NEW t, Op[t] \in {"valid", "save"}, UNCHANGED <<Members, TodoOf>>, Effect(t, "OK")
    PROVE  Abstract!Next
<1>1. Abstract!ValidOrSave(t)
  BY DEF Effect, Op, Arg, Reply, TodoOf, Abstract!ValidOrSave, Abstract!Pending, Abstract!Answer
<1>. QED
  BY <1>1 DEF Effect, Abstract!Next

LEMMA FormatEffect ==
    ASSUME NEW t, Op[t] = "format", Members' = {}, UNCHANGED TodoOf, Effect(t, "OK")
    PROVE  Abstract!Next
<1>1. Abstract!Format(t)
  BY DEF Effect, Op, Arg, Reply, TodoOf, Abstract!Format, Abstract!Pending, Abstract!Answer
<1>. QED
  BY <1>1 DEF Effect, Abstract!Next

\* The clauses of a reset: it clears, it adds, it gives up, it is done.
LEMMA ResetEffect ==
    ASSUME NEW t \in Tasks, booted, Op[t] = "reset", Reply[t] = None, UNCHANGED <<Op, Arg, booted>>,
           NEW k, TodoOf[t] = k,
           \/ /\ k = 0 /\ Members' = {} /\ TodoOf' = [TodoOf EXCEPT ![t] = 1] /\ UNCHANGED Reply
           \/ /\ k \in DOMAIN Defaults /\ (Defaults[k] \in Members \/ ~(Cardinality(Members) >= MaxCards))
              /\ Members' = Members \cup {Defaults[k]}
              /\ TodoOf' = [TodoOf EXCEPT ![t] = k + 1] /\ UNCHANGED Reply
           \/ /\ k \in DOMAIN Defaults
              /\ Malloc \/ (Cardinality(Members) >= MaxCards /\ Defaults[k] \notin Members)
              /\ Reply' = [Reply EXCEPT ![t] = "NO_MEM"]
              /\ TodoOf' = [TodoOf EXCEPT ![t] = 0] /\ UNCHANGED Members
           \/ /\ k > Len(Defaults) /\ Reply' = [Reply EXCEPT ![t] = "OK"]
              /\ TodoOf' = [TodoOf EXCEPT ![t] = 0] /\ UNCHANGED Members
    PROVE  Abstract!Next
<1>1. Abstract!Reset(t)
  BY SameCount DEF Op, Arg, Reply, TodoOf, Malloc, Abstract!Reset, Abstract!Pending, Abstract!Answer, Abstract!Full
<1>. QED
  BY <1>1 DEF Abstract!Next

\* get_card_count always answers; the two listings may lack memory or room.
LEMMA QueryEffect ==
    ASSUME NEW t, NEW r \in {"OK", "NO_MEM"}, Effect(t, r), Op[t] \in {"count", "list", "json"},
           r = "NO_MEM" => Op[t] # "count", UNCHANGED <<Members, TodoOf>>
    PROVE  Abstract!Next
<1>1. Abstract!Query(t)
  BY DEF Effect, Op, Arg, Reply, TodoOf, Abstract!Query, Abstract!Pending, Abstract!Answer
<1>. QED
  BY <1>1 DEF Effect, Abstract!Next

LEMMA BootEffect ==
    ASSUME ~booted, UNCHANGED <<Op, Arg, Reply, TodoOf>>,
           \/ \E k \in DOMAIN Defaults : /\ ~(Cardinality(Members) >= MaxCards)
                                         /\ Members' = Members \cup {Defaults[k]} /\ UNCHANGED booted
           \/ /\ \/ \A k \in DOMAIN Defaults : Defaults[k] \in Members
                 \/ Cardinality(Members) >= MaxCards
                 \/ Malloc
              /\ booted' = TRUE /\ UNCHANGED Members
    PROVE  Abstract!Next
<1>1. Abstract!Boot
  BY SameCount DEF Op, Arg, Reply, TodoOf, Malloc, Abstract!Boot, Abstract!DefaultIds, Abstract!Full
<1>. QED
  BY <1>1 DEF Abstract!Next

LEMMA InvokeEffect ==
    ASSUME NEW t \in Tasks, booted, Op[t] = "boot", UNCHANGED <<Members, TodoOf, booted>>,
           NEW o \in Api, NEW i \in Ids, Op' = [Op EXCEPT ![t] = o], Arg' = [Arg EXCEPT ![t] = i],
           Reply' = [Reply EXCEPT ![t] = IF o = "remove" /\ i = Admin THEN "NOT_SUPPORTED" ELSE None]
    PROVE  Abstract!Next
<1>1. Abstract!Invoke(t)
  BY DEF Op, Arg, Reply, TodoOf, Abstract!Invoke, Abstract!Answer, Abstract!Ops, Api
<1>. QED
  BY <1>1 DEF Abstract!Next

LEMMA RespondEffect ==
    ASSUME NEW t \in Tasks, Op[t] # "boot", Reply[t] # None, UNCHANGED <<Members, TodoOf, booted>>,
           Op' = [Op EXCEPT ![t] = "boot"], Arg' = [Arg EXCEPT ![t] = Admin],
           Reply' = [Reply EXCEPT ![t] = None]
    PROVE  Abstract!Next
<1>1. Abstract!Respond(t)
  BY DEF Op, Arg, Reply, TodoOf, Abstract!Respond, Abstract!Answer
<1>. QED
  BY <1>1 DEF Abstract!Next

\* A step of a task shows in its own entries only.
LEMMA ShownStep ==
    ASSUME NEW t \in Tasks, Others(t)
    PROVE  /\ Op' = [Op EXCEPT ![t] = Op'[t]] /\ Op'[t] = top'[t] /\ Op[t] = top[t]
           /\ Arg' = [Arg EXCEPT ![t] = Arg'[t]]
           /\ Arg'[t] = (IF top'[t] = "reset" THEN Admin ELSE id'[t])
           /\ Arg[t] = (IF top[t] = "reset" THEN Admin ELSE id[t])
           /\ Reply' = [Reply EXCEPT ![t] = Reply'[t]]
           /\ Reply'[t] = (IF top'[t] = "reset" /\ pc'[t] # "done" THEN None ELSE res'[t])
           /\ Reply[t] = (IF top[t] = "reset" /\ pc[t] # "done" THEN None ELSE res[t])
           /\ TodoOf' = [TodoOf EXCEPT ![t] = Todo(t)'] /\ TodoOf'[t] = Todo(t)'
           /\ TodoOf[t] = Todo(t)
<1>1. \A u \in Tasks \ {t} :
         /\ pc'[u] = pc[u] /\ top'[u] = top[u] /\ fn'[u] = fn[u]
         /\ id'[u] = id[u] /\ nxt'[u] = nxt[u] /\ res'[u] = res[u]
  BY DEF Others, Threads
<1>2. \A u \in Tasks \ {t} : InReset(u)' = InReset(u) /\ Todo(u)' = Todo(u)
  BY <1>1 DEF InReset, Todo
<1>3. Op' = [Op EXCEPT ![t] = Op'[t]] /\ Op'[t] = top'[t] /\ Op[t] = top[t]
  BY <1>1 DEF Op
<1>4. /\ Arg' = [Arg EXCEPT ![t] = Arg'[t]]
      /\ Arg'[t] = (IF top'[t] = "reset" THEN Admin ELSE id'[t])
      /\ Arg[t] = (IF top[t] = "reset" THEN Admin ELSE id[t])
  BY <1>1 DEF Arg
<1>5. /\ Reply' = [Reply EXCEPT ![t] = Reply'[t]]
      /\ Reply'[t] = (IF top'[t] = "reset" /\ pc'[t] # "done" THEN None ELSE res'[t])
      /\ Reply[t] = (IF top[t] = "reset" /\ pc[t] # "done" THEN None ELSE res[t])
  BY <1>1 DEF Reply, InReset
<1>6. TodoOf' = [TodoOf EXCEPT ![t] = Todo(t)'] /\ TodoOf'[t] = Todo(t)' /\ TodoOf[t] = Todo(t)
  BY <1>2 DEF TodoOf
<1>. QED
  BY <1>3, <1>4, <1>5, <1>6

\* A task whose part in a reset stays the same.
LEMMA TodoSame ==
    ASSUME NEW t \in Tasks, Others(t), Todo(t)' = Todo(t)
    PROVE  UNCHANGED TodoOf
BY ShownStep DEF TodoOf

\* A task's entries that do not change.
LEMMA ShownSame ==
    ASSUME NEW t \in Tasks, Others(t), top'[t] = top[t]
    PROVE  /\ UNCHANGED Op
           /\ id'[t] = id[t] \/ top[t] = "reset" => UNCHANGED Arg
           /\ Reply'[t] = Reply[t] => UNCHANGED Reply
           /\ Todo(t)' = Todo(t) => UNCHANGED TodoOf
<1>1. UNCHANGED Op
  BY ShownStep DEF Op
<1>2. ASSUME id'[t] = id[t] \/ top[t] = "reset" PROVE UNCHANGED Arg
  <2>1. Arg'[t] = Arg[t]
    BY <1>2, ShownStep
  <2>2. Arg' = [Arg EXCEPT ![t] = Arg[t]]
    BY <2>1, ShownStep
  <2>. QED
    BY <2>2 DEF Arg
<1>3. ASSUME Reply'[t] = Reply[t] PROVE UNCHANGED Reply
  <2>1. Reply' = [Reply EXCEPT ![t] = Reply[t]]
    BY <1>3, ShownStep
  <2>. QED
    BY <2>1 DEF Reply
<1>4. Todo(t)' = Todo(t) => UNCHANGED TodoOf
  BY TodoSame
<1>. QED
  BY <1>1, <1>2, <1>3, <1>4

\* app_main's steps show in the set of cards only.
LEMMA ShownMain ==
    ASSUME Others(Main)
    PROVE  UNCHANGED <<Op, Arg, Reply, TodoOf>>
<1>1. \A u \in Tasks :
         /\ pc'[u] = pc[u] /\ top'[u] = top[u] /\ fn'[u] = fn[u]
         /\ id'[u] = id[u] /\ nxt'[u] = nxt[u] /\ res'[u] = res[u]
  BY TasksAssumption DEF Others, Threads
<1>2. \A u \in Tasks : InReset(u)' = InReset(u) /\ Todo(u)' = Todo(u)
  BY <1>1 DEF InReset, Todo
<1>. QED
  BY <1>1, <1>2 DEF Op, Arg, Reply, TodoOf

\* The set of cards: what the file holds, except while it is rewritten.
LEMMA MembersAre ==
    ASSUME Inv, NEW t \in Threads, pc[t] \in Section \/ owner = None
    PROVE  IF pc[t] = "cards_write" /\ fn[t] = "remove"
             THEN Members = CardIds(buf) \cup {id[t]}
             ELSE Members = Held
<1>1. \A u \in Threads : u # t => pc[u] # "cards_write"
  BY TasksAssumption DEF Inv, Mutex, Section, Threads
<1>2. CASE pc[t] = "cards_write" /\ fn[t] = "remove"
  <2>1. Rewriter = {t}
    BY <1>1, <1>2 DEF Rewriter
  <2>. QED
    BY <1>2, <2>1 DEF Members
<1>3. CASE ~(pc[t] = "cards_write" /\ fn[t] = "remove")
  <2>1. Rewriter = {}
    BY <1>1, <1>3 DEF Rewriter
  <2>. QED
    BY <1>3, <2>1 DEF Members, Held
<1>. QED
  BY <1>2, <1>3

\* The same after a step.
LEMMA MembersNext ==
    ASSUME Inv', NEW t \in Threads, pc'[t] \in Section \/ owner' = None
    PROVE  IF pc'[t] = "cards_write" /\ fn'[t] = "remove"
             THEN Members' = CardIds(buf') \cup {id'[t]}
             ELSE Members' = Held'
<1>1. \A u \in Threads : u # t => pc'[u] # "cards_write"
  BY TasksAssumption DEF Inv, Mutex, Section, Threads
<1>2. CASE pc'[t] = "cards_write" /\ fn'[t] = "remove"
  <2>1. Rewriter' = {t}
    BY <1>1, <1>2 DEF Rewriter
  <2>. QED
    BY <1>2, <2>1 DEF Members
<1>3. CASE ~(pc'[t] = "cards_write" /\ fn'[t] = "remove")
  <2>1. Rewriter' = {}
    BY <1>1, <1>3 DEF Rewriter
  <2>. QED
    BY <1>3, <2>1 DEF Members, Held
<1>. QED
  BY <1>2, <1>3

\* A step outside the section does not touch the set of cards.
LEMMA MembersOutside ==
    ASSUME Inv, Inv', NEW t \in Threads, Others(t), pc[t] \notin Section, pc'[t] # "cards_write",
           UNCHANGED <<cards, buf>>
    PROVE  UNCHANGED Members
<1>1. \A u \in Threads : (pc'[u] = "cards_write" /\ fn'[u] = "remove")
                          <=> (pc[u] = "cards_write" /\ fn[u] = "remove")
  BY DEF Others, Section
<1>2. Rewriter' = Rewriter
  BY <1>1 DEF Rewriter
<1>3. \A u \in Rewriter : id'[u] = id[u]
  BY DEF Others, Rewriter, Section
<1>4. {id[u] : u \in Rewriter}' = {id[u] : u \in Rewriter}
  BY <1>2, <1>3
<1>. QED
  BY <1>2, <1>4 DEF Members

-----------------------------------------------------------------------------
(* Each step of the model is a step of RfidDb, or nothing to it.            *)

\* A step inside a function, which changes neither its call nor its result.
LEMMA SilentStep ==
    ASSUME Inv, NEW t \in Threads, Others(t), UNCHANGED <<calls, res, booted, Members>>,
           pc[t] # "done", pc'[t] # "done"
    PROVE  UNCHANGED Abstract!vars
<1>1. CASE t = Main
  BY <1>1, ShownMain, Stutter DEF Shown
<1>2. CASE t \in Tasks
  <2>1. UNCHANGED <<top, fn, id, nxt, res>>
    BY DEF calls
  <2>2. Reply'[t] = Reply[t]
    BY <1>2, <2>1, ShownStep
  <2>3. Todo(t)' = Todo(t)
    BY <2>1 DEF Todo, InReset
  <2>. QED
    BY <1>2, <2>1, <2>2, <2>3, ShownSame, Stutter DEF Shown
<1>. QED
  BY <1>1, <1>2 DEF Threads

\* The call of a task takes effect when its section ends.
LEMMA EndEffect ==
    ASSUME Inv, Linked, NEW t \in Tasks, Others(t), pc[t] \in Section \ {"give"}, NEW r,
           Finish(t, r), UNCHANGED <<calls, booted>>, top[t] # "reset"
    PROVE  Effect(t, r) /\ Op[t] = fn[t] /\ Arg[t] = id[t] /\ UNCHANGED TodoOf
<1>1. t \in Threads /\ Claims(t) /\ UNCHANGED <<top, fn, id, nxt>>
  BY DEF Threads, Linked, calls
<1>2. pc[t] \notin {"idle", "give", "done"}
  BY DEF Section
<1>3. top[t] = fn[t] /\ res[t] = None
  BY <1>1, <1>2 DEF Claims, CallOf
<1>4. res'[t] = r /\ pc'[t] = "give"
  BY <1>1 DEF Finish, Go, Inv, ControlOK
<1>5. booted
  BY <1>2, AfterBoot
<1>6. Todo(t)' = Todo(t)
  BY <1>1 DEF Todo, InReset
<1>7. Reply[t] = None /\ Reply' = [Reply EXCEPT ![t] = r]
  <2>1. Reply'[t] = r
    BY <1>1, <1>4, ShownStep
  <2>. QED
    BY <1>3, <2>1, ShownStep
<1>8. UNCHANGED <<Op, Arg, TodoOf>>
  BY <1>1, <1>6, ShownSame
<1>9. Op[t] = fn[t] /\ Arg[t] = id[t]
  BY <1>3, ShownStep
<1>. QED
  BY <1>5, <1>7, <1>8, <1>9 DEF Effect

\* A section of a reset moves its counter on, unless it failed.
LEMMA EndReset ==
    ASSUME Inv, Linked, NEW t \in Tasks, Others(t), pc[t] \in Section \ {"give"}, NEW r,
           Finish(t, r), UNCHANGED <<calls, booted>>, top[t] = "reset"
    PROVE  /\ booted /\ Op[t] = "reset" /\ Reply[t] = None /\ UNCHANGED <<Op, Arg, Reply>>
           /\ fn[t] \in {"format", "add"}
           /\ fn[t] = "format" => /\ TodoOf[t] = 0
                                  /\ r = "OK" => TodoOf' = [TodoOf EXCEPT ![t] = 1]
           /\ fn[t] = "add" =>
                /\ nxt[t] \in DOMAIN Defaults /\ id[t] = Defaults[nxt[t]] /\ TodoOf[t] = nxt[t]
                /\ r \in {"OK", "INVALID_STATE"} => TodoOf' = [TodoOf EXCEPT ![t] = nxt[t] + 1]
                /\ r = "NO_MEM" => UNCHANGED TodoOf
<1>1. t \in Threads /\ Claims(t) /\ UNCHANGED <<top, fn, id, nxt>>
  BY DEF Threads, Linked, calls
<1>2. pc[t] \notin {"idle", "give", "done", "mk_exists"}
  BY DEF Section
<1>3. fn[t] \in {"format", "add"} /\ res[t] = None
  BY <1>1, <1>2 DEF Claims, CallOf, FunctionOf, Api
<1>4. res'[t] = r /\ pc'[t] = "give"
  BY <1>1 DEF Finish, Go, Inv, ControlOK
<1>5. booted
  BY <1>2, AfterBoot
<1>6. None \notin {"OK", "INVALID_STATE"}
  BY NoneAssumption DEF Results
<1>7. InReset(t) /\ InReset(t)'
  BY <1>1, <1>2, <1>4 DEF InReset
<1>8. fn[t] = "format" => Todo(t) = 0 /\ (r = "OK" => Todo(t)' = 1)
  BY <1>1, <1>3, <1>4, <1>6, <1>7 DEF Todo
<1>9. fn[t] = "add" => /\ Todo(t) = nxt[t]
                       /\ r \in {"OK", "INVALID_STATE"} => Todo(t)' = nxt[t] + 1
                       /\ r = "NO_MEM" => Todo(t)' = nxt[t]
  BY <1>1, <1>3, <1>4, <1>6, <1>7 DEF Todo
<1>10. fn[t] = "add" => nxt[t] \in DOMAIN Defaults /\ id[t] = Defaults[nxt[t]]
  BY <1>1, <1>2 DEF Claims, CallOf, Next_default
<1>11. Op[t] = "reset" /\ Reply[t] = None /\ UNCHANGED <<Op, Arg, Reply>>
  BY <1>1, <1>2, <1>4, ShownStep, ShownSame
<1>12. TodoOf[t] = Todo(t) /\ TodoOf' = [TodoOf EXCEPT ![t] = Todo(t)']
  BY ShownStep
<1>13. UNCHANGED Todo(t) => UNCHANGED TodoOf
  BY <1>1, ShownSame
<1>. QED
  BY <1>3, <1>5, <1>8, <1>9, <1>10, <1>11, <1>12, <1>13

\* A section of app_main shows in the set of cards only.
LEMMA EndMain ==
    ASSUME Inv, Others(Main), pc[Main] # "idle", UNCHANGED booted
    PROVE  ~booted /\ UNCHANGED <<Op, Arg, Reply, TodoOf, booted>>
BY ShownMain DEF Inv, BootFirst

\* A section that ends without changing what RfidDb shows.
LEMMA FailedReset ==
    ASSUME Inv, Linked, NEW t \in Threads, Others(t), pc[t] \in Section \ {"give"},
           Finish(t, "NO_MEM"), UNCHANGED <<calls, booted, Members>>, fn[t] = "add",
           t \in Tasks => top[t] = "reset"
    PROVE  UNCHANGED Abstract!vars
<1>1. CASE t = Main
  BY <1>1, ShownMain, Stutter DEF Shown
<1>2. CASE t \in Tasks
  BY <1>2, EndReset, Stutter DEF Shown
<1>. QED
  BY <1>1, <1>2 DEF Threads

\* A section that ends, and leaves the set of cards alone, before and after.
LEMMA EndsHeld ==
    ASSUME Inv, Inv', NEW t \in Threads, pc[t] \in Section \ {"cards_write"}, NEW r,
           Finish(t, r), UNCHANGED cards
    PROVE  Members = Held /\ Members' = Held
<1>1. pc'[t] = "give" /\ Held' = Held
  BY DEF Finish, Go, Inv, ControlOK, Held
<1>. QED
  BY <1>1, MembersAre, MembersNext, SectionPoints

\* malloc fails: the call answers so; a reset or the boot goes no further.
LEMMA ReadFailsDoes ==
    ASSUME NoDiskFaults, Inv, Inv', Steady, Linked, NEW t \in Threads, ReadFails(t)
    PROVE  Abstract!Next \/ UNCHANGED Abstract!vars
<1>1. /\ Malloc /\ pc[t] = "read" /\ fn[t] \in Allocates /\ Finish(t, "NO_MEM")
      /\ UNCHANGED <<hdr, cards, owner, db, buf, calls, booted>> /\ Others(t)
  BY OnlyMalloc, StepOthers DEF Step
<1>2. UNCHANGED Members
  BY <1>1, EndsHeld, SectionPoints
<1>3. CASE t \in Tasks /\ top[t] # "reset"
  <2>1. Effect(t, "NO_MEM") /\ Op[t] = fn[t] /\ UNCHANGED TodoOf
    BY <1>1, <1>3, EndEffect, SectionPoints
  <2>. QED
    BY <1>1, <1>2, <2>1, NoMemoryEffect, QueryEffect DEF TakesId, Allocates
<1>4. CASE ~(t \in Tasks /\ top[t] # "reset")
  <2>1. fn[t] = "add"
    BY <1>1, <1>4 DEF TakesId, Allocates, Linked, Claims, CallOf, BootOf, Threads
  <2>. QED
    BY <1>1, <1>2, <1>4, <2>1, FailedReset, SectionPoints
<1>. QED
  BY <1>3, <1>4

\* add_card finds the card, or no room: its call is over.
LEMMA ReadAddDoes ==
    ASSUME NoDiskFaults, Inv, Inv', Steady, Linked, NEW t \in Threads, ReadAdd(t)
    PROVE  Abstract!Next \/ UNCHANGED Abstract!vars
<1>1. /\ pc[t] = "read" /\ fn[t] = "add" /\ UNCHANGED <<cards, owner, buf, calls, booted>>
      /\ Agree /\ Others(t)
  BY StepOthers DEF ReadAdd, Reading, Step, Steady, AtPoint
<1>2a. PICK h \in HdrReads(FALSE) : \E s \in CardReads(h.count, FALSE) :
         \/ Has(s, id[t]) /\ Finish(t, "INVALID_STATE")
         \/ ~Has(s, id[t]) /\ h.count >= h.max /\ Finish(t, "NO_MEM")
         \/ Go(t, "hdr_open") /\ UNCHANGED res
  BY AllReading DEF ReadAdd
<1>2. PICK s \in CardReads(h.count, FALSE) :
         \/ Has(s, id[t]) /\ Finish(t, "INVALID_STATE")
         \/ ~Has(s, id[t]) /\ h.count >= h.max /\ Finish(t, "NO_MEM")
         \/ Go(t, "hdr_open") /\ UNCHANGED res
  BY <1>2a
<1>3. /\ h.count = Length /\ h.max = MaxCards /\ (Has(s, id[t]) <=> id[t] \in Held)
      /\ Cardinality(Held) = Length
  BY <1>1, ReadHeld, HeldCount
<1>4. ASSUME id[t] \in Held, Finish(t, "INVALID_STATE")
      PROVE  Abstract!Next \/ UNCHANGED Abstract!vars
  <2>1. Members = Held /\ UNCHANGED Members
    BY <1>1, <1>4, EndsHeld, SectionPoints
  <2>2. CASE t = Main
    BY <1>1, <2>1, <2>2, ShownMain, Stutter DEF Shown
  <2>3. CASE t \in Tasks /\ top[t] # "reset"
    <3>1. Effect(t, "INVALID_STATE") /\ Op[t] = "add" /\ Arg[t] = id[t] /\ UNCHANGED TodoOf
      BY <1>1, <1>4, <2>3, EndEffect, SectionPoints
    <3>. QED
      BY <1>4, <2>1, <3>1, AddEffect
  <2>4. CASE t \in Tasks /\ top[t] = "reset"
    <3>1. /\ booted /\ Op[t] = "reset" /\ Reply[t] = None /\ UNCHANGED <<Op, Arg, Reply>>
          /\ nxt[t] \in DOMAIN Defaults /\ id[t] = Defaults[nxt[t]] /\ TodoOf[t] = nxt[t]
          /\ TodoOf' = [TodoOf EXCEPT ![t] = nxt[t] + 1]
      BY <1>1, <1>4, <2>4, EndReset, SectionPoints
    <3>2. Members' = Members \cup {Defaults[nxt[t]]} /\ Defaults[nxt[t]] \in Members
      BY <1>4, <2>1, <3>1
    <3>. QED
      BY <1>1, <2>4, <3>1, <3>2, ResetEffect
  <2>. QED
    BY <2>2, <2>3, <2>4 DEF Threads
<1>5. ASSUME id[t] \notin Held, Length >= MaxCards, Finish(t, "NO_MEM")
      PROVE  Abstract!Next \/ UNCHANGED Abstract!vars
  <2>1. Members = Held /\ UNCHANGED Members
    BY <1>1, <1>5, EndsHeld, SectionPoints
  <2>2. CASE t \in Tasks /\ top[t] # "reset"
    <3>1. Effect(t, "NO_MEM") /\ Op[t] = "add" /\ Arg[t] = id[t] /\ UNCHANGED TodoOf
      BY <1>1, <1>5, <2>2, EndEffect, SectionPoints
    <3>. QED
      BY <1>3, <1>5, <2>1, <3>1, AddEffect
  <2>3. CASE ~(t \in Tasks /\ top[t] # "reset")
    BY <1>1, <1>5, <2>1, <2>3, FailedReset, SectionPoints
  <2>. QED
    BY <2>2, <2>3
<1>6. CASE Go(t, "hdr_open") /\ UNCHANGED res
  <2>1. pc'[t] = "hdr_open" /\ Held' = Held
    BY <1>1, <1>6 DEF Go, Inv, ControlOK, Held
  <2>2. UNCHANGED Members
    BY <1>1, <2>1, MembersAre, MembersNext, SectionPoints
  <2>. QED
    BY <1>1, <1>6, <2>1, <2>2, SilentStep
<1>. QED
  BY <1>2, <1>3, <1>4, <1>5, <1>6

\* remove_card finds no such card: its call is over.
LEMMA ReadRemoveDoes ==
    ASSUME NoDiskFaults, Inv, Inv', Steady, Linked, NEW t \in Threads, ReadRemove(t)
    PROVE  Abstract!Next \/ UNCHANGED Abstract!vars
<1>1. /\ pc[t] = "read" /\ fn[t] = "remove" /\ UNCHANGED <<cards, owner, calls, booted>>
      /\ Agree /\ Others(t)
  BY StepOthers DEF ReadRemove, Reading, Step, Steady, AtPoint
<1>2a. PICK h \in HdrReads(FALSE) : \E s \in CardReads(h.count, FALSE) :
         \/ ~Has(s, id[t]) /\ Finish(t, "NOT_FOUND")
         \/ Go(t, "hdr_open") /\ UNCHANGED res
  BY AllReading DEF ReadRemove
<1>2. PICK s \in CardReads(h.count, FALSE) :
         \/ ~Has(s, id[t]) /\ Finish(t, "NOT_FOUND")
         \/ Go(t, "hdr_open") /\ UNCHANGED res
  BY <1>2a
<1>3. CASE ~Has(s, id[t]) /\ Finish(t, "NOT_FOUND")
  <2>1. id[t] \notin Held
    BY <1>1, <1>3, ReadHeld
  <2>2. Members = Held /\ UNCHANGED Members
    BY <1>1, <1>3, EndsHeld, SectionPoints
  <2>3. t \in Tasks /\ top[t] # "reset"
    BY <1>1 DEF Linked, Claims, CallOf, BootOf, Threads
  <2>4. Effect(t, "NOT_FOUND") /\ Op[t] = "remove" /\ Arg[t] = id[t] /\ UNCHANGED TodoOf
    BY <1>1, <1>3, <2>3, EndEffect, SectionPoints
  <2>. QED
    BY <2>1, <2>2, <2>4, RemoveEffect
<1>4. CASE Go(t, "hdr_open") /\ UNCHANGED res
  <2>1. pc'[t] = "hdr_open" /\ Held' = Held
    BY <1>1, <1>4 DEF Go, Inv, ControlOK, Held
  <2>2. UNCHANGED Members
    BY <1>1, <2>1, MembersAre, MembersNext, SectionPoints
  <2>. QED
    BY <1>1, <1>4, <2>1, <2>2, SilentStep
<1>. QED
  BY <1>2, <1>3, <1>4

\* check_card answers whether the card is in the database; its record is active.
LEMMA ReadCheckDoes ==
    ASSUME NoDiskFaults, Inv, Inv', Steady, Linked, NEW t \in Threads, ReadCheck(t)
    PROVE  Abstract!Next \/ UNCHANGED Abstract!vars
<1>1. /\ pc[t] = "read" /\ fn[t] = "check" /\ UNCHANGED <<cards, calls, booted>>
      /\ Agree /\ Others(t)
  BY StepOthers DEF ReadCheck, Reading, Step, Steady, AtPoint
<1>2a. PICK h \in HdrReads(FALSE) : \E s \in CardReads(h.count, FALSE) :
         Finish(t, IF ~Has(s, id[t]) THEN "NOT_FOUND"
                   ELSE IF s[First(s, id[t])].active THEN "OK" ELSE "INVALID_STATE")
  BY AllReading DEF ReadCheck
<1>2. PICK s \in CardReads(h.count, FALSE) :
         Finish(t, IF ~Has(s, id[t]) THEN "NOT_FOUND"
                   ELSE IF s[First(s, id[t])].active THEN "OK" ELSE "INVALID_STATE")
  BY <1>2a
<1>3. Clean(s) /\ (Has(s, id[t]) <=> id[t] \in Held)
  BY <1>1, ReadHeld
<1>4. Has(s, id[t]) => s[First(s, id[t])].active
  BY <1>3, FirstFound DEF Clean
<1>5. Finish(t, IF id[t] \in Held THEN "OK" ELSE "NOT_FOUND")
  BY <1>2, <1>3, <1>4
<1>6. Members = Held /\ UNCHANGED Members
  BY <1>1, <1>5, EndsHeld, SectionPoints
<1>7. t \in Tasks /\ top[t] # "reset"
  BY <1>1 DEF Linked, Claims, CallOf, BootOf, Threads
<1>8. /\ Effect(t, IF id[t] \in Held THEN "OK" ELSE "NOT_FOUND")
      /\ Op[t] = "check" /\ Arg[t] = id[t] /\ UNCHANGED TodoOf
  BY <1>1, <1>5, <1>7, EndEffect, SectionPoints
<1>. QED
  BY <1>6, <1>8, CheckEffect

\* The answers that only show the cards.
LEMMA ReadQueryDoes ==
    ASSUME Inv, Inv', Linked, NEW t \in Threads, ReadCount(t) \/ ReadList(t) \/ ReadJson(t)
    PROVE  Abstract!Next \/ UNCHANGED Abstract!vars
<1>1. /\ pc[t] = "read" /\ fn[t] \in {"count", "list", "json"} /\ UNCHANGED <<cards, calls, booted>>
      /\ Others(t)
  BY StepOthers DEF ReadCount, ReadList, ReadJson, Reading, Step
<1>2. PICK r \in {"OK", "NO_MEM"} : Finish(t, r) /\ (r = "NO_MEM" => fn[t] # "count")
  BY DEF ReadCount, ReadList, ReadJson, Reading
<1>3. UNCHANGED Members
  BY <1>1, <1>2, EndsHeld, SectionPoints
<1>4. t \in Tasks /\ top[t] # "reset"
  BY <1>1 DEF Linked, Claims, CallOf, BootOf, Threads
<1>5. Effect(t, r) /\ Op[t] = fn[t] /\ UNCHANGED TodoOf
  BY <1>1, <1>2, <1>4, EndEffect, SectionPoints
<1>. QED
  BY <1>1, <1>2, <1>3, <1>5, QueryEffect

\* is_database_valid finds that the size of the cards file fits the count.
LEMMA ReadValidDoes ==
    ASSUME NoDiskFaults, Inv, Inv', Steady, Linked, NEW t \in Threads, ReadValid(t)
    PROVE  Abstract!Next \/ UNCHANGED Abstract!vars
<1>1. /\ pc[t] = "read" /\ fn[t] = "valid" /\ UNCHANGED <<cards, calls, booted>>
      /\ Agree /\ Others(t)
  BY StepOthers DEF ReadValid, Reading, Step, Steady, AtPoint
<1>2. /\ hdr \in Header /\ HdrReads(FALSE) = {hdr} /\ hdr.count = Length /\ hdr.max = MaxCards
      /\ Length <= MaxCards /\ Length \in Nat
  BY <1>1, HeldCount, SizesAssumption DEF Agree, Header, HdrReads
<1>3. Loaded(hdr)
  BY <1>2 DEF Loaded, Length
<1>4. hdr.count = 0 \/ SizeMatches(hdr)
  <2>. SUFFICES ASSUME cards # NoFile PROVE SizeMatches(hdr)
    BY <1>2 DEF Length
  <2>1. cards \in Seq(Record) /\ Len(cards) = hdr.count
    BY <1>1, <1>2 DEF Agree, CleanCards, Clean, Length
  <2>. QED
    BY <2>1, ElementOfSeq, LenProperties, FilesAssumption DEF SizeMatches
<1>5. Finish(t, "OK")
  BY <1>2, <1>3, <1>4, AllReading DEF ReadValid, Acceptable
<1>6. UNCHANGED Members
  BY <1>1, <1>5, EndsHeld, SectionPoints
<1>7. t \in Tasks /\ top[t] # "reset"
  BY <1>1 DEF Linked, Claims, CallOf, BootOf, Threads
<1>8. Effect(t, "OK") /\ Op[t] = "valid" /\ UNCHANGED TodoOf
  BY <1>1, <1>5, <1>7, EndEffect, SectionPoints
<1>. QED
  BY <1>6, <1>8, ValidOrSaveEffect

\* load_from_file is app_main's; it shows nothing.
LEMMA ReadLoadDoes ==
    ASSUME Inv, Inv', NEW t \in Threads, ReadLoad(t)
    PROVE  Abstract!Next \/ UNCHANGED Abstract!vars
<1>1. pc[t] = "read" /\ fn[t] = "load" /\ UNCHANGED <<cards, booted>> /\ Others(t) /\ t = Main
  BY StepOthers DEF ReadLoad, Reading, Step, Inv, HeaderThere, Threads
<1>2. PICK r : Finish(t, r)
  BY DEF ReadLoad
<1>3. UNCHANGED Members
  BY <1>1, <1>2, EndsHeld, SectionPoints
<1>. QED
  BY <1>1, <1>3, ShownMain, Stutter DEF Shown

\* Inside the section, before the cards file is touched.
LEMMA HeaderStepDoes ==
    ASSUME Inv, Inv', NEW t \in Threads, Others(t), pc[t] \in {"read", "hdr_open", "hdr_write"},
           NEW p \in {"hdr_open", "hdr_write", "cards_open", "cards_del"},
           pc' = [pc EXCEPT ![t] = p], UNCHANGED <<cards, calls, res, booted>>
    PROVE  Abstract!Next \/ UNCHANGED Abstract!vars
<1>1. pc'[t] = p /\ Held' = Held
  BY DEF Inv, ControlOK, Held
<1>2. UNCHANGED Members
  BY <1>1, MembersAre, MembersNext DEF Section
<1>. QED
  BY <1>1, <1>2, SilentStep

LEMMA ReadSaveDoes ==
    ASSUME Inv, Inv', NEW t \in Threads, ReadSave(t)
    PROVE  Abstract!Next \/ UNCHANGED Abstract!vars
<1>1. Others(t)
  BY StepOthers DEF Step
<1>. QED
  BY <1>1, HeaderStepDoes DEF ReadSave, Reading, Go

LEMMA HdrOpenDoes ==
    ASSUME Inv, Inv', NoDiskFaults, NEW t \in Threads, HdrOpen(t)
    PROVE  Abstract!Next \/ UNCHANGED Abstract!vars
<1>1. Others(t)
  BY StepOthers DEF Step
<1>2. pc' = [pc EXCEPT ![t] = "hdr_write"] /\ UNCHANGED res
  BY DEF HdrOpen, Fault, Unnoticed, StatLies, Happens, NoDiskFaults, Go
<1>. QED
  BY <1>1, <1>2, HeaderStepDoes DEF HdrOpen

\* The header is written: save_to_file is over, the others go on to the cards.
LEMMA HdrWriteDoes ==
    ASSUME Inv, Inv', Steady, Linked, NoDiskFaults, NEW t \in Threads, HdrWrite(t)
    PROVE  Abstract!Next \/ UNCHANGED Abstract!vars
<1>1. /\ pc[t] = "hdr_write" /\ HdrWritten(t) /\ UNCHANGED <<cards, calls, booted>> /\ Others(t)
  BY StepOthers DEF HdrWrite, Fault, Unnoticed, StatLies, Happens, NoDiskFaults, Step
<1>2. fn[t] \in {"add", "remove", "format", "save"}
  BY <1>1 DEF Steady, AtPoint, Plan
<1>3. CASE fn[t] = "save"
  <2>1. Finish(t, "OK")
    BY <1>1, <1>3 DEF HdrWritten
  <2>2. UNCHANGED Members
    BY <1>1, <2>1, EndsHeld, SectionPoints
  <2>3. t \in Tasks /\ top[t] # "reset"
    BY <1>1, <1>3 DEF Linked, Claims, CallOf, BootOf, Threads
  <2>4. Effect(t, "OK") /\ Op[t] = "save" /\ UNCHANGED TodoOf
    BY <1>1, <1>3, <2>1, <2>3, EndEffect, SectionPoints
  <2>. QED
    BY <2>2, <2>4, ValidOrSaveEffect
<1>4. CASE fn[t] # "save"
  <2>1. PICK p \in {"cards_open", "cards_del"} : pc' = [pc EXCEPT ![t] = p] /\ res' = res
    BY <1>1, <1>2, <1>4 DEF HdrWritten, Go
  <2>. QED
    BY <1>1, <2>1, HeaderStepDoes
<1>. QED
  BY <1>3, <1>4

\* remove_card empties the file, but its copy still stands for the database.
LEMMA CardsOpenDoes ==
    ASSUME Inv, Inv', Steady, Linked, NoDiskFaults, NEW t \in Threads, CardsOpen(t)
    PROVE  Abstract!Next \/ UNCHANGED Abstract!vars
<1>1. /\ pc[t] = "cards_open" /\ UNCHANGED <<buf, calls, res, booted>>
      /\ pc' = [pc EXCEPT ![t] = "cards_write"] /\ Claims(t) /\ Others(t)
      /\ cards' = IF fn[t] = "add" /\ cards # NoFile THEN cards ELSE <<>>
  BY StepOthers DEF CardsOpen, Fault, Unnoticed, StatLies, Happens, NoDiskFaults, Go, Step, Linked
<1>2. pc'[t] = "cards_write" /\ fn'[t] = fn[t] /\ id'[t] = id[t]
  BY <1>1 DEF Inv, ControlOK, calls
<1>3. fn[t] \in {"add", "remove"} /\ Members = Held
  BY <1>1, MembersAre, SectionPoints DEF Steady, AtPoint
<1>4. CASE fn[t] = "add"
  <2>1. Held' = Held
    BY <1>1, <1>4, NoIds DEF Held
  <2>2. UNCHANGED Members
    BY <1>2, <1>3, <1>4, <2>1, MembersNext, SectionPoints
  <2>. QED
    BY <1>1, <1>2, <2>2, SilentStep
<1>5. CASE fn[t] = "remove"
  <2>1. id[t] \in Held /\ CardIds(buf) = Held \ {id[t]}
    BY <1>1, <1>5 DEF Claims, CopyOf
  <2>2. Members' = CardIds(buf) \cup {id[t]}
    BY <1>1, <1>2, <1>5, MembersNext, SectionPoints
  <2>3. UNCHANGED Members
    BY <1>3, <2>1, <2>2
  <2>. QED
    BY <1>1, <1>2, <2>3, SilentStep
<1>. QED
  BY <1>3, <1>4, <1>5

\* The moment at which add_card and remove_card take effect.
LEMMA CardsWriteDoes ==
    ASSUME Inv, Inv', Steady, Linked, NoDiskFaults, NEW t \in Threads, CardsWrite(t)
    PROVE  Abstract!Next \/ UNCHANGED Abstract!vars
<1>1. /\ pc[t] = "cards_write" /\ fn[t] \in {"add", "remove"} /\ Finish(t, "OK")
      /\ UNCHANGED <<hdr, owner, db, buf, calls, booted>> /\ Others(t) /\ Claims(t)
  BY CardsWritten, StepOthers DEF Step, Linked
<1>2. pc'[t] = "give"
  BY <1>1 DEF Finish, Go, Inv, ControlOK
<1>3. Members' = Held'
  BY <1>2, MembersNext, SectionPoints
<1>4. CASE fn[t] = "add"
  <2>1. /\ Members = Held /\ Members' = Members \cup {id[t]} /\ id[t] \notin Members
        /\ ~(Cardinality(Members) >= MaxCards)
    <3>1. Members = Held
      BY <1>1, <1>4, MembersAre, SectionPoints
    <3>2. Held' = Held \cup {id[t]} /\ id[t] \notin Held /\ Length < MaxCards /\ CleanCards
      BY <1>4, CardsWritten
    <3>3. Cardinality(Held) = Length /\ Length \in Nat
      BY <3>2, CleanIds, FS_EmptySet, LenProperties DEF CleanCards, Held, Length, Clean
    <3>. QED
      BY <1>3, <3>1, <3>2, <3>3, SizesAssumption
  <2>2. CASE t = Main
    <3>1. ~booted /\ UNCHANGED <<Op, Arg, Reply, TodoOf, booted>>
      BY <1>1, <2>2, EndMain
    <3>2. Next_default(t)
      BY <1>1, <1>4, <2>2 DEF Claims, BootOf
    <3>3. nxt[t] \in DOMAIN Defaults /\ Members' = Members \cup {Defaults[nxt[t]]}
      BY <2>1, <3>2 DEF Next_default
    <3>. QED
      BY <2>1, <3>1, <3>3, BootEffect
  <2>3. CASE t \in Tasks /\ top[t] # "reset"
    <3>1. Effect(t, "OK") /\ Op[t] = "add" /\ Arg[t] = id[t] /\ UNCHANGED TodoOf
      BY <1>1, <1>4, <2>3, EndEffect, SectionPoints
    <3>. QED
      BY <2>1, <3>1, AddEffect
  <2>4. CASE t \in Tasks /\ top[t] = "reset"
    <3>1. /\ booted /\ Op[t] = "reset" /\ Reply[t] = None /\ UNCHANGED <<Op, Arg, Reply>>
          /\ nxt[t] \in DOMAIN Defaults /\ id[t] = Defaults[nxt[t]] /\ TodoOf[t] = nxt[t]
          /\ TodoOf' = [TodoOf EXCEPT ![t] = nxt[t] + 1]
      BY <1>1, <1>4, <2>4, EndReset, SectionPoints
    <3>2. Members' = Members \cup {Defaults[nxt[t]]}
      BY <2>1, <3>1
    <3>. QED
      BY <1>1, <2>1, <2>4, <3>1, <3>2, ResetEffect
  <2>. QED
    BY <2>2, <2>3, <2>4 DEF Threads
<1>5. CASE fn[t] = "remove"
  <2>1. /\ Members = CardIds(buf) \cup {id[t]} /\ id[t] \notin CardIds(buf)
        /\ Members' = CardIds(buf)
    <3>1. Members = CardIds(buf) \cup {id[t]}
      BY <1>1, <1>5, MembersAre, SectionPoints
    <3>2. id[t] \notin CardIds(buf)
      BY <1>1, <1>5 DEF Claims, CopyOf
    <3>3. Held' = CardIds(buf)
      BY <1>5, CardsWritten
    <3>. QED
      BY <1>3, <3>1, <3>2, <3>3
  <2>2. t \in Tasks /\ top[t] # "reset" /\ id[t] # Admin
    BY <1>1, <1>5 DEF Claims, CallOf, BootOf, Threads
  <2>3. Effect(t, "OK") /\ Op[t] = "remove" /\ Arg[t] = id[t] /\ UNCHANGED TodoOf
    BY <1>1, <1>5, <2>2, EndEffect, SectionPoints
  <2>. QED
    BY <2>1, <2>2, <2>3, RemoveEffect
<1>. QED
  BY <1>1, <1>4, <1>5

\* The moment at which format_database, or the removal of the last card, takes effect.
LEMMA CardsDeleteDoes ==
    ASSUME Inv, Inv', Steady, Linked, NoDiskFaults, NEW t \in Threads, CardsDelete(t)
    PROVE  Abstract!Next \/ UNCHANGED Abstract!vars
<1>1. /\ pc[t] = "cards_del" /\ fn[t] \in {"format", "remove"} /\ Finish(t, "OK")
      /\ cards' = NoFile /\ UNCHANGED <<calls, booted>> /\ Others(t) /\ Claims(t)
  BY StepOthers DEF CardsDelete, Fault, Unnoticed, StatLies, Happens, NoDiskFaults, Step, Linked, Claims, FunctionOf
<1>2. pc'[t] = "give" /\ Held' = {}
  BY <1>1 DEF Finish, Go, Inv, ControlOK, Held
<1>3. Members' = {} /\ Members = Held
  BY <1>1, <1>2, MembersAre, MembersNext, SectionPoints
<1>4. t \in Tasks
  BY <1>1 DEF Claims, BootOf, Threads
<1>5. CASE fn[t] = "remove"
  <2>1. cards # NoFile /\ id[t] \in Held /\ CardIds(buf) = Held \ {id[t]}
    BY <1>1, <1>5 DEF Claims, CopyOf
  <2>2. Held = {id[t]}
    BY <1>1, <1>5, <2>1 DEF Claims, CopyOf
  <2>3. top[t] # "reset" /\ id[t] # Admin
    BY <1>1, <1>4, <1>5 DEF Claims, CallOf
  <2>4. Effect(t, "OK") /\ Op[t] = "remove" /\ Arg[t] = id[t] /\ UNCHANGED TodoOf
    BY <1>1, <1>4, <1>5, <2>3, EndEffect, SectionPoints
  <2>. QED
    BY <1>3, <2>2, <2>3, <2>4, RemoveEffect
<1>6. CASE fn[t] = "format" /\ top[t] # "reset"
  <2>1. Effect(t, "OK") /\ Op[t] = "format" /\ UNCHANGED TodoOf
    BY <1>1, <1>4, <1>6, EndEffect, SectionPoints
  <2>. QED
    BY <1>3, <2>1, FormatEffect
<1>7. CASE fn[t] = "format" /\ top[t] = "reset"
  <2>1. /\ booted /\ Op[t] = "reset" /\ Reply[t] = None /\ UNCHANGED <<Op, Arg, Reply>>
        /\ TodoOf[t] = 0 /\ TodoOf' = [TodoOf EXCEPT ![t] = 1]
    BY <1>1, <1>4, <1>7, EndReset, SectionPoints
  <2>. QED
    BY <1>1, <1>3, <1>4, <2>1, ResetEffect
<1>. QED
  BY <1>1, <1>5, <1>6, <1>7

\* app_main's steps outside the section show nothing.
LEMMA MainOutside ==
    ASSUME Inv, Inv', Others(Main), pc[Main] \notin Section, pc'[Main] # "cards_write",
           UNCHANGED <<cards, buf, booted>>
    PROVE  UNCHANGED Abstract!vars
BY MembersOutside, ShownMain, Stutter DEF Shown, Threads

\* The creation of the header is no step of the database.
LEMMA MkDoes ==
    ASSUME NoDiskFaults, Told, Inv, Inv', Steady, Linked, NEW t \in Threads,
           MkExists(t) \/ MkOpen(t) \/ MkWrite(t)
    PROVE  Abstract!Next \/ UNCHANGED Abstract!vars
<1>. USE TasksAssumption DEF Inv
<1>1. /\ pc[t] \in {"mk_exists", "mk_open", "mk_write"} /\ UNCHANGED <<cards, buf, top, booted>>
      /\ Others(t) /\ Claims(t)
  BY StepOthers DEF MkExists, MkOpen, MkWrite, Step, Linked
<1>2. pc[t] \notin Section /\ pc'[t] # "cards_write"
  <2>1. \E p \in {"mk_open", "mk_write", "mk_exists", "take", "done"} : pc' = [pc EXCEPT ![t] = p]
    BY LoadDefaultGoes DEF MkExists, MkOpen, MkWrite, MkDone, MkFailed, Done, Go
  <2>. QED
    BY <1>1, <2>1 DEF Section, ControlOK
<1>3. CASE t = Main
  BY <1>1, <1>2, <1>3, MainOutside
<1>4. CASE t \in Tasks
  <2>1. pc[t] = "mk_exists" /\ fn[t] = "defaults" /\ hdr # NoFile
    BY <1>1, <1>4 DEF Told, HeaderThere, Creating
  <2>2. LoadDefault(t, 1)
    BY <2>1 DEF MkExists, StatLies, Happens, NoDiskFaults, MkOpen, MkWrite, MkDone
  <2>3. nxt'[t] = 1 /\ pc'[t] = "take" /\ fn'[t] = "add" /\ res'[t] = None
    BY <1>1, <2>2, LoadDefaultTo, FirstDefault
  <2>4. top[t] = "reset" /\ top'[t] = "reset"
    BY <1>1, <1>4, <2>1 DEF Claims, CallOf, Api
  <2>5. Reply'[t] = Reply[t]
    BY <1>1, <1>4, <2>1, <2>3, <2>4, ShownStep
  <2>6. None \notin {"OK", "INVALID_STATE"}
    BY NoneAssumption DEF Results
  <2>7. Todo(t)' = Todo(t)
    <3>1. InReset(t) /\ InReset(t)'
      BY <2>1, <2>3, <2>4 DEF InReset
    <3>. QED
      BY <2>1, <2>3, <2>6, <3>1 DEF Todo
  <2>8. UNCHANGED Members
    BY <1>1, <1>2, MembersOutside
  <2>. QED
    BY <1>1, <1>4, <2>4, <2>5, <2>7, <2>8, ShownSame, Stutter DEF Shown
<1>. QED
  BY <1>3, <1>4 DEF Threads

\* Entering the section shows nothing.
LEMMA TakeDoes ==
    ASSUME Inv, Inv', NEW t \in Threads, Take(t)
    PROVE  Abstract!Next \/ UNCHANGED Abstract!vars
<1>1. pc[t] = "take" /\ UNCHANGED <<cards, buf, calls, res, booted>> /\ Others(t)
  BY StepOthers DEF Take, Step
<1>2. pc'[t] \in {"read", "hdr_open"}
  BY DEF Take, Go, Inv, ControlOK
<1>3. UNCHANGED Members
  BY <1>1, <1>2, MembersOutside DEF Section
<1>. QED
  BY <1>1, <1>2, <1>3, SilentStep

\* Leaving the section shows nothing, unless it ends a reset.
LEMMA GiveDoes ==
    ASSUME Inv, Inv', Steady, Linked, NEW t \in Threads, Give(t)
    PROVE  Abstract!Next \/ UNCHANGED Abstract!vars
<1>. USE TasksAssumption DEF Inv
<1>1. pc[t] = "give" /\ UNCHANGED <<hdr, cards, top, booted>> /\ Others(t) /\ Claims(t) /\ Agree
  BY GiveGoes, StepOthers DEF Step, Linked, Steady, AtPoint
<1>2. Members = Held /\ UNCHANGED Members
  <2>1. owner' = None /\ pc'[t] # "cards_write" /\ Held' = Held
    BY <1>1, LoadDefaultGoes DEF Give, Go, ControlOK, Held
  <2>. QED
    BY <1>1, <2>1, MembersAre, MembersNext, SectionPoints
<1>3. CASE t = Main
  BY <1>1, <1>2, <1>3, ShownMain, Stutter DEF Shown
<1>4. ASSUME t \in Tasks, top[t] # "reset" PROVE UNCHANGED Abstract!vars
  <2>1. fn[t] = top[t] /\ top[t] # "boot" /\ fn[t] # "load"
    BY <1>1, <1>4 DEF Claims, CallOf, Api
  <2>2. pc'[t] = "done" /\ UNCHANGED <<fn, id, nxt, res>>
    BY <1>4, <2>1, GiveGoes DEF GoesToDefaults, GoesToNext
  <2>3. Reply'[t] = Reply[t]
    BY <1>1, <1>4, <2>2, ShownStep
  <2>4. Todo(t)' = Todo(t)
    BY <1>1, <1>4 DEF Todo, InReset
  <2>. QED
    BY <1>1, <1>2, <1>4, <2>2, <2>3, <2>4, ShownSame, Stutter DEF Shown
<1>5. ASSUME t \in Tasks, top[t] = "reset" PROVE Abstract!Next \/ UNCHANGED Abstract!vars
  <2>. USE <1>5
  <2>1. fn[t] \in {"format", "add"} /\ InReset(t) /\ top'[t] = "reset" /\ booted
    BY <1>1, AfterBoot DEF Claims, CallOf, FunctionOf, InReset, Api
  <2>2. None \notin {"OK", "INVALID_STATE"} /\ Op[t] = "reset" /\ Reply[t] = None
    BY <1>1, NoneAssumption, ShownStep DEF Results
  <2>3. UNCHANGED <<Op, Arg>>
    BY <1>1, ShownSame
  <2>4. CASE fn[t] = "format"
    <3>1. res[t] = "OK" /\ GoesToDefaults(t)
      BY <1>1, <2>4 DEF Claims, ResultOf, GoesToDefaults
    <3>2. pc'[t] = "mk_exists" /\ fn'[t] = "defaults"
      BY <3>1, GiveGoes
    <3>3. Reply'[t] = Reply[t]
      BY <1>1, <2>1, <3>2, ShownStep
    <3>4. Todo(t)' = Todo(t)
      <4>1. InReset(t)'
        BY <2>1, <3>2 DEF InReset
      <4>. QED
        BY <2>1, <2>4, <3>1, <3>2, <4>1 DEF Todo
    <3>. QED
      BY <1>1, <1>2, <2>3, <3>3, <3>4, ShownSame, Stutter DEF Shown
  <2>5. ASSUME fn[t] = "add" PROVE Abstract!Next \/ UNCHANGED Abstract!vars
    <3>1. /\ nxt[t] \in DOMAIN Defaults /\ id[t] = Defaults[nxt[t]] /\ nxt[t] \in Nat \ {0}
          /\ \/ res[t] \in {"OK", "INVALID_STATE"} /\ id[t] \in Held
             \/ res[t] = "NO_MEM" /\ (Malloc \/ (Length >= MaxCards /\ id[t] \notin Held))
      BY <1>1, <2>5 DEF Claims, ResultOf, CallOf, Next_default, ControlOK
    <3>2. CASE res[t] \in {"OK", "INVALID_STATE"}
      <4>1. GoesToNext(t) /\ LoadDefault(t, nxt[t] + 1) /\ nxt[t] + 1 \in Nat \ {0}
        BY <2>5, <3>1, <3>2, GiveGoes DEF GoesToNext
      <4>2. Todo(t) = nxt[t] + 1 /\ TodoOf[t] = nxt[t] + 1
        BY <1>1, <2>1, <2>5, <3>2, ShownStep DEF Todo
      <4>3. CASE nxt[t] + 1 \in DOMAIN Defaults
        <5>1. pc'[t] = "take" /\ fn'[t] = "add" /\ res'[t] = None /\ nxt'[t] = nxt[t] + 1
          BY <1>1, <4>1, <4>3, LoadDefaultTo
        <5>2. Reply'[t] = Reply[t]
          BY <1>1, <2>1, <5>1, ShownStep
        <5>3. Todo(t)' = Todo(t)
          <6>1. InReset(t)'
            BY <2>1, <5>1 DEF InReset
          <6>2. Todo(t)' = nxt'[t]
            BY <2>2, <5>1, <6>1 DEF Todo
          <6>. QED
            BY <4>2, <5>1, <6>2
        <5>. QED
          BY <1>1, <1>2, <2>3, <5>2, <5>3, ShownSame, Stutter DEF Shown
      <4>4. CASE nxt[t] + 1 \notin DOMAIN Defaults
        <5>1. pc'[t] = "done" /\ res'[t] = "OK"
          BY <1>1, <4>1, <4>4, LoadDefaultTo
        <5>2. Reply' = [Reply EXCEPT ![t] = "OK"]
          BY <1>1, <2>1, <5>1, ShownStep
        <5>3. TodoOf' = [TodoOf EXCEPT ![t] = 0]
          <6>1. Todo(t)' = 0
            BY <5>1 DEF Todo, InReset
          <6>. QED
            BY <1>1, <6>1, ShownStep
        <5>4. nxt[t] + 1 > Len(Defaults)
          BY <3>1, <4>4, FirstDefault
        <5>. QED
          BY <1>1, <1>2, <2>1, <2>2, <2>3, <4>2, <5>2, <5>3, <5>4, ResetEffect
      <4>. QED
        BY <4>3, <4>4
    <3>3. CASE res[t] = "NO_MEM"
      <4>1. pc'[t] = "done" /\ res'[t] = "NO_MEM"
        BY <2>5, <3>3, GiveGoes DEF GoesToDefaults, GoesToNext
      <4>2. Todo(t) = nxt[t] /\ TodoOf[t] = nxt[t]
        BY <1>1, <2>1, <2>5, <3>3, ShownStep DEF Todo
      <4>3. Reply' = [Reply EXCEPT ![t] = "NO_MEM"]
        BY <1>1, <2>1, <4>1, ShownStep
      <4>4. TodoOf' = [TodoOf EXCEPT ![t] = 0]
        <5>1. Todo(t)' = 0
          BY <4>1 DEF Todo, InReset
        <5>. QED
          BY <1>1, <5>1, ShownStep
      <4>5. Malloc \/ (Cardinality(Members) >= MaxCards /\ Defaults[nxt[t]] \notin Members)
        BY <1>1, <1>2, <3>1, <3>3, HeldCount
      <4>. QED
        BY <1>1, <1>2, <2>1, <2>2, <2>3, <3>1, <4>2, <4>3, <4>4, <4>5, ResetEffect
    <3>. QED
      BY <3>1, <3>2, <3>3
  <2>. QED
    BY <2>1, <2>4, <2>5
<1>. QED
  BY <1>3, <1>4, <1>5 DEF Threads

\* The call returns; or app_main does, and the tasks may call.
LEMMA ReturnDoes ==
    ASSUME Inv, Inv', Steady, Linked, NEW t \in Threads, Return(t)
    PROVE  Abstract!Next \/ UNCHANGED Abstract!vars
<1>. USE TasksAssumption DEF Inv
<1>1. /\ pc[t] = "done" /\ UNCHANGED <<hdr, cards, owner, buf>> /\ Others(t) /\ Claims(t)
      /\ booted' = (booted \/ t = Main)
  BY StepOthers DEF Return, Step, Linked
<1>2. pc'[t] = "idle" /\ top'[t] = "boot" /\ id'[t] = Admin /\ res'[t] = None
  BY DEF Return, Go, ControlOK
<1>3. UNCHANGED Members
  BY <1>1, <1>2, MembersOutside DEF Section
<1>4. CASE t = Main
  <2>1. ~booted /\ booted' = TRUE
    BY <1>1, <1>4 DEF BootFirst
  <2>2. UNCHANGED <<Op, Arg, Reply, TodoOf>>
    BY <1>1, <1>4, ShownMain
  <2>3. Agree /\ Members = Held
    <3>1. \A u \in Threads : pc[u] \notin Section
      BY <1>1, <1>4, <2>1 DEF BootFirst, Section, Threads
    <3>2. owner = None
      BY <3>1 DEF DataOK, Mutex
    <3>3. hdr # NoFile
      BY <1>1, <1>4 DEF Steady, FirstBoot
    <3>4. Agree
      BY <1>1, <1>4, <3>2, <3>3 DEF Steady, Between
    <3>5. Members = Held
      BY <1>1, <3>2, MembersAre
    <3>. QED
      BY <3>4, <3>5
  <2>4. (\A k \in DOMAIN Defaults : Defaults[k] \in Members) \/ Cardinality(Members) >= MaxCards \/ Malloc
    BY <1>1, <1>4, <2>3, HeldCount DEF Claims, BootOf
  <2>. QED
    BY <1>3, <2>1, <2>2, <2>4, BootEffect
<1>5. CASE t \in Tasks
  <2>1. Op' = [Op EXCEPT ![t] = "boot"] /\ Arg' = [Arg EXCEPT ![t] = Admin]
    BY <1>1, <1>2, <1>5, ShownStep
  <2>2. Reply' = [Reply EXCEPT ![t] = None]
    BY <1>1, <1>2, <1>5, ShownStep
  <2>3. Op[t] # "boot" /\ Reply[t] # None
    BY <1>1, <1>5, ShownStep DEF Claims, CallOf, Api
  <2>4. UNCHANGED TodoOf
    <3>1. Todo(t) = 0 /\ Todo(t)' = 0
      BY <1>1, <1>2 DEF Todo, InReset
    <3>. QED
      BY <1>1, <1>5, <3>1, TodoSame
  <2>5. UNCHANGED booted
    BY <1>1, <1>5 DEF DataOK
  <2>. QED
    BY <1>3, <1>5, <2>1, <2>2, <2>3, <2>4, <2>5, RespondEffect
<1>. QED
  BY <1>4, <1>5 DEF Threads

\* A call is an invocation.
LEMMA CallDoes ==
    ASSUME Inv, Inv', Linked, NEW t \in Tasks, Call(t)
    PROVE  Abstract!Next \/ UNCHANGED Abstract!vars
<1>1. t \in Threads /\ Others(t) /\ Claims(t) /\ pc'[t] \in {"take", "done"}
  BY CallOthers, CallIs DEF Threads, Linked
<1>2. UNCHANGED Members
  BY <1>1, CallIs, MembersOutside DEF Section
<1>3. top[t] = "boot" /\ res[t] = None
  BY <1>1, CallIs DEF Claims, CallOf
<1>. DEFINE o == top'[t]
            i == IF top'[t] = "reset" THEN Admin ELSE id'[t]
<1>4. o \in Api /\ i \in Ids
  BY CallIs, IdsAssumption
<1>5. Op[t] = "boot" /\ Op' = [Op EXCEPT ![t] = o] /\ Arg' = [Arg EXCEPT ![t] = i]
  BY <1>1, <1>3, ShownStep
<1>6. Reply' = [Reply EXCEPT ![t] = IF o = "remove" /\ i = Admin THEN "NOT_SUPPORTED" ELSE None]
  <2>1. Reply'[t] = IF o = "remove" /\ i = Admin THEN "NOT_SUPPORTED" ELSE None
    BY <1>1, CallIs, ShownStep
  <2>. QED
    BY <1>1, <2>1, ShownStep
<1>7. UNCHANGED TodoOf
  <2>1. Todo(t) = 0
    BY <1>3 DEF Todo, InReset
  <2>2. Todo(t)' = 0
    <3>1. top'[t] = "reset" => fn'[t] = "format" /\ res'[t] = None
      BY CallIs
    <3>2. None # "OK"
      BY NoneAssumption DEF Results
    <3>. QED
      BY <3>1, <3>2 DEF Todo, InReset
  <2>. QED
    BY <1>1, <2>1, <2>2, TodoSame
<1>8. booted /\ UNCHANGED booted
  BY CallIs
<1>. HIDE DEF o, i
<1>. QED
  BY <1>2, <1>4, <1>5, <1>6, <1>7, <1>8, InvokeEffect

\* The database starts empty, with no calls.
LEMMA InitDoes == Init => Abstract!Init
<1>. SUFFICES ASSUME Init PROVE Abstract!Init
  OBVIOUS
<1>1. \A t \in Threads : pc[t] # "cards_write" /\ top[t] = "boot" /\ res[t] = None /\ id[t] = Admin
  BY TasksAssumption DEF Init, Booting, Threads
<1>2. Members = {}
  BY <1>1 DEF Init, Members, Rewriter
<1>3. \A t \in Tasks : top[t] = "boot" /\ ~InReset(t) /\ res[t] = None /\ id[t] = Admin /\ Todo(t) = 0
  BY <1>1 DEF InReset, Todo, Threads
<1>. QED
  BY <1>2, <1>3 DEF Init, Abstract!Init

\* Every step shows as one of RfidDb, or not at all.
LEMMA NextDoes ==
    ASSUME NoDiskFaults, Told, Inv, Inv', Steady, Linked, [Next]_vars
    PROVE  Abstract!Next \/ UNCHANGED Abstract!vars
<1>1. CASE UNCHANGED vars
  <2>1. UNCHANGED <<cards, buf, pc, top, fn, id, nxt, res, booted>>
    BY <1>1 DEF vars
  <2>2. UNCHANGED Members
    BY <2>1 DEF Members, Rewriter
  <2>3. \A u \in Tasks : InReset(u)' = InReset(u) /\ Todo(u)' = Todo(u)
    BY <2>1 DEF InReset, Todo
  <2>4. UNCHANGED <<Op, Arg, Reply, TodoOf>>
    BY <2>1, <2>3 DEF Op, Arg, Reply, TodoOf
  <2>. QED
    BY <2>1, <2>2, <2>4, Stutter DEF Shown
<1>2. ASSUME NEW t \in Tasks, Call(t) PROVE Abstract!Next \/ UNCHANGED Abstract!vars
  BY <1>2, CallDoes
<1>3. ASSUME NEW t \in Threads, Step(t) PROVE Abstract!Next \/ UNCHANGED Abstract!vars
  BY <1>3, MkDoes, TakeDoes, ReadFailsDoes, CardsThere, ReadAddDoes, ReadRemoveDoes,
     ReadCheckDoes, ReadQueryDoes, ReadLoadDoes, ReadValidDoes, ReadSaveDoes, HdrOpenDoes, HdrWriteDoes,
     CardsOpenDoes, CardsWriteDoes, CardsDeleteDoes, GiveDoes, ReturnDoes DEF Step
<1>4. CASE Crash
  BY <1>4 DEF Crash, NoDiskFaults, Inv, DataOK
<1>. QED
  BY <1>1, <1>2, <1>3, <1>4 DEF Next

\* Without disk faults and restarts, for any number of tasks: every call acts on
\* the set of cards at one moment between its call and its reply, although it
\* spreads its update over two files and other tasks call meanwhile.
THEOREM Refinement == ASSUME NoDiskFaults PROVE Spec => ImplementsRfidDb
<1>1. Init => Inv /\ Told /\ Steady /\ Linked /\ Abstract!Init
  BY InitInv, InitSteady, InitLinked, InitDoes DEF Init, Told
<1>2. Inv /\ Told /\ Steady /\ Linked /\ [Next]_vars => (Inv /\ Told /\ Steady /\ Linked)'
  BY NextInv, ToldNext, NextSteady, NextLinked
<1>3. Inv /\ Inv' /\ Told /\ Steady /\ Linked /\ [Next]_vars => [Abstract!Next]_(Abstract!vars)
  BY NextDoes
<1>. QED
  BY <1>1, <1>2, <1>3, PTL DEF Spec, ImplementsRfidDb, Abstract!Spec

-----------------------------------------------------------------------------
(* What the refinement says of the cards themselves.                        *)

\* What a step of RfidDb does to the set.
LEMMA MembersMove ==
    ASSUME Inv, [Abstract!Next]_(Abstract!vars)
    PROVE  \/ UNCHANGED Members
           \/ Members' = {} /\ \E t \in Tasks : Op[t] \in {"format", "reset"}
           \/ \E t \in Tasks : Op[t] = "remove" /\ Arg[t] # Admin /\ Members' = Members \ {Arg[t]}
           \/ \E i \in Ids : Members' = Members \cup {i} /\ (i \in Members \/ ~Abstract!Full)
<1>. DEFINE Grows(i) == Members' = Members \cup {i} /\ (i \in Members \/ ~Abstract!Full)
<1>1. CASE UNCHANGED Abstract!vars
  BY <1>1 DEF Abstract!vars
<1>2. CASE Abstract!Boot
  <2>1. Abstract!DefaultIds \subseteq Ids
    BY DefaultsAre DEF Abstract!DefaultIds
  <2>2. UNCHANGED Members \/ \E i \in Abstract!DefaultIds : Grows(i)
    BY <1>2 DEF Abstract!Boot
  <2>. QED
    BY <2>1, <2>2
<1>3. ASSUME NEW t \in Tasks, Abstract!Invoke(t) \/ Abstract!Respond(t) \/ Abstract!NoMemory(t)
                \/ Abstract!Check(t) \/ Abstract!Query(t) \/ Abstract!ValidOrSave(t)
      PROVE  UNCHANGED Members
  BY <1>3 DEF Abstract!Invoke, Abstract!Respond, Abstract!NoMemory, Abstract!Check, Abstract!Query,
     Abstract!ValidOrSave
<1>4. ASSUME NEW t \in Tasks, Abstract!Add(t)
      PROVE  UNCHANGED Members \/ \E i \in Ids : Grows(i)
  <2>1. Arg[t] \in Ids
    BY IdsAssumption DEF Arg, Inv, ControlOK, Threads
  <2>2. UNCHANGED Members \/ Grows(Arg[t])
    BY <1>4 DEF Abstract!Add, Arg
  <2>. QED
    BY <2>1, <2>2
<1>5. ASSUME NEW t \in Tasks, Abstract!Remove(t)
      PROVE  UNCHANGED Members \/ (Op[t] = "remove" /\ Arg[t] # Admin /\ Members' = Members \ {Arg[t]})
  BY <1>5 DEF Abstract!Remove, Abstract!Pending, Op, Arg
<1>6. ASSUME NEW t \in Tasks, Abstract!Format(t)
      PROVE  Members' = {} /\ Op[t] = "format"
  BY <1>6 DEF Abstract!Format, Abstract!Pending, Op
<1>7. ASSUME NEW t \in Tasks, Abstract!Reset(t)
      PROVE  UNCHANGED Members \/ (Members' = {} /\ Op[t] = "reset") \/ \E i \in Ids : Grows(i)
  BY <1>7, DefaultsAre DEF Abstract!Reset, Abstract!Pending, Op
<1>. QED
  BY <1>1, <1>2, <1>3, <1>4, <1>5, <1>6, <1>7 DEF Abstract!Next

\* The number of cards in the set.
CardsFit == IsFiniteSet(Members) /\ Cardinality(Members) <= MaxCards

\* At every moment, with any calls of any number of tasks half done (an update of one
\* file, remove_card's rewriting of the other), the database has at most MaxCards
\* cards: the check against max_cards (rfid_manager.c:182) is never overtaken.
THEOREM NeverTooMany == ASSUME NoDiskFaults PROVE Spec => []CardsFit
<1>1. Init => CardsFit
  <2>. SUFFICES ASSUME Init PROVE CardsFit
    OBVIOUS
  <2>1. Members = {}
    BY InitDoes DEF Abstract!Init
  <2>. QED
    BY <2>1, FS_EmptySet, SizesAssumption DEF CardsFit
<1>2. ASSUME Inv, CardsFit, [Abstract!Next]_(Abstract!vars) PROVE CardsFit'
  <2>1. IsFiniteSet(Members) /\ Cardinality(Members) <= MaxCards /\ Cardinality(Members) \in Nat
    BY <1>2, FS_CardinalityType DEF CardsFit
  <2>2. CASE UNCHANGED Members
    BY <2>1, <2>2 DEF CardsFit
  <2>3. CASE Members' = {}
    BY <2>3, FS_EmptySet, SizesAssumption DEF CardsFit
  <2>4. ASSUME NEW t \in Tasks, Members' = Members \ {Arg[t]} PROVE CardsFit'
    <3>1. /\ IsFiniteSet(Members')
          /\ Cardinality(Members') = IF Arg[t] \in Members THEN Cardinality(Members) - 1
                                                         ELSE Cardinality(Members)
      BY <2>1, <2>4, FS_RemoveElement
    <3>. QED
      BY <2>1, <3>1, SizesAssumption DEF CardsFit
  <2>5. ASSUME NEW i \in Ids, Members' = Members \cup {i}, i \in Members \/ ~Abstract!Full
        PROVE  CardsFit'
    <3>1. CASE i \in Members
      <4>1. Members' = Members
        BY <2>5, <3>1
      <4>. QED
        BY <2>2, <4>1
    <3>2. CASE i \notin Members
      <4>1. IsFiniteSet(Members') /\ Cardinality(Members') = Cardinality(Members) + 1
        BY <2>1, <2>5, <3>2, FS_AddElement
      <4>2. ~(Cardinality(Members) >= MaxCards)
        BY <2>5, <3>2, SameCount DEF Abstract!Full
      <4>. QED
        BY <2>1, <4>1, <4>2, SizesAssumption DEF CardsFit
    <3>. QED
      BY <3>1, <3>2
  <2>. QED
    BY <1>2, <2>2, <2>3, <2>4, <2>5, MembersMove
<1>3. Spec => [][Abstract!Next]_(Abstract!vars)
  BY Refinement, PTL DEF ImplementsRfidDb, Abstract!Spec
<1>4. CardsFit /\ Inv /\ [Abstract!Next]_(Abstract!vars) => CardsFit'
  BY <1>2
<1>. QED
  BY <1>1, <1>3, <1>4, Invariance, PTL DEF Spec

\* Cards only go when a task asks for it, and nothing takes the admin card's record
\* but a format or a reset.
OnlyAsked ==
    [][\A i \in Members \ Members' : \E t \in Tasks :
          \/ top[t] \in {"format", "reset"}
          \/ top[t] = "remove" /\ id[t] = i /\ i # Admin]_vars

\* A card that is in the database stays, through every step of the calls of any number
\* of tasks, except when a task formats, resets, or removes that very card: no call
\* loses the card that another call stores in the same two files.
THEOREM NoCardLost == ASSUME NoDiskFaults PROVE Spec => OnlyAsked
<1>1. ASSUME Inv, [Abstract!Next]_(Abstract!vars), NEW i \in Members \ Members'
      PROVE  \E t \in Tasks : \/ top[t] \in {"format", "reset"}
                              \/ top[t] = "remove" /\ id[t] = i /\ i # Admin
  <2>1. CASE \E t \in Tasks : Op[t] \in {"format", "reset"}
    BY <2>1 DEF Op
  <2>2. CASE \E t \in Tasks : Op[t] = "remove" /\ Arg[t] # Admin /\ Members' = Members \ {Arg[t]}
    <3>1. PICK t \in Tasks : Op[t] = "remove" /\ Arg[t] # Admin /\ Members' = Members \ {Arg[t]}
      BY <2>2
    <3>2. top[t] = "remove" /\ Arg[t] = id[t] /\ i = Arg[t]
      BY <1>1, <3>1 DEF Op, Arg
    <3>. QED
      BY <3>1, <3>2
  <2>. QED
    BY <1>1, <2>1, <2>2, MembersMove
<1>2. Spec => [][Abstract!Next]_(Abstract!vars)
  BY Refinement, PTL DEF ImplementsRfidDb, Abstract!Spec
<1>3. Inv /\ [Abstract!Next]_(Abstract!vars) =>
        [\A i \in Members \ Members' : \E t \in Tasks :
            \/ top[t] \in {"format", "reset"}
            \/ top[t] = "remove" /\ id[t] = i /\ i # Admin]_vars
  BY <1>1
<1>. QED
  BY <1>2, <1>3, Invariance, PTL DEF OnlyAsked
=============================================================================
