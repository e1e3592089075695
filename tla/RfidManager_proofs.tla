------------------------- MODULE RfidManager_proofs -------------------------
(* Proofs about RfidManager for every choice of its constants.              *)
EXTENDS RfidManager, SequenceTheorems, TLAPS

USE DEF faults

(* What the model's operators on records return.                            *)

\* A read of n records, whatever the file lacks, yields n records.
LEMMA ReadType ==
    ASSUME NEW n \in Nat, NEW lost, NEW s \in CardReads(n, lost)
    PROVE  s \in Seq(Record) /\ Len(s) = n /\ DOMAIN s = 1..n
<1>1. s \in [1..n -> Record]
  BY DEF CardReads
<1>2. s \in Seq(Record)
  BY <1>1, SeqDef
<1>. QED
  BY <1>1, <1>2, LenProperties

\* Dropping a record from a sequence leaves one record less, at any index.
LEMMA WithoutType ==
    ASSUME NEW S, NEW s \in Seq(S), Len(s) > 0, NEW k
    PROVE  Without(s, k) \in Seq(S) /\ Len(Without(s, k)) = Len(s) - 1
<1>1. Len(s) - 1 \in Nat
  BY LenProperties
<1>2. \A j \in 1..(Len(s) - 1) : s[j] \in S /\ s[j + 1] \in S
  BY ElementOfSeq, LenProperties
<1>3. Without(s, k) \in [1..(Len(s) - 1) -> S]
  BY <1>2 DEF Without
<1>4. Without(s, k) \in Seq(S)
  BY <1>1, <1>3, SeqDef
<1>. QED
  BY <1>1, <1>3, <1>4, LenProperties

\* A card that reading found is one of at least one card.
LEMMA HasCount ==
    ASSUME NEW n \in Nat, NEW lost, NEW s \in CardReads(n, lost), NEW i, Has(s, i)
    PROVE  n > 0
BY ReadType DEF Has

\* A header read is a header, whether the file holds one or not.
LEMMA HdrReadType == ASSUME NEW lost, NEW h \in HdrReads(lost) PROVE h \in Header
BY SizesAssumption DEF HdrReads, Garbage, Header

\* A write that is cut short leaves whole records and at most one torn one.
LEMMA PartialType ==
    ASSUME NEW t \in Threads, cards \in Seq(Record \cup {Torn}), buf \in Seq(Record)
    PROVE  Partial(t) \subseteq Seq(Record \cup {Torn})
<1>. DEFINE R == Record \cup {Torn}
<1>1. Append(cards, Torn) \in Seq(R)
  BY AppendProperties
<1>2. ASSUME NEW k \in 0..(Len(buf) - 1)
      PROVE  SubSeq(buf, 1, k) \in Seq(R) /\ Append(SubSeq(buf, 1, k), Torn) \in Seq(R)
  <2>1. \A i \in 1..k : buf[i] \in R
    BY ElementOfSeq, LenProperties
  <2>2. SubSeq(buf, 1, k) \in Seq(R)
    BY <2>1, SubSeqProperties, LenProperties
  <2>. QED
    BY <2>2, AppendProperties
<1>. QED
  BY <1>1, <1>2 DEF Partial

-----------------------------------------------------------------------------
(* The inductive invariant.                                                 *)

Writing == {"hdr_open", "hdr_write", "cards_open", "cards_write"}

\* The type invariant in two parts: the files and locals, and the threads.
DataOK ==
    /\ hdr \in Header \cup {NoFile, Torn}
    /\ cards \in Seq(Record \cup {Torn}) \cup {NoFile}
    /\ owner \in Threads \cup {None}
    /\ db \in Header /\ buf \in Seq(Record)
    /\ booted \in BOOLEAN /\ crashes \in Nat
    /\ failures \in Nat /\ silent \in SUBSET Threads /\ misled \in SUBSET Threads

ControlOK ==
    /\ pc \in [Threads -> Points]
    /\ top \in [Threads -> Api \cup {"boot"}]
    /\ fn \in [Threads -> Functions]
    /\ id \in [Threads -> Ids]
    /\ nxt \in [Threads -> Nat \ {0}]
    /\ res \in [Threads -> Results \cup {None}]

\* A thread is inside the section exactly when it holds rfid_mutex.
Mutex == \A t \in Threads : pc[t] \in Section <=> owner = t

\* The tasks wait for app_main, which then stays out of the API.
BootFirst ==
    /\ booted => pc[Main] = "idle"
    /\ ~booted => \A t \in Tasks : pc[t] = "idle"

\* A task creates the header only when a stat has hidden it: load_defaults
\* follows a format, which has written one.
HeaderThere ==
    /\ \A t \in Tasks : pc[t] \in Creating => t \in misled /\ fn[t] = "defaults"
    /\ \A t \in Tasks : pc[t] = "mk_exists" => fn[t] = "defaults" /\ hdr # NoFile
    /\ \A t \in Threads : fn[t] = "format" /\ pc[t] \in {"hdr_write", "cards_del"} => hdr # NoFile
    /\ \A t \in Threads : fn[t] = "format" /\ pc[t] = "give" /\ res[t] = "OK" => hdr # NoFile
    /\ \A t \in Threads : fn[t] = "format" => pc[t] \notin {"read", "cards_open", "cards_write"}
    /\ \A t \in Tasks : fn[t] # "load"

\* add_card has counted its card, so that it can take the count back.
Counted == \A t \in Threads : pc[t] \in Writing /\ fn[t] = "add" => db.count > 0

\* The cards file that a write goes to has been opened.
Opened == \A t \in Threads : pc[t] = "cards_write" => cards # NoFile

Inv ==
    /\ DataOK /\ ControlOK
    /\ Mutex /\ BootFirst /\ HeaderThere /\ Counted /\ Opened

\* Every program point a step goes to is one of Points.
LEMMA PointsAre ==
    /\ "idle" \in Points /\ "take" \in Points /\ "done" \in Points /\ "mk_exists" \in Points
    /\ "mk_open" \in Points /\ "mk_write" \in Points /\ "read" \in Points
    /\ "hdr_open" \in Points /\ "hdr_write" \in Points
    /\ "cards_open" \in Points /\ "cards_write" \in Points /\ "cards_del" \in Points
    /\ "give" \in Points
BY DEF Points, Section, Creating

\* Every function a step enters is one of Functions.
LEMMA FunctionsAre ==
    /\ "init" \in Functions /\ "defaults" \in Functions /\ "load" \in Functions
    /\ "revert" \in Functions /\ "add" \in Functions /\ "format" \in Functions
BY DEF Functions, Api

\* A new header is a header that counts no cards.
LEMMA FreshType == Fresh \in Header /\ Fresh.count = 0
BY SizesAssumption DEF Fresh, Header

\* Entering the next step of load_defaults keeps the threads well typed.
LEMMA LoadDefaultType ==
    ASSUME ControlOK, NEW t \in Threads, NEW n \in Nat \ {0}, LoadDefault(t, n), UNCHANGED top
    PROVE  ControlOK'
<1>1. nxt' \in [Threads -> Nat \ {0}] /\ top' \in [Threads -> Api \cup {"boot"}]
  BY DEF ControlOK, LoadDefault
<1>2. CASE n > Len(Defaults)
  BY <1>1, <1>2, PointsAre DEF ControlOK, LoadDefault, Done, Go, Results
<1>3. CASE ~(n > Len(Defaults))
  <2>1. Defaults[n] \in Ids
    BY <1>3, IdsAssumption, ElementOfSeq, LenProperties
  <2>2. pc' \in [Threads -> Points]
    BY <1>3, PointsAre DEF ControlOK, LoadDefault, Go
  <2>4. res' \in [Threads -> Results \cup {None}]
    BY <1>3 DEF ControlOK, LoadDefault, Enter
  <2>3. fn' \in [Threads -> Functions] /\ id' \in [Threads -> Ids]
    BY <1>3, <2>1, FunctionsAre DEF ControlOK, LoadDefault, Enter
  <2>. QED
    BY <1>1, <2>2, <2>3, <2>4 DEF ControlOK
<1>. QED
  BY <1>2, <1>3

\* After a default card, load_defaults goes on to the next one or returns.
LEMMA LoadDefaultGoes ==
    ASSUME NEW t \in Threads, NEW n, LoadDefault(t, n)
    PROVE  \/ pc' = [pc EXCEPT ![t] = "done"] /\ fn' = fn
           \/ pc' = [pc EXCEPT ![t] = "take"] /\ fn' = [fn EXCEPT ![t] = "add"]
BY DEF LoadDefault, Done, Go, Enter

\* Initially.
LEMMA InitInv == Init => Inv
<1>. SUFFICES ASSUME Init PROVE Inv
  OBVIOUS
<1>1. ControlOK
  BY PointsAre, FunctionsAre, IdsAssumption DEF Init, ControlOK, Booting
<1>2. DataOK
  BY FreshType, EmptySeq DEF Init, DataOK
<1>3. Mutex /\ BootFirst /\ HeaderThere /\ Counted /\ Opened
  BY TasksAssumption DEF Init, Mutex, BootFirst, HeaderThere, Counted, Opened, Booting,
     Section, Creating, Writing, Threads
<1>. QED
  BY <1>1, <1>2, <1>3 DEF Inv

\* The check for the header, in init and in load_defaults.
LEMMA MkExistsInv == ASSUME Inv, NEW t \in Threads, MkExists(t) PROVE Inv'
<1>. USE TasksAssumption DEF Inv, Threads
<1>1. DataOK'
  BY DEF DataOK, MkExists, NoFault, StatLies, Happens
<1>2. ControlOK'
  <2>1. CASE MkDone(t) /\ fn[t] # "init"
    BY <2>1, LoadDefaultType DEF MkExists, MkDone
  <2>2. CASE MkDone(t) /\ fn[t] = "init"
    BY <2>2, PointsAre, FunctionsAre DEF ControlOK, MkExists, MkDone, Go, Enter
  <2>3. CASE Go(t, "mk_open") /\ UNCHANGED <<fn, id, nxt, res>>
    BY <2>3, PointsAre DEF ControlOK, MkExists, Go
  <2>. QED
    BY <2>1, <2>2, <2>3 DEF MkExists
<1>0. /\ pc[t] = "mk_exists" /\ UNCHANGED <<owner, booted, db, cards>>
      /\ \E p \in {"done", "take", "mk_open"} : pc' = [pc EXCEPT ![t] = p]
  BY LoadDefaultGoes DEF MkExists, MkDone, Go
<1>3. Mutex' /\ BootFirst'
  <2>1. Mutex'
    BY <1>0 DEF ControlOK, Mutex, Section
  <2>2. BootFirst'
    BY <1>0 DEF ControlOK, BootFirst
  <2>. QED
    BY <2>1, <2>2
<1>4. HeaderThere'
  <2>1. \A u \in Threads : u # t => pc'[u] = pc[u] /\ fn'[u] = fn[u] /\ res'[u] = res[u]
    BY LoadDefaultGoes DEF ControlOK, MkExists, MkDone, LoadDefault, Done, Go, Enter
  <2>m. hdr' = hdr /\ \A u \in Threads : u \in misled => u \in misled'
    BY DEF MkExists, NoFault, StatLies
  <2>2. CASE Go(t, "mk_open") /\ UNCHANGED <<fn, id, nxt, res>>
    <3>1. pc[t] = "mk_exists" /\ pc'[t] = "mk_open" /\ fn'[t] = fn[t]
      BY <2>2 DEF ControlOK, MkExists, Go
    <3>2. t \in Tasks => fn[t] = "defaults" /\ hdr # NoFile
      BY <3>1 DEF HeaderThere
    <3>3. t \in Tasks => t \in misled'
      <4>1. CASE hdr # NoFile /\ StatLies(t)
        BY <4>1 DEF StatLies
      <4>2. CASE hdr # NoFile /\ MkDone(t)
        BY <4>2, <3>1, LoadDefaultGoes DEF MkDone, Go, ControlOK
      <4>. QED
        BY <3>2, <4>1, <4>2 DEF MkExists
    <3>. QED
      BY <2>1, <2>m, <3>1, <3>2, <3>3 DEF HeaderThere, Creating
  <2>3. CASE hdr # NoFile /\ MkDone(t) /\ fn[t] = "init"
    <3>1. pc'[t] = "take" /\ fn'[t] = "load" /\ t \notin Tasks
      BY <2>3 DEF ControlOK, HeaderThere, MkExists, MkDone, Go, Enter
    <3>. QED
      BY <2>1, <2>m, <3>1 DEF HeaderThere, Creating
  <2>4. CASE hdr # NoFile /\ MkDone(t) /\ fn[t] # "init"
    <3>1. /\ pc[t] = "mk_exists"
          /\ pc'[t] \in {"done", "take"} /\ fn'[t] \in {fn[t], "add"}
      BY <2>4, LoadDefaultGoes DEF ControlOK, MkExists, MkDone
    <3>. QED
      BY <2>1, <2>m, <3>1 DEF HeaderThere, Creating
  <2>. QED
    BY <2>2, <2>3, <2>4 DEF MkExists
<1>5. Counted'
  <2>1. \A u \in Threads : u # t => pc'[u] = pc[u] /\ fn'[u] = fn[u]
    BY LoadDefaultGoes DEF ControlOK, MkExists, MkDone, Go, Enter
  <2>2. pc'[t] \notin Writing /\ db' = db
    BY <1>0 DEF ControlOK, Writing
  <2>. QED
    BY <2>1, <2>2 DEF Counted
<1>6. Opened'
  BY <1>0 DEF ControlOK, Opened, Mutex, Section
<1>. QED
  BY <1>1, <1>2, <1>3, <1>4, <1>5, <1>6

\* Opening the header for its creation.
LEMMA MkOpenInv == ASSUME Inv, NEW t \in Threads, MkOpen(t) PROVE Inv'
<1>. USE TasksAssumption DEF Inv, Threads
<1>1. DataOK'
  BY DEF DataOK, MkOpen, Go, NoFault, Fault, Unnoticed, Happens, MkFailed, Enter, Done
<1>2. ControlOK'
  BY PointsAre, FunctionsAre DEF ControlOK, MkOpen, Go, NoFault, Fault, Unnoticed, Happens, MkFailed, Enter, Done, Results
<1>3. Mutex' /\ BootFirst'
  BY DEF DataOK, ControlOK, Mutex, BootFirst, Section, Creating, MkOpen, Go, NoFault, Fault, Unnoticed, Happens, MkFailed, Enter, Done
<1>4. HeaderThere'
  <2>1. /\ \A u \in Threads : u # t => pc'[u] = pc[u] /\ fn'[u] = fn[u] /\ res'[u] = res[u]
        /\ misled' = misled /\ (hdr' = hdr \/ hdr' # NoFile)
    BY FilesAssumption DEF ControlOK, MkOpen, Go, NoFault, Fault, MkFailed, Enter, Done
  <2>2. pc[t] = "mk_open" /\ (t \in Tasks => t \in misled /\ fn[t] = "defaults")
    BY DEF HeaderThere, Creating, MkOpen
  <2>3. \/ pc'[t] \in {"mk_write", "done"} /\ fn'[t] = fn[t]
        \/ pc'[t] = "mk_exists" /\ fn[t] = "init" /\ fn'[t] = "defaults"
    BY DEF ControlOK, MkOpen, Go, MkFailed, Enter, Done
  <2>. QED
    BY <2>1, <2>2, <2>3 DEF HeaderThere, Creating
<1>5. Counted'
  BY DEF ControlOK, Counted, Mutex, Writing, Section, MkOpen, Go, NoFault, Fault, Unnoticed, Happens, MkFailed, Enter, Done
<1>6. Opened'
  BY DEF ControlOK, Opened, Mutex, Section, MkOpen, Go, NoFault, Fault, Unnoticed, Happens, MkFailed, Enter, Done
<1>. QED
  BY <1>1, <1>2, <1>3, <1>4, <1>5, <1>6

\* Writing the created header.
LEMMA MkWriteInv == ASSUME Inv, NEW t \in Threads, MkWrite(t) PROVE Inv'
<1>. USE TasksAssumption DEF Inv, Threads
<1>1. DataOK'
  BY FreshType DEF DataOK, MkWrite, Go, NoFault, Fault, Unnoticed, Happens, MkFailed, MkDone, LoadDefault, Enter, Done
<1>2. ControlOK'
  <2>1. CASE MkDone(t) /\ fn[t] # "init"
    BY <2>1, LoadDefaultType DEF MkWrite, MkDone
  <2>2. CASE MkDone(t) /\ fn[t] = "init"
    BY <2>2, PointsAre, FunctionsAre DEF ControlOK, MkWrite, MkDone, Go, Enter
  <2>3. CASE MkFailed(t)
    BY <2>3, PointsAre, FunctionsAre DEF ControlOK, MkWrite, MkFailed, Go, Enter, Done, Results
  <2>. QED
    BY <2>1, <2>2, <2>3 DEF MkWrite
<1>3. Mutex' /\ BootFirst'
  BY DEF DataOK, ControlOK, Mutex, BootFirst, Section, Creating, MkWrite, Go, NoFault, Fault, Unnoticed, Happens, MkFailed, MkDone, LoadDefault, Enter, Done
<1>4. HeaderThere'
  <2>1. /\ \A u \in Threads : u # t => pc'[u] = pc[u] /\ fn'[u] = fn[u] /\ res'[u] = res[u]
        /\ misled' = misled /\ (hdr' = hdr \/ hdr' # NoFile)
    BY FreshType, FilesAssumption DEF ControlOK, MkWrite, Go, NoFault, Fault, Unnoticed, MkFailed,
       MkDone, LoadDefault, Enter, Done
  <2>2. pc[t] = "mk_write" /\ (t \in Tasks => t \in misled /\ fn[t] = "defaults")
    BY DEF HeaderThere, Creating, MkWrite
  <2>3. \/ pc'[t] = "done" /\ fn'[t] = fn[t]
        \/ pc'[t] = "take" /\ fn'[t] = "add"
        \/ pc'[t] = "take" /\ fn[t] = "init" /\ fn'[t] = "load"
        \/ pc'[t] = "mk_exists" /\ fn[t] = "init" /\ fn'[t] = "defaults"
    BY LoadDefaultGoes DEF ControlOK, MkWrite, Go, MkFailed, MkDone, Enter, Done
  <2>. QED
    BY <2>1, <2>2, <2>3 DEF HeaderThere, Creating
<1>5. Counted'
  BY DEF ControlOK, Counted, Mutex, Writing, Section, MkWrite, Go, NoFault, Fault, Unnoticed, Happens, MkFailed, MkDone, LoadDefault, Enter, Done
<1>6. Opened'
  BY DEF ControlOK, Opened, Mutex, Section, MkWrite, Go, NoFault, Fault, Unnoticed, Happens, MkFailed, MkDone, LoadDefault, Enter, Done
<1>. QED
  BY <1>1, <1>2, <1>3, <1>4, <1>5, <1>6

\* A task calls the API.
LEMMA CallInv == ASSUME Inv, NEW t \in Tasks, Call(t) PROVE Inv'
<1>. USE TasksAssumption DEF Inv, Threads
<1>1. DataOK'
  BY DEF DataOK, Call, Go, Done
<1>2. ControlOK'
  <2>. PICK f \in Calls, i \in Ids :
            /\ top' = [top EXCEPT ![t] = f]
            /\ fn' = [fn EXCEPT ![t] = IF f = "reset" THEN "format" ELSE f]
            /\ id' = [id EXCEPT ![t] = i]
            /\ IF f = "remove" /\ i = Admin
                 THEN Done(t, "NOT_SUPPORTED")
                 ELSE res' = [res EXCEPT ![t] = None] /\ Go(t, "take")
    BY IdsAssumption DEF Call
  <2>1. f \in Api /\ (IF f = "reset" THEN "format" ELSE f) \in Functions
    BY CallsAssumption DEF Functions, Api
  <2>2. top' \in [Threads -> Api \cup {"boot"}] /\ fn' \in [Threads -> Functions]
    BY <2>1 DEF ControlOK
  <2>3. id' \in [Threads -> Ids] /\ nxt' = nxt
    BY DEF ControlOK, Call
  <2>4. pc' \in [Threads -> Points]
    BY PointsAre DEF ControlOK, Go, Done
  <2>5. res' \in [Threads -> Results \cup {None}]
    BY DEF ControlOK, Done, Results
  <2>. QED
    BY <2>2, <2>3, <2>4, <2>5 DEF ControlOK
<1>3. Mutex' /\ BootFirst'
  BY DEF DataOK, ControlOK, Mutex, BootFirst, Section, Creating, Call, Go, Done
<1>4. HeaderThere'
  BY CallsAssumption DEF ControlOK, HeaderThere, BootFirst, Section, Creating, Call, Go, Done, Api
<1>5. Counted'
  BY DEF ControlOK, Counted, Mutex, Writing, Section, Call, Go, Done
<1>6. Opened'
  BY DEF ControlOK, Opened, Mutex, Section, Call, Go, Done
<1>. QED
  BY <1>1, <1>2, <1>3, <1>4, <1>5, <1>6

\* xSemaphoreTake.
LEMMA TakeInv == ASSUME Inv, NEW t \in Threads, Take(t) PROVE Inv'
<1>. USE TasksAssumption DEF Inv, Threads
<1>1. DataOK'
  BY FreshType DEF DataOK, Take, Go, calls
<1>2. ControlOK'
  BY PointsAre DEF ControlOK, Take, Go, calls, Results
<1>3. Mutex' /\ BootFirst'
  BY DEF DataOK, ControlOK, Mutex, BootFirst, Section, Creating, Take, Go, calls
<1>4. HeaderThere'
  BY DEF ControlOK, HeaderThere, BootFirst, Section, Creating, Take, Go, calls
<1>5. Counted'
  BY DEF ControlOK, Counted, Mutex, Writing, Section, Take, Go, calls
<1>6. Opened'
  BY DEF ControlOK, Opened, Mutex, Section, Take, Go, calls
<1>. QED
  BY <1>1, <1>2, <1>3, <1>4, <1>5, <1>6

\* The header cannot be read, or malloc fails.
LEMMA ReadFailsInv == ASSUME Inv, NEW t \in Threads, ReadFails(t) PROVE Inv'
<1>. USE TasksAssumption DEF Inv, Threads
<1>0. /\ pc[t] = "read" /\ UNCHANGED <<hdr, cards, owner, db, buf, calls, booted, crashes>>
      /\ pc' = [pc EXCEPT ![t] = "give"]
      /\ \E r \in Results : res' = [res EXCEPT ![t] = r]
  BY DEF ReadFails, Finish, Go, Results
<1>f. NoFault \/ \E k : Fault(k)
  BY DEF ReadFails
<1>1. DataOK'
  <2>1. failures' \in Nat /\ silent' = silent /\ misled' = misled
    BY <1>f DEF DataOK, NoFault, Fault, Happens
  <2>. QED
    BY <1>0, <2>1 DEF DataOK
<1>2. ControlOK'
  BY <1>0, PointsAre DEF ControlOK, calls
<1>3. Mutex' /\ BootFirst'
  BY <1>0 DEF ControlOK, Mutex, BootFirst, Section, calls
<1>4. HeaderThere'
  <2>1. misled' = misled
    BY <1>f DEF NoFault, Fault
  <2>2. fn[t] # "format"
    BY <1>0 DEF HeaderThere
  <2>. QED
    BY <1>0, <2>1, <2>2 DEF ControlOK, HeaderThere, Creating, calls
<1>5. Counted'
  BY <1>0 DEF ControlOK, Counted, Writing, calls
<1>6. Opened'
  BY <1>0 DEF ControlOK, Opened
<1>. QED
  BY <1>1, <1>2, <1>3, <1>4, <1>5, <1>6

\* The cards file cannot be opened.
LEMMA CardsMissingInv == ASSUME Inv, NEW t \in Threads, CardsMissing(t) PROVE Inv'
<1>. USE TasksAssumption DEF Inv, Threads
<1>1. DataOK'
  BY DEF DataOK, CardsMissing, Go, Finish, Lost, NoFault, Fault, Unnoticed, Happens, calls
<1>2. ControlOK'
  BY PointsAre DEF ControlOK, CardsMissing, Go, Finish, Lost, NoFault, Fault, Unnoticed, Happens, calls, Results
<1>3. Mutex' /\ BootFirst'
  BY DEF DataOK, ControlOK, Mutex, BootFirst, Section, Creating, CardsMissing, Go, Finish, Lost, NoFault, Fault, Unnoticed, Happens, calls
<1>4. HeaderThere'
  BY DEF ControlOK, HeaderThere, BootFirst, Section, Creating, CardsMissing, Go, Finish, Lost, NoFault, Fault, Unnoticed, Happens, calls
<1>5. Counted'
  BY DEF ControlOK, Counted, Mutex, Writing, Section, CardsMissing, Go, Finish, Lost, NoFault, Fault, Unnoticed, Happens, calls
<1>6. Opened'
  BY DEF ControlOK, Opened, Mutex, Section, CardsMissing, Go, Finish, Lost, NoFault, Fault, Unnoticed, Happens, calls
<1>. QED
  BY <1>1, <1>2, <1>3, <1>4, <1>5, <1>6

\* add_card's reads and checks.
LEMMA ReadAddInv == ASSUME Inv, NEW t \in Threads, ReadAdd(t) PROVE Inv'
<1>. USE TasksAssumption DEF Inv, Threads
<1>l. PICK lost \in BOOLEAN : \E h \in HdrReads(lost) : Loaded(h) /\ \E s \in CardReads(h.count, lost) :
         \/ Has(s, id[t]) /\ Finish(t, "INVALID_STATE") /\ UNCHANGED db
         \/ ~Has(s, id[t]) /\ h.count >= h.max /\ Finish(t, "NO_MEM") /\ UNCHANGED db
         \/ /\ ~Has(s, id[t]) /\ h.count < h.max
            /\ db' = [h EXCEPT !.count = @ + 1]
            /\ Go(t, "hdr_open") /\ UNCHANGED res
  BY DEF ReadAdd
<1>p. PICK h \in HdrReads(lost) : Loaded(h) /\ \E s \in CardReads(h.count, lost) :
         \/ Has(s, id[t]) /\ Finish(t, "INVALID_STATE") /\ UNCHANGED db
         \/ ~Has(s, id[t]) /\ h.count >= h.max /\ Finish(t, "NO_MEM") /\ UNCHANGED db
         \/ /\ ~Has(s, id[t]) /\ h.count < h.max
            /\ db' = [h EXCEPT !.count = @ + 1]
            /\ Go(t, "hdr_open") /\ UNCHANGED res
  BY <1>l
<1>q. PICK s \in CardReads(h.count, lost) :
         \/ Has(s, id[t]) /\ Finish(t, "INVALID_STATE") /\ UNCHANGED db
         \/ ~Has(s, id[t]) /\ h.count >= h.max /\ Finish(t, "NO_MEM") /\ UNCHANGED db
         \/ /\ ~Has(s, id[t]) /\ h.count < h.max
            /\ db' = [h EXCEPT !.count = @ + 1]
            /\ Go(t, "hdr_open") /\ UNCHANGED res
  BY <1>p
<1>h. h \in Header /\ h.count \in Nat
  BY HdrReadType DEF Header
<1>1. DataOK'
  BY <1>q, <1>h DEF DataOK, ReadAdd, Go, Finish, Reading, Lost, NoFault, Unnoticed, Happens, calls, locals, Header
<1>2. ControlOK'
  BY PointsAre DEF ControlOK, ReadAdd, Go, Finish, Reading, Lost, NoFault, Unnoticed, Happens, calls, locals, Results
<1>3. Mutex' /\ BootFirst'
  BY DEF DataOK, ControlOK, Mutex, BootFirst, Section, Creating, ReadAdd, Go, Finish, Reading, Lost, NoFault, Unnoticed, Happens, calls, locals
<1>4. HeaderThere'
  BY DEF ControlOK, HeaderThere, BootFirst, Section, Creating, ReadAdd, Go, Finish, Reading, Lost, NoFault, Unnoticed, Happens, calls, locals
<1>5. Counted'
  <2>1. CASE pc' = [pc EXCEPT ![t] = "give"]
    BY <2>1 DEF ControlOK, Counted, Mutex, Writing, Section, ReadAdd, Reading, calls
  <2>2. CASE db' = [h EXCEPT !.count = @ + 1] /\ Go(t, "hdr_open")
    BY <2>2, <1>h DEF ControlOK, Counted, Mutex, Writing, Section, ReadAdd, Reading, calls, Go, Header
  <2>. QED
    BY <2>1, <2>2, <1>q DEF Finish, Go, ControlOK
<1>6. Opened'
  BY DEF ControlOK, Opened, Mutex, Section, ReadAdd, Go, Finish, Reading, Lost, NoFault, Unnoticed, Happens, calls, locals
<1>. QED
  BY <1>1, <1>2, <1>3, <1>4, <1>5, <1>6

\* remove_card's reads and search.
LEMMA ReadRemoveInv == ASSUME Inv, NEW t \in Threads, ReadRemove(t) PROVE Inv'
<1>. USE TasksAssumption DEF Inv, Threads
<1>l. PICK lost \in BOOLEAN : \E h \in HdrReads(lost) : Loaded(h) /\ \E s \in CardReads(h.count, lost) :
         \/ ~Has(s, id[t]) /\ Finish(t, "NOT_FOUND") /\ UNCHANGED locals
         \/ /\ Has(s, id[t])
            /\ db' = [h EXCEPT !.count = @ - 1]
            /\ buf' = Without(s, First(s, id[t]))
            /\ Go(t, "hdr_open") /\ UNCHANGED res
  BY DEF ReadRemove
<1>p. PICK h \in HdrReads(lost) : Loaded(h) /\ \E s \in CardReads(h.count, lost) :
         \/ ~Has(s, id[t]) /\ Finish(t, "NOT_FOUND") /\ UNCHANGED locals
         \/ /\ Has(s, id[t])
            /\ db' = [h EXCEPT !.count = @ - 1]
            /\ buf' = Without(s, First(s, id[t]))
            /\ Go(t, "hdr_open") /\ UNCHANGED res
  BY <1>l
<1>q. PICK s \in CardReads(h.count, lost) :
         \/ ~Has(s, id[t]) /\ Finish(t, "NOT_FOUND") /\ UNCHANGED locals
         \/ /\ Has(s, id[t])
            /\ db' = [h EXCEPT !.count = @ - 1]
            /\ buf' = Without(s, First(s, id[t]))
            /\ Go(t, "hdr_open") /\ UNCHANGED res
  BY <1>p
<1>h. h \in Header /\ h.count \in Nat
  BY HdrReadType DEF Header
<1>1. DataOK'
  <2>1. s \in Seq(Record) /\ Len(s) = h.count
    BY <1>h, ReadType
  <2>2. CASE UNCHANGED locals
    BY <2>2 DEF DataOK, ReadRemove, Reading, Lost, NoFault, Unnoticed, Happens, locals
  <2>3. CASE Has(s, id[t]) /\ db' = [h EXCEPT !.count = @ - 1] /\ buf' = Without(s, First(s, id[t]))
    <3>1. h.count > 0
      BY <2>3, <1>h, HasCount
    <3>2. buf' \in Seq(Record)
      BY <2>1, <2>3, <3>1, WithoutType
    <3>3. db' \in Header
      BY <2>3, <3>1, <1>h DEF Header
    <3>. QED
      BY <3>2, <3>3 DEF DataOK, ReadRemove, Reading, Lost, NoFault, Unnoticed, Happens
  <2>. QED
    BY <1>q, <2>2, <2>3
<1>2. ControlOK'
  BY PointsAre DEF ControlOK, ReadRemove, Go, Finish, Reading, Lost, NoFault, Unnoticed, Happens, calls, locals, Results
<1>3. Mutex' /\ BootFirst'
  BY DEF DataOK, ControlOK, Mutex, BootFirst, Section, Creating, ReadRemove, Go, Finish, Reading, Lost, NoFault, Unnoticed, Happens, calls, locals
<1>4. HeaderThere'
  BY DEF ControlOK, HeaderThere, BootFirst, Section, Creating, ReadRemove, Go, Finish, Reading, Lost, NoFault, Unnoticed, Happens, calls, locals
<1>5. Counted'
  BY DEF ControlOK, Counted, Mutex, Writing, Section, ReadRemove, Go, Finish, Reading, Lost, NoFault, Unnoticed, Happens, calls, locals
<1>6. Opened'
  BY DEF ControlOK, Opened, Mutex, Section, ReadRemove, Go, Finish, Reading, Lost, NoFault, Unnoticed, Happens, calls, locals
<1>. QED
  BY <1>1, <1>2, <1>3, <1>4, <1>5, <1>6

\* check_card.
LEMMA ReadCheckInv == ASSUME Inv, NEW t \in Threads, ReadCheck(t) PROVE Inv'
<1>. USE TasksAssumption DEF Inv, Threads
<1>1. DataOK'
  BY DEF DataOK, ReadCheck, Go, Finish, Reading, Lost, NoFault, Unnoticed, Happens, calls, locals
<1>2. ControlOK'
  BY PointsAre DEF ControlOK, ReadCheck, Go, Finish, Reading, Lost, NoFault, Unnoticed, Happens, calls, locals, Results
<1>3. Mutex' /\ BootFirst'
  BY DEF DataOK, ControlOK, Mutex, BootFirst, Section, Creating, ReadCheck, Go, Finish, Reading, Lost, NoFault, Unnoticed, Happens, calls, locals
<1>4. HeaderThere'
  BY DEF ControlOK, HeaderThere, BootFirst, Section, Creating, ReadCheck, Go, Finish, Reading, Lost, NoFault, Unnoticed, Happens, calls, locals
<1>5. Counted'
  BY DEF ControlOK, Counted, Mutex, Writing, Section, ReadCheck, Go, Finish, Reading, Lost, NoFault, Unnoticed, Happens, calls, locals
<1>6. Opened'
  BY DEF ControlOK, Opened, Mutex, Section, ReadCheck, Go, Finish, Reading, Lost, NoFault, Unnoticed, Happens, calls, locals
<1>. QED
  BY <1>1, <1>2, <1>3, <1>4, <1>5, <1>6

\* get_card_count.
LEMMA ReadCountInv == ASSUME Inv, NEW t \in Threads, ReadCount(t) PROVE Inv'
<1>. USE TasksAssumption DEF Inv, Threads
<1>1. DataOK'
  BY DEF DataOK, ReadCount, Go, Finish, Reading, Lost, NoFault, Unnoticed, Happens, calls, locals
<1>2. ControlOK'
  BY PointsAre DEF ControlOK, ReadCount, Go, Finish, Reading, Lost, NoFault, Unnoticed, Happens, calls, locals, Results
<1>3. Mutex' /\ BootFirst'
  BY DEF DataOK, ControlOK, Mutex, BootFirst, Section, Creating, ReadCount, Go, Finish, Reading, Lost, NoFault, Unnoticed, Happens, calls, locals
<1>4. HeaderThere'
  BY DEF ControlOK, HeaderThere, BootFirst, Section, Creating, ReadCount, Go, Finish, Reading, Lost, NoFault, Unnoticed, Happens, calls, locals
<1>5. Counted'
  BY DEF ControlOK, Counted, Mutex, Writing, Section, ReadCount, Go, Finish, Reading, Lost, NoFault, Unnoticed, Happens, calls, locals
<1>6. Opened'
  BY DEF ControlOK, Opened, Mutex, Section, ReadCount, Go, Finish, Reading, Lost, NoFault, Unnoticed, Happens, calls, locals
<1>. QED
  BY <1>1, <1>2, <1>3, <1>4, <1>5, <1>6

\* list_cards.
LEMMA ReadListInv == ASSUME Inv, NEW t \in Threads, ReadList(t) PROVE Inv'
<1>. USE TasksAssumption DEF Inv, Threads
<1>1. DataOK'
  BY DEF DataOK, ReadList, Go, Finish, Reading, Lost, NoFault, Unnoticed, Happens, calls, locals
<1>2. ControlOK'
  BY PointsAre DEF ControlOK, ReadList, Go, Finish, Reading, Lost, NoFault, Unnoticed, Happens, calls, locals, Results
<1>3. Mutex' /\ BootFirst'
  BY DEF DataOK, ControlOK, Mutex, BootFirst, Section, Creating, ReadList, Go, Finish, Reading, Lost, NoFault, Unnoticed, Happens, calls, locals
<1>4. HeaderThere'
  BY DEF ControlOK, HeaderThere, BootFirst, Section, Creating, ReadList, Go, Finish, Reading, Lost, NoFault, Unnoticed, Happens, calls, locals
<1>5. Counted'
  BY DEF ControlOK, Counted, Mutex, Writing, Section, ReadList, Go, Finish, Reading, Lost, NoFault, Unnoticed, Happens, calls, locals
<1>6. Opened'
  BY DEF ControlOK, Opened, Mutex, Section, ReadList, Go, Finish, Reading, Lost, NoFault, Unnoticed, Happens, calls, locals
<1>. QED
  BY <1>1, <1>2, <1>3, <1>4, <1>5, <1>6

\* get_card_list_json.
LEMMA ReadJsonInv == ASSUME Inv, NEW t \in Threads, ReadJson(t) PROVE Inv'
<1>. USE TasksAssumption DEF Inv, Threads
<1>1. DataOK'
  BY DEF DataOK, ReadJson, Go, Finish, Reading, Lost, NoFault, Unnoticed, Happens, calls, locals
<1>2. ControlOK'
  BY PointsAre DEF ControlOK, ReadJson, Go, Finish, Reading, Lost, NoFault, Unnoticed, Happens, calls, locals, Results
<1>3. Mutex' /\ BootFirst'
  BY DEF DataOK, ControlOK, Mutex, BootFirst, Section, Creating, ReadJson, Go, Finish, Reading, Lost, NoFault, Unnoticed, Happens, calls, locals
<1>4. HeaderThere'
  BY DEF ControlOK, HeaderThere, BootFirst, Section, Creating, ReadJson, Go, Finish, Reading, Lost, NoFault, Unnoticed, Happens, calls, locals
<1>5. Counted'
  BY DEF ControlOK, Counted, Mutex, Writing, Section, ReadJson, Go, Finish, Reading, Lost, NoFault, Unnoticed, Happens, calls, locals
<1>6. Opened'
  BY DEF ControlOK, Opened, Mutex, Section, ReadJson, Go, Finish, Reading, Lost, NoFault, Unnoticed, Happens, calls, locals
<1>. QED
  BY <1>1, <1>2, <1>3, <1>4, <1>5, <1>6

\* load_from_file.
LEMMA ReadLoadInv == ASSUME Inv, NEW t \in Threads, ReadLoad(t) PROVE Inv'
<1>. USE TasksAssumption DEF Inv, Threads
<1>1. DataOK'
  BY DEF DataOK, ReadLoad, Go, Finish, Reading, Lost, NoFault, Unnoticed, Happens, calls, locals
<1>2. ControlOK'
  BY PointsAre DEF ControlOK, ReadLoad, Go, Finish, Reading, Lost, NoFault, Unnoticed, Happens, calls, locals, Results
<1>3. Mutex' /\ BootFirst'
  BY DEF DataOK, ControlOK, Mutex, BootFirst, Section, Creating, ReadLoad, Go, Finish, Reading, Lost, NoFault, Unnoticed, Happens, calls, locals
<1>4. HeaderThere'
  BY DEF ControlOK, HeaderThere, BootFirst, Section, Creating, ReadLoad, Go, Finish, Reading, Lost, NoFault, Unnoticed, Happens, calls, locals
<1>5. Counted'
  BY DEF ControlOK, Counted, Mutex, Writing, Section, ReadLoad, Go, Finish, Reading, Lost, NoFault, Unnoticed, Happens, calls, locals
<1>6. Opened'
  BY DEF ControlOK, Opened, Mutex, Section, ReadLoad, Go, Finish, Reading, Lost, NoFault, Unnoticed, Happens, calls, locals
<1>. QED
  BY <1>1, <1>2, <1>3, <1>4, <1>5, <1>6

\* is_database_valid.
LEMMA ReadValidInv == ASSUME Inv, NEW t \in Threads, ReadValid(t) PROVE Inv'
<1>. USE TasksAssumption DEF Inv, Threads
<1>1. DataOK'
  BY DEF DataOK, ReadValid, Go, Finish, Reading, Lost, NoFault, Unnoticed, Happens, calls, locals
<1>2. ControlOK'
  BY PointsAre DEF ControlOK, ReadValid, Go, Finish, Reading, Lost, NoFault, Unnoticed, Happens, calls, locals, Results
<1>3. Mutex' /\ BootFirst'
  BY DEF DataOK, ControlOK, Mutex, BootFirst, Section, Creating, ReadValid, Go, Finish, Reading, Lost, NoFault, Unnoticed, Happens, calls, locals
<1>4. HeaderThere'
  BY DEF ControlOK, HeaderThere, BootFirst, Section, Creating, ReadValid, Go, Finish, Reading, Lost, NoFault, Unnoticed, Happens, calls, locals
<1>5. Counted'
  BY DEF ControlOK, Counted, Mutex, Writing, Section, ReadValid, Go, Finish, Reading, Lost, NoFault, Unnoticed, Happens, calls, locals
<1>6. Opened'
  BY DEF ControlOK, Opened, Mutex, Section, ReadValid, Go, Finish, Reading, Lost, NoFault, Unnoticed, Happens, calls, locals
<1>. QED
  BY <1>1, <1>2, <1>3, <1>4, <1>5, <1>6

\* save_to_file's read.
LEMMA ReadSaveInv == ASSUME Inv, NEW t \in Threads, ReadSave(t) PROVE Inv'
<1>. USE TasksAssumption DEF Inv, Threads
<1>1. DataOK'
  BY HdrReadType DEF DataOK, ReadSave, Go, Finish, Reading, Lost, NoFault, Unnoticed, Happens, calls, locals
<1>2. ControlOK'
  BY PointsAre DEF ControlOK, ReadSave, Go, Finish, Reading, Lost, NoFault, Unnoticed, Happens, calls, locals, Results
<1>3. Mutex' /\ BootFirst'
  BY DEF DataOK, ControlOK, Mutex, BootFirst, Section, Creating, ReadSave, Go, Finish, Reading, Lost, NoFault, Unnoticed, Happens, calls, locals
<1>4. HeaderThere'
  BY DEF ControlOK, HeaderThere, BootFirst, Section, Creating, ReadSave, Go, Finish, Reading, Lost, NoFault, Unnoticed, Happens, calls, locals
<1>5. Counted'
  BY DEF ControlOK, Counted, Mutex, Writing, Section, ReadSave, Go, Finish, Reading, Lost, NoFault, Unnoticed, Happens, calls, locals
<1>6. Opened'
  BY DEF ControlOK, Opened, Mutex, Section, ReadSave, Go, Finish, Reading, Lost, NoFault, Unnoticed, Happens, calls, locals
<1>. QED
  BY <1>1, <1>2, <1>3, <1>4, <1>5, <1>6

\* Opening the header empties it.
LEMMA HdrOpenInv == ASSUME Inv, NEW t \in Threads, HdrOpen(t) PROVE Inv'
<1>. USE TasksAssumption DEF Inv, Threads
<1>1. DataOK'
  BY DEF DataOK, HdrOpen, Go, Finish, NoFault, Fault, Unnoticed, Happens, calls
<1>2. ControlOK'
  BY PointsAre DEF ControlOK, HdrOpen, Go, Finish, NoFault, Fault, Unnoticed, Happens, calls, Results
<1>3. Mutex' /\ BootFirst'
  BY DEF DataOK, ControlOK, Mutex, BootFirst, Section, Creating, HdrOpen, Go, Finish, NoFault, Fault, Unnoticed, Happens, calls
<1>4. HeaderThere'
  BY FilesAssumption DEF ControlOK, HeaderThere, BootFirst, Section, Creating, HdrOpen, Go, Finish, NoFault, Fault, Unnoticed, Happens, calls
<1>5. Counted'
  BY DEF ControlOK, Counted, Mutex, Writing, Section, HdrOpen, Go, Finish, NoFault, Fault, Unnoticed, Happens, calls
<1>6. Opened'
  BY DEF ControlOK, Opened, Mutex, Section, HdrOpen, Go, Finish, NoFault, Fault, Unnoticed, Happens, calls
<1>. QED
  BY <1>1, <1>2, <1>3, <1>4, <1>5, <1>6

\* Writing the header.
LEMMA HdrWriteInv == ASSUME Inv, NEW t \in Threads, HdrWrite(t) PROVE Inv'
<1>. USE TasksAssumption DEF Inv, Threads
<1>1. DataOK'
  BY DEF DataOK, HdrWrite, Go, Finish, NoFault, Fault, Unnoticed, Happens, calls, HdrWritten
<1>2. ControlOK'
  BY PointsAre DEF ControlOK, HdrWrite, Go, Finish, NoFault, Fault, Unnoticed, Happens, calls, HdrWritten, Results
<1>3. Mutex' /\ BootFirst'
  BY DEF DataOK, ControlOK, Mutex, BootFirst, Section, Creating, HdrWrite, Go, Finish, NoFault, Fault, Unnoticed, Happens, calls, HdrWritten
<1>4. HeaderThere'
  BY FilesAssumption DEF ControlOK, HeaderThere, BootFirst, Section, Creating, HdrWrite, Go, Finish, NoFault, Fault, Unnoticed, Happens, calls, HdrWritten, DataOK
<1>5. Counted'
  BY DEF ControlOK, Counted, Mutex, Writing, Section, HdrWrite, Go, Finish, NoFault, Fault, Unnoticed, Happens, calls, HdrWritten
<1>6. Opened'
  BY DEF ControlOK, Opened, Mutex, Section, HdrWrite, Go, Finish, NoFault, Fault, Unnoticed, Happens, calls, HdrWritten
<1>. QED
  BY <1>1, <1>2, <1>3, <1>4, <1>5, <1>6

\* Opening the cards file, to append or to rewrite.
LEMMA CardsOpenInv == ASSUME Inv, NEW t \in Threads, CardsOpen(t) PROVE Inv'
<1>. USE TasksAssumption DEF Inv, Threads
<1>s. <<>> # NoFile /\ <<>> \in Seq(Record \cup {Torn})
  BY FilesAssumption, EmptySeq
<1>1. DataOK'
  <2>1. CASE /\ cards' = (IF fn[t] = "add" /\ cards # NoFile THEN cards ELSE <<>>)
             /\ Go(t, "cards_write") /\ NoFault /\ UNCHANGED <<calls, res, db>>
    BY <2>1, <1>s, PointsAre DEF DataOK, ControlOK, CardsOpen, NoFault, Go, calls
  <2>2. CASE CardsFailed(t) /\ fn[t] = "add"
    BY <2>2, PointsAre, FunctionsAre DEF DataOK, ControlOK, CardsOpen, CardsFailed, Go, Fault, Happens, Header, Counted, Writing
  <2>3. CASE CardsFailed(t) /\ fn[t] # "add"
    BY <2>3, PointsAre, FunctionsAre DEF DataOK, ControlOK, CardsOpen, CardsFailed, Go, Finish, Fault, Happens, Results
  <2>. QED
    BY <2>1, <2>2, <2>3 DEF CardsOpen
<1>2. ControlOK'
  <2>1. CASE /\ cards' = (IF fn[t] = "add" /\ cards # NoFile THEN cards ELSE <<>>)
             /\ Go(t, "cards_write") /\ NoFault /\ UNCHANGED <<calls, res, db>>
    BY <2>1, <1>s, PointsAre DEF ControlOK, CardsOpen, NoFault, Go, calls
  <2>2. CASE CardsFailed(t) /\ fn[t] = "add"
    <3>1. pc' = [pc EXCEPT ![t] = "hdr_open"] /\ fn' = [fn EXCEPT ![t] = "revert"]
      BY <2>2 DEF CardsFailed, Go
    <3>2. UNCHANGED <<top, id, nxt, res>>
      BY <2>2 DEF CardsFailed
    <3>. QED
      BY <3>1, <3>2, PointsAre, FunctionsAre DEF ControlOK
  <2>3. CASE CardsFailed(t) /\ fn[t] # "add"
    <3>1. pc' = [pc EXCEPT ![t] = "give"] /\ res' = [res EXCEPT ![t] = "FAIL"]
      BY <2>3 DEF CardsFailed, Finish, Go
    <3>2. UNCHANGED <<top, fn, id, nxt>>
      BY <2>3 DEF CardsFailed
    <3>. QED
      BY <3>1, <3>2, PointsAre DEF ControlOK, Results
  <2>. QED
    BY <2>1, <2>2, <2>3 DEF CardsOpen
<1>3. Mutex' /\ BootFirst'
  BY DEF DataOK, ControlOK, Mutex, BootFirst, Section, Creating, CardsOpen, Go, Finish, NoFault, Fault, Unnoticed, Happens, calls, CardsFailed
<1>4. HeaderThere'
  BY DEF ControlOK, HeaderThere, BootFirst, Section, Creating, CardsOpen, Go, Finish, NoFault, Fault, Unnoticed, Happens, calls, CardsFailed
<1>5. Counted'
  BY DEF ControlOK, Counted, Mutex, Writing, Section, CardsOpen, Go, Finish, NoFault, Fault, Unnoticed, Happens, calls, CardsFailed
<1>6. Opened'
  <2>1. \A u \in Threads : u # t => pc[u] # "cards_write" /\ pc'[u] = pc[u]
    BY DEF ControlOK, Mutex, Section, CardsOpen, CardsFailed, Go, Finish
  <2>2. pc'[t] = "cards_write" => cards' # NoFile
    BY <1>s DEF ControlOK, CardsOpen, CardsFailed, Go, Finish
  <2>. QED
    BY <2>1, <2>2 DEF Opened
<1>. QED
  BY <1>1, <1>2, <1>3, <1>4, <1>5, <1>6

\* Appending the card, or rewriting the remaining ones.
LEMMA CardsWriteInv == ASSUME Inv, NEW t \in Threads, CardsWrite(t) PROVE Inv'
<1>. USE TasksAssumption DEF Inv, Threads
<1>1. DataOK'
  <2>1. cards \in Seq(Record \cup {Torn})
    BY DEF DataOK, Opened, CardsWrite
  <2>2. cards' \in Seq(Record \cup {Torn})
    <3>1. Append(cards, NewCard(t)) \in Seq(Record \cup {Torn})
      BY <2>1, AppendProperties DEF NewCard, Record, ControlOK
    <3>2. buf \in Seq(Record \cup {Torn})
      BY SeqMonotonic DEF DataOK
    <3>3. Partial(t) \subseteq Seq(Record \cup {Torn})
      BY <2>1, PartialType DEF DataOK
    <3>. QED
      BY <3>1, <3>2, <3>3 DEF CardsWrite
  <2>3. db' \in Header
    <3>1. CASE UNCHANGED db
      BY <3>1 DEF DataOK
    <3>2. CASE fn[t] = "add" /\ db' = [db EXCEPT !.count = @ - 1]
      BY <3>2 DEF DataOK, CardsWrite, Counted, Writing, Header
    <3>. QED
      BY <3>1, <3>2 DEF CardsWrite, CardsFailed
  <2>. QED
    BY <2>2, <2>3 DEF DataOK, CardsWrite, NoFault, Fault, Unnoticed, Happens
<1>2. ControlOK'
  <2>1. CASE Finish(t, "OK") /\ UNCHANGED <<calls, db>>
    <3>1. pc' = [pc EXCEPT ![t] = "give"] /\ res' = [res EXCEPT ![t] = "OK"]
      BY <2>1 DEF Finish, Go
    <3>. QED
      BY <2>1, <3>1, PointsAre DEF ControlOK, calls, Results
  <2>2. CASE CardsFailed(t) /\ fn[t] = "add"
    <3>1. pc' = [pc EXCEPT ![t] = "hdr_open"] /\ fn' = [fn EXCEPT ![t] = "revert"]
      BY <2>2 DEF CardsFailed, Go
    <3>2. UNCHANGED <<top, id, nxt, res>>
      BY <2>2 DEF CardsFailed
    <3>. QED
      BY <3>1, <3>2, PointsAre, FunctionsAre DEF ControlOK
  <2>3. CASE CardsFailed(t) /\ fn[t] # "add"
    <3>1. pc' = [pc EXCEPT ![t] = "give"] /\ res' = [res EXCEPT ![t] = "FAIL"]
      BY <2>3 DEF CardsFailed, Finish, Go
    <3>2. UNCHANGED <<top, fn, id, nxt>>
      BY <2>3 DEF CardsFailed
    <3>. QED
      BY <3>1, <3>2, PointsAre DEF ControlOK, Results
  <2>. QED
    BY <2>1, <2>2, <2>3 DEF CardsWrite
<1>3. Mutex' /\ BootFirst'
  BY DEF DataOK, ControlOK, Mutex, BootFirst, Section, Creating, CardsWrite, Go, Finish, NoFault, Fault, Unnoticed, Happens, calls, CardsFailed
<1>4. HeaderThere'
  <2>1. fn[t] # "format" /\ fn'[t] # "format"
    BY DEF ControlOK, HeaderThere, CardsWrite, CardsFailed, Finish, calls
  <2>2. \A u \in Threads : u # t => pc'[u] = pc[u] /\ fn'[u] = fn[u] /\ res'[u] = res[u]
    BY DEF ControlOK, CardsWrite, CardsFailed, Go, Finish, calls
  <2>3. pc'[t] \in {"give", "hdr_open"} /\ UNCHANGED hdr /\ (fn'[t] = fn[t] \/ fn'[t] = "revert")
    BY DEF ControlOK, CardsWrite, CardsFailed, Go, Finish, calls
  <2>4. misled' = misled
    BY DEF CardsWrite, NoFault, Fault, Unnoticed
  <2>. QED
    BY <2>1, <2>2, <2>3, <2>4 DEF HeaderThere, Creating
<1>5. Counted'
  BY DEF ControlOK, Counted, Mutex, Writing, Section, CardsWrite, Go, Finish, NoFault, Fault, Unnoticed, Happens, calls, CardsFailed
<1>6. Opened'
  BY DEF ControlOK, Opened, Mutex, Section, CardsWrite, Go, Finish, NoFault, Fault, Unnoticed, Happens, calls, CardsFailed
<1>. QED
  BY <1>1, <1>2, <1>3, <1>4, <1>5, <1>6

\* Deleting the cards file.
LEMMA CardsDeleteInv == ASSUME Inv, NEW t \in Threads, CardsDelete(t) PROVE Inv'
<1>. USE TasksAssumption DEF Inv, Threads
<1>1. DataOK'
  BY DEF DataOK, CardsDelete, Go, Finish, NoFault, Fault, Unnoticed, Happens, calls
<1>2. ControlOK'
  BY PointsAre DEF ControlOK, CardsDelete, Go, Finish, NoFault, Fault, Unnoticed, Happens, calls, Results
<1>3. Mutex' /\ BootFirst'
  BY DEF DataOK, ControlOK, Mutex, BootFirst, Section, Creating, CardsDelete, Go, Finish, NoFault, Fault, Unnoticed, Happens, calls
<1>4. HeaderThere'
  BY DEF ControlOK, HeaderThere, BootFirst, Section, Creating, CardsDelete, Go, Finish, NoFault, Fault, Unnoticed, Happens, calls
<1>5. Counted'
  BY DEF ControlOK, Counted, Mutex, Writing, Section, CardsDelete, Go, Finish, NoFault, Fault, Unnoticed, Happens, calls
<1>6. Opened'
  BY DEF ControlOK, Opened, Mutex, Section, CardsDelete, Go, Finish, NoFault, Fault, Unnoticed, Happens, calls
<1>. QED
  BY <1>1, <1>2, <1>3, <1>4, <1>5, <1>6

\* xSemaphoreGive.
LEMMA GiveInv == ASSUME Inv, NEW t \in Threads, Give(t) PROVE Inv'
<1>. USE TasksAssumption DEF Inv, Threads
<1>1. DataOK'
  BY FreshType, EmptySeq DEF DataOK, Give, Go, Enter, LoadDefault, Done
<1>2. ControlOK'
  <2>1. CASE LoadDefault(t, nxt[t] + 1)
    <3>1. nxt[t] + 1 \in Nat \ {0}
      BY DEF ControlOK
    <3>. QED
      BY <2>1, <3>1, LoadDefaultType DEF Give
  <2>2. CASE Go(t, "mk_exists") /\ Enter(t, "defaults") /\ UNCHANGED <<id, nxt>>
    BY <2>2, PointsAre, FunctionsAre DEF ControlOK, Give, Go, Enter
  <2>3. CASE Go(t, "done") /\ UNCHANGED <<fn, id, nxt, res>>
    BY <2>3, PointsAre DEF ControlOK, Give, Go
  <2>. QED
    BY <2>1, <2>2, <2>3 DEF Give
<1>0. /\ pc[t] = "give" /\ owner' = None /\ booted' = booted
      /\ \E p \in {"done", "take", "mk_exists"} : pc' = [pc EXCEPT ![t] = p]
  BY LoadDefaultGoes DEF Give, Go
<1>3. Mutex' /\ BootFirst'
  BY <1>0 DEF DataOK, ControlOK, Mutex, BootFirst, Section
<1>4. HeaderThere'
  <2>1. \A u \in Threads : u # t => pc'[u] = pc[u] /\ fn'[u] = fn[u] /\ res'[u] = res[u]
    BY LoadDefaultGoes DEF ControlOK, Give, LoadDefault, Done, Go, Enter
  <2>2. hdr' = hdr /\ misled' = misled /\ pc[t] = "give"
    BY DEF Give
  <2>3. CASE fn[t] = "load" \/ (fn[t] = "format" /\ top[t] = "reset" /\ res[t] = "OK")
    <3>1. pc'[t] = "mk_exists" /\ fn'[t] = "defaults"
      BY <2>3 DEF ControlOK, Give, Go, Enter
    <3>2. t \in Tasks => hdr # NoFile
      BY <2>2, <2>3 DEF HeaderThere
    <3>. QED
      BY <2>1, <2>2, <3>1, <3>2 DEF HeaderThere, Creating
  <2>4. CASE ~(fn[t] = "load" \/ (fn[t] = "format" /\ top[t] = "reset" /\ res[t] = "OK"))
    <3>1. pc'[t] \in {"done", "take"} /\ fn'[t] \in {fn[t], "add"}
      BY <2>4, LoadDefaultGoes DEF ControlOK, Give, Go
    <3>. QED
      BY <2>1, <2>2, <3>1 DEF HeaderThere, Creating
  <2>. QED
    BY <2>3, <2>4
<1>5. Counted'
  BY <1>0 DEF ControlOK, Counted, Mutex, Writing, Section
<1>6. Opened'
  BY <1>0 DEF ControlOK, Opened, Mutex, Section
<1>. QED
  BY <1>1, <1>2, <1>3, <1>4, <1>5, <1>6

\* The return to the caller.
LEMMA ReturnInv == ASSUME Inv, NEW t \in Threads, Return(t) PROVE Inv'
<1>. USE TasksAssumption DEF Inv, Threads
<1>1. DataOK'
  BY DEF DataOK, Return, Go
<1>2. ControlOK'
  BY PointsAre, FunctionsAre, IdsAssumption DEF ControlOK, Return, Go, Results
<1>3. Mutex' /\ BootFirst'
  BY DEF DataOK, ControlOK, Mutex, BootFirst, Section, Creating, Return, Go
<1>4. HeaderThere'
  BY DEF ControlOK, HeaderThere, BootFirst, Section, Creating, Return, Go
<1>5. Counted'
  BY DEF ControlOK, Counted, Mutex, Writing, Section, Return, Go
<1>6. Opened'
  BY DEF ControlOK, Opened, Mutex, Section, Return, Go
<1>. QED
  BY <1>1, <1>2, <1>3, <1>4, <1>5, <1>6

\* A restart: only the files survive, and a write may have been cut short.
LEMMA CrashInv == Inv /\ Crash => Inv'
<1>. SUFFICES ASSUME Inv, Crash PROVE Inv'
  OBVIOUS
<1>. USE TasksAssumption DEF Inv, Threads
<1>1. cards' \in Seq(Record \cup {Torn}) \cup {NoFile}
  <2>1. CASE cards' = cards
    BY <2>1 DEF DataOK
  <2>2. ASSUME NEW t \in Threads, pc[t] = "cards_write", cards' \in Partial(t)
        PROVE  cards' \in Seq(Record \cup {Torn})
    BY <2>2, PartialType DEF DataOK, Opened
  <2>. QED
    BY <2>1, <2>2 DEF Crash
<1>2. DataOK'
  <2>1. <<>> \in Seq(Record)
    BY EmptySeq
  <2>2. owner' = None /\ db' = Fresh /\ buf' = <<>> /\ booted' = FALSE /\ UNCHANGED hdr
    BY DEF Crash
  <2>3. crashes' \in Nat /\ failures' \in Nat /\ silent' = {} /\ misled' = {}
    BY DEF DataOK, Crash
  <2>. QED
    BY <1>1, <2>1, <2>2, <2>3, FreshType DEF DataOK
<1>3. ControlOK'
  BY PointsAre, FunctionsAre, IdsAssumption DEF ControlOK, Crash, Booting
<1>4. (Mutex /\ BootFirst /\ HeaderThere /\ Counted /\ Opened)'
  BY DEF Crash, Mutex, BootFirst, HeaderThere, Counted, Opened, Booting, Section, Creating, Writing
<1>. QED
  BY <1>2, <1>3, <1>4

\* No step breaks the invariant.
LEMMA NextInv == Inv /\ [Next]_vars => Inv'
<1>. SUFFICES ASSUME Inv, [Next]_vars PROVE Inv'
  OBVIOUS
<1>1. CASE UNCHANGED vars
  BY <1>1 DEF vars, Inv, DataOK, ControlOK, Mutex, BootFirst, HeaderThere, Counted, Opened
<1>2. ASSUME NEW t \in Tasks, Call(t) PROVE Inv'
  BY <1>2, CallInv
<1>3. ASSUME NEW t \in Threads, Step(t) PROVE Inv'
  BY <1>3, MkExistsInv, MkOpenInv, MkWriteInv, TakeInv, ReadFailsInv, CardsMissingInv, ReadAddInv,
     ReadRemoveInv, ReadCheckInv, ReadCountInv, ReadListInv, ReadJsonInv, ReadLoadInv, ReadValidInv, ReadSaveInv, HdrOpenInv, HdrWriteInv,
     CardsOpenInv, CardsWriteInv, CardsDeleteInv, GiveInv, ReturnInv DEF Step
<1>. QED
  BY <1>1, <1>2, <1>3, CrashInv DEF Next

\* The invariant holds in every behaviour, whatever faults and restarts happen.
THEOREM Invariance == Spec => []Inv
<1>. QED
  BY InitInv, NextInv, PTL DEF Spec

\* Every variable keeps its type: the counts that functions write never fall
\* below zero and the records they write are whole, under every fault.
THEOREM TypeCorrect == Spec => []TypeOK
<1>1. Inv => TypeOK
  BY DEF Inv, DataOK, ControlOK, TypeOK
<1>. QED
  BY <1>1, Invariance, PTL

\* The header write outside rfid_mutex (rfid_manager.c:68 and 96), for any
\* number of tasks, faults and restarts: at boot it never runs beside another
\* call, and in a reset it needs a stat that failed for the header.
THEOREM CreationAlone == Spec => []CreationIsAlone
<1>1. Inv => CreationIsAlone
  <2>. SUFFICES ASSUME Inv, NEW t \in Threads, pc[t] \in Creating
                PROVE  /\ t \in Tasks => t \in misled
                       /\ t = Main => owner = None /\ \A u \in Tasks : pc[u] = "idle"
    BY DEF CreationIsAlone
  <2>1. t \in Tasks => t \in misled
    BY DEF Inv, HeaderThere
  <2>2. ASSUME t = Main PROVE owner = None /\ \A u \in Tasks : pc[u] = "idle"
    <3>1. \A u \in Tasks : pc[u] = "idle"
      BY <2>2 DEF Inv, BootFirst, Creating, DataOK
    <3>2. \A u \in Threads : pc[u] \notin Section
      BY <2>2, <3>1 DEF Threads, Section, Creating
    <3>. QED
      BY <3>1, <3>2 DEF Inv, Mutex, DataOK
  <2>. QED
    BY <2>1, <2>2
<1>. QED
  BY <1>1, Invariance, PTL

-----------------------------------------------------------------------------
(* A reset of one caller, whatever faults and restarts went before it.      *)

\* The n-th header and card file that load_defaults writes after a format.
DefaultHeader(n) == [count |-> n, max |-> MaxCards]
DefaultRecords(n) == [k \in 1..n |-> [id |-> Defaults[k], active |-> TRUE]]
CardsHold(n) == IF n = 0 THEN cards = NoFile ELSE cards = DefaultRecords(n)
Holds(n) == hdr = DefaultHeader(n) /\ CardsHold(n) /\ n <= MaxCards

FormatOf(t) ==
    /\ pc[t] \in {"take", "hdr_open", "hdr_write", "cards_del", "give", "done"}
    /\ pc[t] \in {"hdr_open", "hdr_write"} => db = Fresh
    /\ pc[t] = "cards_del" => hdr = Fresh
    /\ pc[t] = "give" /\ res[t] = "OK" => Holds(0)
    /\ pc[t] = "done" => res[t] # "OK"

\* A stat that hides the header makes load_defaults write it once more.
DefaultsOf(t) ==
    /\ pc[t] \in {"mk_exists", "mk_open", "mk_write", "done"}
    /\ pc[t] \in {"mk_exists", "mk_open"} => Holds(0)
    /\ pc[t] = "mk_write" => CardsHold(0) /\ 0 <= MaxCards
    /\ pc[t] = "done" => res[t] # "OK"

\* The add of default card n.
AddOf(t) ==
    LET n == nxt[t] IN
    /\ pc[t] \in {"take", "read", "hdr_open", "hdr_write", "cards_open", "cards_write", "give", "done"}
    /\ pc[t] # "done" => n \in 1..Len(Defaults) /\ id[t] = Defaults[n]
    /\ pc[t] \in {"take", "read"} => Holds(n - 1)
    /\ pc[t] \in {"hdr_open", "hdr_write", "cards_open", "cards_write"} =>
         db = DefaultHeader(n) /\ n <= MaxCards
    /\ pc[t] \in {"hdr_open", "hdr_write", "cards_open"} => CardsHold(n - 1)
    /\ pc[t] \in {"cards_open", "cards_write"} => hdr = DefaultHeader(n)
    /\ pc[t] = "cards_write" => cards = DefaultRecords(n - 1)
    /\ pc[t] = "give" => (res[t] = "OK" => Holds(n)) /\ res[t] # "INVALID_STATE"
    /\ pc[t] = "done" /\ res[t] = "OK" => Holds(Len(Defaults))

RevertOf(t) ==
    /\ pc[t] \in {"hdr_open", "hdr_write", "give", "done"}
    /\ pc[t] \in {"give", "done"} => res[t] # "OK"

Resetting(t) == top[t] = "reset" /\ pc[t] # "idle" /\ t \notin silent
Restoring(t) ==
    /\ fn[t] \in {"format", "defaults", "add", "revert"}
    /\ fn[t] = "format" => FormatOf(t)
    /\ fn[t] = "defaults" => DefaultsOf(t)
    /\ fn[t] = "add" => AddOf(t)
    /\ fn[t] = "revert" => RevertOf(t)

ResetInv == \A t \in Tasks : Resetting(t) => Restoring(t)

LEMMA DefaultsAre ==
    /\ Len(Defaults) \in Nat /\ Len(Defaults) >= 1 /\ DOMAIN Defaults = 1..Len(Defaults)
    /\ \A n \in 1..Len(Defaults) : Defaults[n] \in Ids
    /\ \A j, k \in 1..Len(Defaults) : Defaults[j] = Defaults[k] => j = k
<1>1. Len(Defaults) \in Nat /\ DOMAIN Defaults = 1..Len(Defaults)
  BY IdsAssumption, LenProperties
<1>2. Len(Defaults) # 0
  BY <1>1, IdsAssumption, DefaultsAssumption, EmptySeq
<1>3. \A n \in 1..Len(Defaults) : Defaults[n] \in Ids
  BY IdsAssumption, ElementOfSeq, <1>1
<1>. QED
  BY <1>1, <1>2, <1>3, DefaultsAssumption

LEMMA DefaultHeaderType ==
    ASSUME NEW n \in Nat
    PROVE  /\ DefaultHeader(n) \in Header /\ DefaultHeader(n) # NoFile
           /\ DefaultHeader(n).count = n /\ DefaultHeader(n).max = MaxCards
BY SizesAssumption, FilesAssumption DEF DefaultHeader, Header

LEMMA DefaultRecordsType ==
    ASSUME NEW n \in 0..Len(Defaults)
    PROVE  /\ DefaultRecords(n) \in Seq(Record) /\ Len(DefaultRecords(n)) = n
           /\ DefaultRecords(n) # NoFile
<1>1. n \in Nat /\ \A k \in 1..n : k \in 1..Len(Defaults)
  BY DefaultsAre
<1>2. DefaultRecords(n) \in [1..n -> Record]
  BY <1>1, DefaultsAre DEF DefaultRecords, Record
<1>3. DefaultRecords(n) \in Seq(Record)
  BY <1>1, <1>2, SeqDef
<1>4. Len(DefaultRecords(n)) = n
  BY <1>1, <1>2, <1>3, LenProperties
<1>5. DefaultRecords(n) \in Seq(Record \cup {Torn})
  BY <1>3, SeqMonotonic
<1>. QED
  BY <1>3, <1>4, <1>5, FilesAssumption

\* The first default card goes into a new file.
LEMMA NoDefaults == DefaultRecords(0) = <<>>
<1>1. DefaultRecords(0) \in Seq(Record) /\ Len(DefaultRecords(0)) = 0
  BY DefaultRecordsType, DefaultsAre
<1>. QED
  BY <1>1, EmptySeq

LEMMA DefaultAppended ==
    ASSUME NEW n \in 1..Len(Defaults)
    PROVE  Append(DefaultRecords(n - 1), [id |-> Defaults[n], active |-> TRUE]) = DefaultRecords(n)
<1>. DEFINE r == [id |-> Defaults[n], active |-> TRUE]
            s == DefaultRecords(n - 1)
            d == DefaultRecords(n)
<1>1. n \in Nat /\ n - 1 \in 0..Len(Defaults) /\ n \in 0..Len(Defaults) /\ r \in Record
  BY DefaultsAre DEF Record
<1>2. s \in Seq(Record) /\ Len(s) = n - 1 /\ d \in Seq(Record) /\ Len(d) = n
  BY <1>1, DefaultRecordsType
<1>3. /\ \A k \in 1..(n - 1) : s[k] = [id |-> Defaults[k], active |-> TRUE]
      /\ \A k \in 1..n : d[k] = [id |-> Defaults[k], active |-> TRUE]
  BY DEF DefaultRecords
<1>. HIDE DEF r, s, d
<1>4. /\ Append(s, r) \in Seq(Record) /\ Len(Append(s, r)) = n
      /\ \A k \in 1..(n - 1) : Append(s, r)[k] = s[k]
      /\ Append(s, r)[n] = r
  BY <1>1, <1>2, AppendProperties
<1>5. ASSUME NEW k \in 1..n PROVE Append(s, r)[k] = d[k]
  <2>1. CASE k = n
    BY <1>3, <1>4, <2>1 DEF r
  <2>2. CASE k # n
    <3>1. k \in 1..(n - 1)
      BY <1>1, <2>2
    <3>2. Append(s, r)[k] = s[k] /\ s[k] = [id |-> Defaults[k], active |-> TRUE]
      BY <1>3, <1>4, <3>1
    <3>3. d[k] = [id |-> Defaults[k], active |-> TRUE]
      BY <1>3
    <3>. QED
      BY <3>2, <3>3
  <2>. QED
    BY <2>1, <2>2
<1>6. Append(s, r) = d
  BY <1>2, <1>4, <1>5, SeqEqual
<1>. QED
  BY <1>6 DEF r, s, d

\* Reading the first defaults finds them, and not the next one.
LEMMA ReadDefaults ==
    ASSUME NEW n \in 1..Len(Defaults), Holds(n - 1), NEW h \in HdrReads(FALSE),
           NEW s \in CardReads(h.count, FALSE)
    PROVE  h = DefaultHeader(n - 1) /\ ~Has(s, Defaults[n])
<1>1. n \in Nat /\ n - 1 \in Nat /\ n - 1 \in 0..Len(Defaults)
  BY DefaultsAre
<1>2. h = DefaultHeader(n - 1) /\ h.count = n - 1
  BY <1>1, DefaultHeaderType DEF Holds, HdrReads
<1>3. s \in [1..(n - 1) -> Record] /\ \A i \in 1..(n - 1) : Aligned(i) => s[i] = cards[i]
  BY <1>2 DEF CardReads
<1>4. ASSUME NEW i \in 1..(n - 1) PROVE s[i].id # Defaults[n]
  <2>1. cards = DefaultRecords(n - 1)
    BY <1>1, <1>4 DEF Holds, CardsHold
  <2>2. \A j \in 1..(n - 1) : cards[j] = [id |-> Defaults[j], active |-> TRUE]
    BY <2>1 DEF DefaultRecords
  <2>3. \A j \in 1..(n - 1) : cards[j] # Torn
    <3>1. \A j \in 1..(n - 1) : j \in 1..Len(Defaults)
      BY DefaultsAre
    <3>2. ASSUME NEW j \in 1..(n - 1) PROVE cards[j] \in Record
      <4>1. Defaults[j] \in Ids
        BY <3>1, DefaultsAre
      <4>2. [id |-> Defaults[j], active |-> TRUE] \in Record
        BY <4>1 DEF Record
      <4>. QED
        BY <2>2, <4>2
    <3>. QED
      BY <3>2, FilesAssumption
  <2>4. DOMAIN cards = 1..(n - 1)
    BY <2>1 DEF DefaultRecords
  <2>5. Aligned(i)
    <3>1. \A j \in 1..i : j \in 1..(n - 1)
      BY <1>1
    <3>. QED
      BY <2>3, <2>4, <3>1 DEF Aligned
  <2>6. s[i].id = Defaults[i]
    <3>1. s[i] = cards[i]
      BY <1>3, <2>5
    <3>2. cards[i] = [id |-> Defaults[i], active |-> TRUE]
      BY <2>2
    <3>3. s[i] = [id |-> Defaults[i], active |-> TRUE]
      BY <3>1, <3>2
    <3>. QED
      BY <3>3
  <2>7. i \in 1..Len(Defaults) /\ i # n
    BY <1>1
  <2>. QED
    BY <2>6, <2>7, DefaultsAre
<1>. QED
  BY <1>2, <1>3, <1>4 DEF Has

-----------------------------------------------------------------------------
(* The steps of a reset.                                                    *)

\* load_defaults turns to the first card.
LEMMA ResetStarts ==
    ASSUME Inv, NEW t \in Tasks, LoadDefault(t, 1), Holds(0)'
    PROVE  Restoring(t)'
<1>. USE DEF Inv, Threads
<1>1. /\ nxt'[t] = 1 /\ pc'[t] = "take" /\ fn'[t] = "add" /\ id'[t] = Defaults[1]
  BY DefaultsAre DEF LoadDefault, Go, Enter, ControlOK
<1>2. AddOf(t)'
  BY <1>1, DefaultsAre DEF AddOf
<1>. QED
  BY <1>1, <1>2 DEF Restoring

\* What a thread of the reset is in at the points of the unlocked creation.
LEMMA ResetMaking ==
    ASSUME NEW t \in Tasks, Restoring(t), pc[t] \in {"mk_exists", "mk_open", "mk_write"}
    PROVE  fn[t] = "defaults" /\ DefaultsOf(t)
BY DEF Restoring, FormatOf, AddOf, RevertOf

LEMMA ResetMkExists ==
    ASSUME Inv, NEW t \in Tasks, Restoring(t), MkExists(t)
    PROVE  Restoring(t)'
<1>. USE DEF Inv, Threads
<1>0. pc[t] = "mk_exists" /\ UNCHANGED <<hdr, cards>>
  BY DEF MkExists
<1>1. fn[t] = "defaults" /\ Holds(0)
  BY <1>0, ResetMaking DEF DefaultsOf
<1>2. Holds(0)'
  BY <1>0, <1>1 DEF Holds, CardsHold
<1>3. CASE MkDone(t)
  <2>1. LoadDefault(t, 1)
    BY <1>1, <1>3 DEF MkDone
  <2>. QED
    BY <1>2, <2>1, ResetStarts
<1>4. CASE Go(t, "mk_open") /\ UNCHANGED fn
  BY <1>1, <1>2, <1>4 DEF Restoring, DefaultsOf, Go, ControlOK
<1>. QED
  BY <1>3, <1>4 DEF MkExists

LEMMA ResetMkOpen ==
    ASSUME Inv, NEW t \in Tasks, Restoring(t), MkOpen(t)
    PROVE  Restoring(t)'
<1>. USE DEF Inv, Threads
<1>0. pc[t] = "mk_open" /\ UNCHANGED cards
  BY DEF MkOpen
<1>1. fn[t] = "defaults" /\ Holds(0)
  BY <1>0, ResetMaking DEF DefaultsOf
<1>2. CardsHold(0)' /\ 0 <= MaxCards
  BY <1>0, <1>1 DEF Holds, CardsHold
<1>3. CASE Go(t, "mk_write") /\ UNCHANGED fn
  BY <1>1, <1>2, <1>3 DEF Restoring, DefaultsOf, Go, ControlOK
<1>4. CASE MkFailed(t)
  BY <1>1, <1>4 DEF Restoring, DefaultsOf, MkFailed, Done, Go, ControlOK
<1>. QED
  BY <1>3, <1>4 DEF MkOpen

LEMMA ResetMkWrite ==
    ASSUME Inv, NEW t \in Tasks, Restoring(t), MkWrite(t), t \notin silent'
    PROVE  Restoring(t)'
<1>. USE DEF Inv, Threads
<1>0. pc[t] = "mk_write" /\ UNCHANGED cards
  BY DEF MkWrite
<1>1. fn[t] = "defaults" /\ CardsHold(0) /\ 0 <= MaxCards
  BY <1>0, ResetMaking DEF DefaultsOf
<1>2. CASE hdr' = Fresh /\ MkDone(t)
  <2>1. LoadDefault(t, 1)
    BY <1>1, <1>2 DEF MkDone
  <2>2. Holds(0)'
    BY <1>0, <1>1, <1>2 DEF Holds, CardsHold, Fresh, DefaultHeader
  <2>. QED
    BY <2>1, <2>2, ResetStarts
<1>3. CASE MkFailed(t)
  BY <1>1, <1>3 DEF Restoring, DefaultsOf, MkFailed, Done, Go, ControlOK
<1>4. ~Unnoticed(t, "flush")
  BY DEF Unnoticed
<1>. QED
  BY <1>2, <1>3, <1>4 DEF MkWrite

LEMMA ResetTake ==
    ASSUME Inv, NEW t \in Tasks, Restoring(t), Take(t)
    PROVE  Restoring(t)'
<1>. USE DEF Inv, Threads
<1>1. UNCHANGED <<hdr, cards, fn, id, nxt>> /\ pc[t] = "take"
  BY DEF Take, calls
<1>2. CASE fn[t] = "format"
  <2>1. pc'[t] = "hdr_open" /\ db' = Fresh
    BY <1>2 DEF Take, Go, ControlOK
  <2>. QED
    BY <1>1, <1>2, <2>1 DEF Restoring, FormatOf
<1>3. CASE fn[t] = "add"
  <2>1. pc'[t] = "read"
    BY <1>3 DEF Take, Go, ControlOK
  <2>2. PICK n : n = nxt[t] /\ n \in 1..Len(Defaults) /\ id[t] = Defaults[n] /\ Holds(n - 1)
    BY <1>1, <1>3 DEF Restoring, AddOf
  <2>3. Holds(n - 1)' /\ nxt'[t] = n /\ id'[t] = Defaults[n]
    BY <1>1, <2>2 DEF Holds, CardsHold
  <2>4. AddOf(t)'
    BY <2>1, <2>2, <2>3 DEF AddOf
  <2>. QED
    BY <1>1, <1>3, <2>4 DEF Restoring
<1>. QED
  BY <1>1, <1>2, <1>3 DEF Restoring, DefaultsOf, RevertOf

\* A failure inside the section promises nothing.
LEMMA ResetFails ==
    ASSUME NEW t \in Tasks, Restoring(t), pc[t] \in Section,
           pc'[t] = "give", res'[t] \in {"FAIL", "NO_MEM"}, UNCHANGED <<fn, id, nxt>>
    PROVE  Restoring(t)'
<1>1. CASE fn[t] = "format"
  BY <1>1 DEF Restoring, FormatOf
<1>2. CASE fn[t] = "add"
  <2>1. nxt[t] \in 1..Len(Defaults) /\ id[t] = Defaults[nxt[t]]
    BY <1>2 DEF Restoring, AddOf, Section
  <2>. QED
    BY <1>2, <2>1 DEF Restoring, AddOf
<1>3. CASE fn[t] = "revert"
  BY <1>3 DEF Restoring, RevertOf
<1>. QED
  BY <1>1, <1>2, <1>3 DEF Restoring, DefaultsOf, Section

LEMMA ResetReading ==
    ASSUME NEW t \in Tasks, Restoring(t), pc[t] = "read"
    PROVE  /\ fn[t] = "add"
           /\ \E n \in 1..Len(Defaults) : n = nxt[t] /\ id[t] = Defaults[n] /\ Holds(n - 1)
BY DEF Restoring, FormatOf, DefaultsOf, AddOf, RevertOf

LEMMA ResetReadFails ==
    ASSUME Inv, NEW t \in Tasks, Restoring(t), ReadFails(t) \/ CardsMissing(t)
    PROVE  Restoring(t)'
<1>. USE DEF Inv, Threads
<1>1. pc[t] = "read" /\ UNCHANGED <<fn, id, nxt>>
  BY DEF ReadFails, CardsMissing, calls
<1>2. fn[t] = "add"
  BY <1>1, ResetReading
<1>3. pc'[t] = "give" /\ res'[t] \in {"FAIL", "NO_MEM"}
  BY <1>2 DEF ReadFails, CardsMissing, Finish, Go, ControlOK
<1>. QED
  BY <1>1, <1>3, ResetFails DEF Section

LEMMA ResetReadAdd ==
    ASSUME Inv, NEW t \in Tasks, Restoring(t), ReadAdd(t), t \notin silent'
    PROVE  Restoring(t)'
<1>. USE DEF Inv, Threads
<1>1. pc[t] = "read" /\ fn[t] = "add" /\ UNCHANGED <<hdr, cards, fn, id, nxt>>
  BY DEF ReadAdd, Reading, calls
<1>2. PICK n \in 1..Len(Defaults) : n = nxt[t] /\ id[t] = Defaults[n] /\ Holds(n - 1)
  BY <1>1, ResetReading
<1>3. PICK h \in HdrReads(FALSE) : \E s \in CardReads(h.count, FALSE) :
         \/ Has(s, id[t])
         \/ Finish(t, "NO_MEM")
         \/ /\ h.count < h.max /\ db' = [h EXCEPT !.count = @ + 1]
            /\ Go(t, "hdr_open")
  <2>1. ~Reading(t, "add", TRUE)
    BY DEF Reading, Lost, Unnoticed
  <2>. QED
    BY <2>1 DEF ReadAdd
<1>s. PICK s \in CardReads(h.count, FALSE) :
         \/ Has(s, id[t])
         \/ Finish(t, "NO_MEM")
         \/ /\ h.count < h.max /\ db' = [h EXCEPT !.count = @ + 1]
            /\ Go(t, "hdr_open")
  BY <1>3
<1>4. h = DefaultHeader(n - 1) /\ ~Has(s, id[t])
  BY <1>2, ReadDefaults
<1>5. CASE Finish(t, "NO_MEM")
  <2>1. pc'[t] = "give" /\ res'[t] = "NO_MEM"
    BY <1>5 DEF Finish, Go, ControlOK
  <2>. QED
    BY <1>1, <2>1, ResetFails DEF Section
<1>6. CASE h.count < h.max /\ db' = [h EXCEPT !.count = @ + 1] /\ Go(t, "hdr_open")
  <2>1. n \in Nat /\ n - 1 \in Nat /\ MaxCards \in Nat
    BY DefaultsAre, SizesAssumption
  <2>2. n - 1 < MaxCards
    BY <1>4, <1>6, <2>1 DEF DefaultHeader
  <2>3. db' = DefaultHeader(n) /\ n <= MaxCards
    BY <1>4, <1>6, <2>1, <2>2 DEF DefaultHeader
  <2>4. pc'[t] = "hdr_open" /\ CardsHold(n - 1)' /\ nxt'[t] = n /\ id'[t] = Defaults[n]
    BY <1>1, <1>2, <1>6 DEF Go, ControlOK, Holds, CardsHold
  <2>5. AddOf(t)'
    BY <2>3, <2>4 DEF AddOf
  <2>. QED
    BY <1>1, <2>5 DEF Restoring
<1>. QED
  BY <1>s, <1>4, <1>5, <1>6

LEMMA ResetHdrOpen ==
    ASSUME Inv, NEW t \in Tasks, Restoring(t), HdrOpen(t)
    PROVE  Restoring(t)'
<1>. USE DEF Inv, Threads
<1>1. pc[t] = "hdr_open" /\ UNCHANGED <<cards, db, fn, id, nxt>>
  BY DEF HdrOpen, calls
<1>2. CASE Finish(t, "FAIL")
  <2>1. pc'[t] = "give" /\ res'[t] = "FAIL"
    BY <1>2 DEF Finish, Go, ControlOK
  <2>. QED
    BY <1>1, <2>1, ResetFails DEF Section
<1>3. CASE Go(t, "hdr_write")
  <2>1. pc'[t] = "hdr_write"
    BY <1>3 DEF Go, ControlOK
  <2>2. CASE fn[t] = "add"
    <3>1. PICK n : n = nxt[t]
      OBVIOUS
    <3>2. /\ n \in 1..Len(Defaults) /\ id[t] = Defaults[n]
          /\ db = DefaultHeader(n) /\ n <= MaxCards /\ CardsHold(n - 1)
      BY <1>1, <2>2, <3>1 DEF Restoring, AddOf
    <3>3. CardsHold(n - 1)' /\ nxt'[t] = n /\ id'[t] = Defaults[n] /\ db' = DefaultHeader(n)
      BY <1>1, <3>1, <3>2 DEF CardsHold
    <3>4. AddOf(t)'
      BY <2>1, <3>2, <3>3 DEF AddOf
    <3>. QED
      BY <1>1, <2>2, <3>4 DEF Restoring
  <2>3. CASE fn[t] \in {"format", "revert"}
    BY <1>1, <2>1, <2>3 DEF Restoring, FormatOf, RevertOf
  <2>. QED
    BY <1>1, <2>2, <2>3 DEF Restoring, DefaultsOf
<1>. QED
  BY <1>2, <1>3 DEF HdrOpen

LEMMA ResetHdrWrite ==
    ASSUME Inv, NEW t \in Tasks, Restoring(t), HdrWrite(t), t \notin silent'
    PROVE  Restoring(t)'
<1>. USE DEF Inv, Threads
<1>1. pc[t] = "hdr_write" /\ UNCHANGED <<cards, db, fn, id, nxt>>
  BY DEF HdrWrite, calls
<1>2. CASE Finish(t, "FAIL")
  <2>1. pc'[t] = "give" /\ res'[t] = "FAIL"
    BY <1>2 DEF Finish, Go, ControlOK
  <2>. QED
    BY <1>1, <2>1, ResetFails DEF Section
<1>3. CASE hdr' = db /\ HdrWritten(t)
  <2>1. CASE fn[t] = "format"
    <3>1. pc'[t] = "cards_del" /\ hdr' = Fresh
      BY <1>1, <1>3, <2>1 DEF HdrWritten, Go, ControlOK, Restoring, FormatOf
    <3>. QED
      BY <1>1, <2>1, <3>1 DEF Restoring, FormatOf
  <2>2. CASE fn[t] = "add"
    <3>1. PICK n : n = nxt[t]
      OBVIOUS
    <3>2. /\ n \in 1..Len(Defaults) /\ id[t] = Defaults[n]
          /\ db = DefaultHeader(n) /\ n <= MaxCards /\ CardsHold(n - 1)
      BY <1>1, <2>2, <3>1 DEF Restoring, AddOf
    <3>3. CardsHold(n - 1)' /\ nxt'[t] = n /\ id'[t] = Defaults[n] /\ db' = DefaultHeader(n)
      BY <1>1, <3>1, <3>2 DEF CardsHold
    <3>4. pc'[t] = "cards_open" /\ hdr' = DefaultHeader(n)
      BY <1>3, <2>2, <3>2 DEF HdrWritten, Go, ControlOK
    <3>5. AddOf(t)'
      BY <3>2, <3>3, <3>4 DEF AddOf
    <3>. QED
      BY <1>1, <2>2, <3>5 DEF Restoring
  <2>3. CASE fn[t] = "revert"
    <3>1. pc'[t] = "give" /\ res'[t] = "FAIL"
      BY <1>3, <2>3 DEF HdrWritten, Finish, Go, ControlOK
    <3>. QED
      BY <1>1, <3>1, ResetFails DEF Section
  <2>. QED
    BY <1>1, <2>1, <2>2, <2>3 DEF Restoring, DefaultsOf
<1>4. ~Unnoticed(t, "flush")
  BY DEF Unnoticed
<1>. QED
  BY <1>2, <1>3, <1>4 DEF HdrWrite

\* The append failed: the count is taken back, and the call will fail.
LEMMA ResetCardsFailed ==
    ASSUME Inv, NEW t \in Tasks, Restoring(t), fn[t] = "add", CardsFailed(t)
    PROVE  Restoring(t)'
<1>1. pc'[t] = "hdr_open" /\ fn'[t] = "revert"
  BY DEF CardsFailed, Go, Inv, ControlOK, Threads
<1>. QED
  BY <1>1 DEF Restoring, RevertOf

LEMMA ResetCards ==
    ASSUME NEW t \in Tasks, Restoring(t), pc[t] \in {"cards_open", "cards_write"}
    PROVE  /\ fn[t] = "add"
           /\ \E n \in 1..Len(Defaults) :
                /\ n = nxt[t] /\ id[t] = Defaults[n]
                /\ db = DefaultHeader(n) /\ n <= MaxCards /\ hdr = DefaultHeader(n)
                /\ pc[t] = "cards_open" => CardsHold(n - 1)
                /\ pc[t] = "cards_write" => cards = DefaultRecords(n - 1)
BY DEF Restoring, FormatOf, DefaultsOf, AddOf, RevertOf

LEMMA ResetCardsOpen ==
    ASSUME Inv, NEW t \in Tasks, Restoring(t), CardsOpen(t)
    PROVE  Restoring(t)'
<1>. USE DEF Inv, Threads
<1>1. pc[t] = "cards_open" /\ UNCHANGED hdr
  BY DEF CardsOpen
<1>2. fn[t] = "add" /\ \E n \in 1..Len(Defaults) :
         /\ n = nxt[t] /\ id[t] = Defaults[n]
         /\ db = DefaultHeader(n) /\ n <= MaxCards /\ hdr = DefaultHeader(n)
         /\ CardsHold(n - 1)
  BY <1>1, ResetCards
<1>3. PICK n \in 1..Len(Defaults) :
         /\ n = nxt[t] /\ id[t] = Defaults[n]
         /\ db = DefaultHeader(n) /\ n <= MaxCards /\ hdr = DefaultHeader(n)
         /\ CardsHold(n - 1)
  BY <1>2
<1>4. CASE CardsFailed(t)
  BY <1>2, <1>4, ResetCardsFailed
<1>5. CASE /\ cards' = (IF fn[t] = "add" /\ cards # NoFile THEN cards ELSE <<>>)
           /\ Go(t, "cards_write") /\ UNCHANGED <<calls, db>>
  <2>1. n - 1 \in 0..Len(Defaults) /\ n - 1 \in Nat
    BY DefaultsAre
  <2>2. cards' = DefaultRecords(n - 1)
    <3>1. CASE n - 1 = 0
      BY <1>3, <1>5, <3>1, NoDefaults DEF CardsHold
    <3>2. CASE n - 1 # 0
      <4>1. cards = DefaultRecords(n - 1)
        BY <1>3, <3>2 DEF CardsHold
      <4>2. cards # NoFile
        BY <2>1, <4>1, DefaultRecordsType
      <4>. QED
        BY <1>2, <1>5, <4>1, <4>2
    <3>. QED
      BY <3>1, <3>2
  <2>3. /\ pc'[t] = "cards_write" /\ fn'[t] = "add" /\ nxt'[t] = n /\ id'[t] = Defaults[n]
        /\ db' = DefaultHeader(n) /\ hdr' = DefaultHeader(n)
    BY <1>1, <1>2, <1>3, <1>5 DEF Go, ControlOK, calls
  <2>4. AddOf(t)'
    BY <1>3, <2>2, <2>3 DEF AddOf
  <2>. QED
    BY <2>3, <2>4 DEF Restoring
<1>. QED
  BY <1>4, <1>5 DEF CardsOpen

LEMMA ResetCardsWrite ==
    ASSUME Inv, NEW t \in Tasks, Restoring(t), CardsWrite(t), t \notin silent'
    PROVE  Restoring(t)'
<1>. USE DEF Inv, Threads
<1>1. pc[t] = "cards_write" /\ UNCHANGED hdr
  BY DEF CardsWrite
<1>2. fn[t] = "add" /\ \E n \in 1..Len(Defaults) :
         /\ n = nxt[t] /\ id[t] = Defaults[n]
         /\ n <= MaxCards /\ hdr = DefaultHeader(n) /\ cards = DefaultRecords(n - 1)
  BY <1>1, ResetCards
<1>3. PICK n \in 1..Len(Defaults) :
         /\ n = nxt[t] /\ id[t] = Defaults[n]
         /\ n <= MaxCards /\ hdr = DefaultHeader(n) /\ cards = DefaultRecords(n - 1)
  BY <1>2
<1>4. CASE CardsFailed(t)
  BY <1>2, <1>4, ResetCardsFailed
<1>5. CASE /\ cards' = (IF fn[t] = "add" THEN Append(cards, NewCard(t)) ELSE buf)
           /\ Finish(t, "OK") /\ UNCHANGED <<calls, db>>
  <2>1. cards' = DefaultRecords(n) /\ n # 0
    BY <1>2, <1>3, <1>5, DefaultAppended DEF NewCard
  <2>2. Holds(n)'
    BY <1>1, <1>3, <2>1 DEF Holds, CardsHold
  <2>3. /\ pc'[t] = "give" /\ res'[t] = "OK" /\ fn'[t] = "add" /\ nxt'[t] = n
        /\ id'[t] = Defaults[n]
    BY <1>2, <1>3, <1>5 DEF Finish, Go, ControlOK, calls
  <2>4. AddOf(t)'
    BY <2>2, <2>3 DEF AddOf
  <2>. QED
    BY <2>3, <2>4 DEF Restoring
<1>6. ~Unnoticed(t, "flush")
  BY DEF Unnoticed
<1>. QED
  BY <1>4, <1>5, <1>6 DEF CardsWrite

LEMMA ResetCardsDelete ==
    ASSUME Inv, NEW t \in Tasks, Restoring(t), CardsDelete(t), t \notin silent'
    PROVE  Restoring(t)'
<1>. USE DEF Inv, Threads
<1>1. pc[t] = "cards_del" /\ UNCHANGED <<hdr, fn>>
  BY DEF CardsDelete, calls
<1>2. fn[t] = "format" /\ hdr = Fresh
  BY <1>1 DEF Restoring, FormatOf, DefaultsOf, AddOf, RevertOf
<1>3. \A k : ~Unnoticed(t, k)
  BY DEF Unnoticed
<1>4. cards' = NoFile /\ Finish(t, "OK")
  BY <1>2, <1>3 DEF CardsDelete
<1>5. Holds(0)'
  BY <1>1, <1>2, <1>4, SizesAssumption DEF Holds, CardsHold, Fresh, DefaultHeader
<1>6. pc'[t] = "give"
  BY <1>4 DEF Finish, Go, ControlOK
<1>. QED
  BY <1>1, <1>2, <1>5, <1>6 DEF Restoring, FormatOf

LEMMA ResetGive ==
    ASSUME Inv, NEW t \in Tasks, Restoring(t), top[t] = "reset", Give(t)
    PROVE  Restoring(t)'
<1>. USE DEF Inv, Threads
<1>1. pc[t] = "give" /\ UNCHANGED <<hdr, cards>>
  BY DEF Give
<1>2. \A n : Holds(n) => Holds(n)'
  BY <1>1 DEF Holds, CardsHold
<1>3. CASE fn[t] = "format" /\ res[t] = "OK"
  <2>1. Holds(0)
    BY <1>1, <1>3 DEF Restoring, FormatOf
  <2>2. pc'[t] = "mk_exists" /\ fn'[t] = "defaults"
    BY <1>3 DEF Give, Go, Enter, ControlOK
  <2>. QED
    BY <1>2, <2>1, <2>2 DEF Restoring, DefaultsOf
<1>4. CASE fn[t] = "add" /\ res[t] = "OK"
  <2>1. PICK n : n = nxt[t] /\ n \in 1..Len(Defaults) /\ Holds(n)
    BY <1>1, <1>4 DEF Restoring, AddOf
  <2>2. LoadDefault(t, n + 1) /\ n + 1 \in Nat
    BY <1>4, <2>1, DefaultsAre DEF Give
  <2>3. CASE n + 1 > Len(Defaults)
    <3>1. n = Len(Defaults)
      BY <2>1, <2>3, DefaultsAre
    <3>2. pc'[t] = "done" /\ fn'[t] = "add" /\ Holds(Len(Defaults))'
      BY <1>2, <1>4, <2>1, <2>2, <2>3, <3>1 DEF LoadDefault, Done, Go, ControlOK
    <3>. QED
      BY <3>2 DEF Restoring, AddOf
  <2>4. CASE ~(n + 1 > Len(Defaults))
    <3>1. n + 1 \in 1..Len(Defaults) /\ (n + 1) - 1 = n
      BY <2>1, <2>4, DefaultsAre
    <3>2. pc'[t] = "take" /\ fn'[t] = "add" /\ nxt'[t] = n + 1 /\ id'[t] = Defaults[n + 1]
      BY <2>2, <2>4 DEF LoadDefault, Go, Enter, ControlOK
    <3>3. Holds(n)'
      BY <1>2, <2>1
    <3>4. AddOf(t)'
      BY <3>1, <3>2, <3>3 DEF AddOf
    <3>. QED
      BY <3>2, <3>4 DEF Restoring
  <2>. QED
    BY <2>3, <2>4
<1>5. CASE ~(fn[t] \in {"format", "add"} /\ res[t] = "OK")
  <2>1. fn[t] \in {"format", "add", "revert"} /\ res[t] # "OK"
    BY <1>1, <1>5 DEF Restoring, DefaultsOf, RevertOf
  <2>2. fn[t] = "add" => res[t] # "INVALID_STATE"
    BY <1>1 DEF Restoring, AddOf
  <2>3. pc'[t] = "done" /\ UNCHANGED <<fn, res>>
    BY <2>1, <2>2 DEF Give, Go, ControlOK
  <2>. QED
    BY <2>1, <2>3 DEF Restoring, FormatOf, AddOf, RevertOf
<1>. QED
  BY <1>3, <1>4, <1>5

\* The caller of a reset runs alone: app_main has left the API, and no other task calls.
LEMMA StepAlone ==
    ASSUME Inv, NEW u \in Threads, Step(u)
    PROVE  /\ pc[u] # "idle"
           /\ \A v \in Threads \ {u} : pc'[v] = pc[v]
           /\ Return(u) \/ \A v : v \in silent => v \in silent'
           /\ top' = top \/ pc'[u] = "idle"
<1>. USE DEF Inv
<1>1. CASE Return(u)
  BY <1>1 DEF Return, Go, ControlOK
<1>2. CASE MkExists(u) \/ MkOpen(u) \/ MkWrite(u)
  <2>1. pc[u] # "idle" /\ UNCHANGED top
    BY <1>2 DEF MkExists, MkOpen, MkWrite
  <2>2. \A v : v \in silent => v \in silent'
    BY <1>2 DEF MkExists, MkOpen, MkWrite, NoFault, Fault, Unnoticed, StatLies
  <2>3. \E p : pc' = [pc EXCEPT ![u] = p]
    BY <1>2, LoadDefaultGoes DEF MkExists, MkOpen, MkWrite, MkDone, MkFailed, Done, Go
  <2>. QED
    BY <2>1, <2>2, <2>3 DEF ControlOK
<1>3. CASE Take(u) \/ Give(u)
  BY <1>3, LoadDefaultGoes DEF Take, Give, Go, calls, ControlOK
<1>4. CASE ReadFails(u) \/ CardsMissing(u)
  <2>1. pc[u] = "read" /\ UNCHANGED top
    BY <1>4 DEF ReadFails, CardsMissing, calls
  <2>2. \A v : v \in silent => v \in silent'
    BY <1>4 DEF ReadFails, CardsMissing, Lost, NoFault, Fault, Unnoticed
  <2>3. pc' = [pc EXCEPT ![u] = "give"]
    BY <1>4 DEF ReadFails, CardsMissing, Finish, Go
  <2>. QED
    BY <2>1, <2>2, <2>3 DEF ControlOK
<1>5. CASE \/ ReadAdd(u) \/ ReadRemove(u) \/ ReadCheck(u) \/ ReadCount(u) \/ ReadList(u)
           \/ ReadJson(u) \/ ReadLoad(u) \/ ReadValid(u) \/ ReadSave(u)
  <2>1. \E f, lost : Reading(u, f, lost)
    BY <1>5 DEF ReadAdd, ReadRemove, ReadCheck, ReadCount, ReadList, ReadJson, ReadLoad, ReadValid,
       ReadSave
  <2>2. pc[u] = "read" /\ UNCHANGED top /\ \A v : v \in silent => v \in silent'
    BY <2>1 DEF Reading, calls, Lost, NoFault, Unnoticed
  <2>3. \E p : pc' = [pc EXCEPT ![u] = p]
    BY <1>5 DEF ReadAdd, ReadRemove, ReadCheck, ReadCount, ReadList, ReadJson, ReadLoad, ReadValid,
       ReadSave, Finish, Go
  <2>. QED
    BY <2>2, <2>3 DEF ControlOK
<1>6. CASE HdrOpen(u) \/ HdrWrite(u)
  <2>1. pc[u] # "idle" /\ UNCHANGED top /\ \A v : v \in silent => v \in silent'
    BY <1>6 DEF HdrOpen, HdrWrite, calls, NoFault, Fault, Unnoticed
  <2>2. \E p : pc' = [pc EXCEPT ![u] = p]
    BY <1>6 DEF HdrOpen, HdrWrite, HdrWritten, Finish, Go
  <2>. QED
    BY <2>1, <2>2 DEF ControlOK
<1>7. CASE CardsOpen(u) \/ CardsWrite(u) \/ CardsDelete(u)
  <2>1. pc[u] # "idle" /\ UNCHANGED top
    BY <1>7 DEF CardsOpen, CardsWrite, CardsDelete, CardsFailed, calls
  <2>2. \A v : v \in silent => v \in silent'
    BY <1>7 DEF CardsOpen, CardsWrite, CardsDelete, NoFault, Fault, Unnoticed
  <2>3. \E p : pc' = [pc EXCEPT ![u] = p]
    BY <1>7 DEF CardsOpen, CardsWrite, CardsDelete, CardsFailed, Finish, Go
  <2>. QED
    BY <2>1, <2>2, <2>3 DEF ControlOK
<1>. QED
  BY <1>1, <1>2, <1>3, <1>4, <1>5, <1>6, <1>7 DEF Step

LEMMA ResetStep ==
    ASSUME Inv, NEW t \in Tasks, Restoring(t), top[t] = "reset", Step(t), ~Return(t), t \notin silent'
    PROVE  Restoring(t)'
<1>1. CASE \/ ReadRemove(t) \/ ReadCheck(t) \/ ReadCount(t) \/ ReadList(t) \/ ReadJson(t)
           \/ ReadLoad(t) \/ ReadValid(t) \/ ReadSave(t)
  BY <1>1, ResetReading DEF ReadRemove, ReadCheck, ReadCount, ReadList, ReadJson, ReadLoad,
     ReadValid, ReadSave, Reading
<1>. QED
  BY <1>1, ResetMkExists, ResetMkOpen, ResetMkWrite, ResetTake, ResetReadFails, ResetReadAdd, ResetHdrOpen, ResetHdrWrite,
     ResetCardsOpen, ResetCardsWrite, ResetCardsDelete, ResetGive DEF Step

\* One task calls the API: the firmware's only caller is httpd's task.
OneCaller == \A t, u \in Tasks : t = u

LEMMA NextReset ==
    ASSUME OneCaller, Inv, ResetInv, [Next]_vars
    PROVE  ResetInv'
<1>. SUFFICES ASSUME NEW t \in Tasks, Resetting(t)' PROVE Restoring(t)'
  BY DEF ResetInv
<1>. USE TasksAssumption DEF Inv, Threads
<1>0. top'[t] = "reset" /\ pc'[t] # "idle" /\ t \notin silent'
  BY DEF Resetting
<1>1. CASE UNCHANGED vars
  <2>1. Resetting(t) /\ Restoring(t)
    BY <1>1 DEF ResetInv, Resetting, vars
  <2>. QED
    BY <1>1, <2>1 DEF vars, Restoring, FormatOf, DefaultsOf, AddOf, RevertOf, Holds, CardsHold
<1>2. ASSUME NEW u \in Tasks, Call(u) PROVE Restoring(t)'
  <2>1. u = t
    BY DEF OneCaller
  <2>2. PICK f \in Calls, i \in Ids :
           /\ top' = [top EXCEPT ![t] = f]
           /\ fn' = [fn EXCEPT ![t] = IF f = "reset" THEN "format" ELSE f]
           /\ IF f = "remove" /\ i = Admin
                THEN Done(t, "NOT_SUPPORTED")
                ELSE res' = [res EXCEPT ![t] = None] /\ Go(t, "take")
    BY <1>2, <2>1, IdsAssumption DEF Call
  <2>3. f = "reset"
    BY <1>0, <2>2 DEF ControlOK
  <2>4. fn'[t] = "format" /\ pc'[t] = "take"
    BY <2>2, <2>3 DEF Go, ControlOK
  <2>. QED
    BY <2>4 DEF Restoring, FormatOf
<1>3. ASSUME NEW u \in Threads, Step(u) PROVE Restoring(t)'
  <2>1. /\ pc[u] # "idle" /\ (top' = top \/ pc'[u] = "idle")
        /\ Return(u) \/ t \notin silent
        /\ u # t => pc'[t] = pc[t]
    BY <1>0, <1>3, StepAlone
  <2>2. u = t
    <3>1. CASE u = Main
      <4>1. ~booted
        BY <2>1, <3>1 DEF BootFirst
      <4>2. pc[t] = "idle"
        BY <4>1 DEF BootFirst
      <4>. QED
        BY <1>0, <2>1, <4>2
    <3>2. CASE u \in Tasks
      BY <3>2 DEF OneCaller
    <3>. QED
      BY <3>1, <3>2
  <2>3. top[t] = "reset" /\ Restoring(t) /\ ~Return(t)
    <3>1. ~Return(t)
      BY <1>0 DEF Return, Go, ControlOK
    <3>. QED
      BY <1>0, <2>1, <2>2, <3>1 DEF ResetInv, Resetting
  <2>. QED
    BY <1>0, <1>3, <2>2, <2>3, ResetStep
<1>4. CASE Crash
  BY <1>0, <1>4 DEF Crash
<1>. QED
  BY <1>1, <1>2, <1>3, <1>4 DEF Next

\* rfid_manager_reset_to_defaults is a remedy for every corruption: whatever header and
\* cards file faults and restarts have left, and for any default cards and room for
\* them, a reset that returns ESP_OK leaves exactly the default cards; for one caller,
\* and as long as no fault during the reset is silent.
THEOREM ResetIsRemedy == ASSUME OneCaller PROVE Spec => []ResetRestores
<1>1. Init => Inv /\ ResetInv
  <2>1. Init => ResetInv
    BY DEF Init, ResetInv, Resetting, Threads
  <2>. QED
    BY <2>1, InitInv
<1>2. Inv /\ ResetInv /\ [Next]_vars => (Inv /\ ResetInv)'
  BY NextInv, NextReset
<1>3. Inv /\ ResetInv => ResetRestores
  <2>. SUFFICES ASSUME Inv, ResetInv, NEW t \in Tasks,
                       top[t] = "reset", pc[t] = "done", res[t] = "OK", t \notin silent
                PROVE  /\ Intact
                       /\ cards = [k \in DOMAIN Defaults |-> [id |-> Defaults[k], active |-> TRUE]]
    BY DEF ResetRestores
  <2>. DEFINE n == Len(Defaults)
  <2>1. Holds(n)
    BY DEF ResetInv, Resetting, Restoring, FormatOf, DefaultsOf, AddOf, RevertOf
  <2>2. n \in Nat /\ n # 0 /\ DOMAIN Defaults = 1..n /\ n \in 0..n
    BY DefaultsAre
  <2>3. cards = DefaultRecords(n) /\ hdr = DefaultHeader(n) /\ n <= MaxCards
    BY <2>1, <2>2 DEF Holds, CardsHold
  <2>4. /\ cards \in Seq(Record) /\ Len(cards) = n /\ cards # NoFile
        /\ hdr \in Header /\ hdr.count = n /\ hdr.max = MaxCards
    BY <2>2, <2>3, DefaultRecordsType, DefaultHeaderType
  <2>5. DOMAIN cards = 1..n /\ \A k \in 1..n : cards[k] = [id |-> Defaults[k], active |-> TRUE]
    BY <2>3 DEF DefaultRecords
  <2>6. \A k \in DOMAIN cards : cards[k] \in Record /\ cards[k].active
    <3>1. \A k \in 1..n : [id |-> Defaults[k], active |-> TRUE] \in Record
      BY DefaultsAre DEF Record
    <3>2. \A k \in 1..n : [id |-> Defaults[k], active |-> TRUE].active
      OBVIOUS
    <3>. QED
      BY <2>5, <3>1, <3>2
  <2>7. \A j, k \in DOMAIN cards : cards[j].id = cards[k].id => j = k
    <3>1. \A k \in 1..n : cards[k].id = Defaults[k]
      BY <2>5
    <3>. QED
      BY <2>5, <3>1, DefaultsAre
  <2>8. Intact
    BY <2>3, <2>4, <2>6, <2>7 DEF Intact
  <2>. QED
    BY <2>2, <2>3, <2>8 DEF DefaultRecords
<1>. QED
  BY <1>1, <1>2, <1>3, PTL DEF Spec
=============================================================================
