---------------------------- MODULE RfidManager ----------------------------
(* The RFID card database: components/rfid_manager/rfid_manager.c over      *)
(* components/spiffs_storage/spiffs_storage.c, and the part of main/main.c  *)
(* that starts it.                                                          *)
(*                                                                          *)
(* The database is two SPIFFS files that no operation writes together: the  *)
(* header (count, max) and the array of card records.  An operation runs    *)
(* under rfid_mutex and reads both files, then rewrites the header, then    *)
(* appends to, rewrites or deletes the cards file.  Each fopen, write and   *)
(* unlink is a step of its own: other tasks, a fault of the file system or  *)
(* a power cut fall between them.  A step meets at most one fault.          *)
EXTENDS Integers, Sequences

CONSTANTS
    Tasks,         \* tasks that call the API once the firmware is up (httpd)
    Main,          \* the task of app_main, which initialises the database
    Ids,           \* card ids
    Admin,         \* ADMIN_CARD_ID
    Defaults,      \* ids of default_cards, in order
    MaxCards,      \* the max_cards that new headers get (200 in the code)
    Counts,        \* values an uninitialised uint16_t may hold
    Calls,         \* the public functions the tasks call
    Faults,        \* kinds of file system or heap fault that may happen
    MaxFaults,     \* bound: how many of them
    MaxCrashes,    \* bound: how many power cuts or esp_restart calls
    NoFile, Torn,  \* file does not exist; incomplete header or record
    None           \* no owner; no result yet

\* fopen fails; fwrite is short; what was written is lost at fclose, whose
\* result nobody reads; fread is short on an intact file, which read_file
\* passes over; stat fails, which file_exists takes for "no such file".
FaultKinds == {"open", "short", "flush", "read", "stat", "unlink", "malloc"}

ASSUME TasksAssumption == None \notin Tasks \cup {Main} /\ Main \notin Tasks
ASSUME IdsAssumption == Admin \in Ids /\ Defaults \in Seq(Ids)
\* default_cards is a constant table of three different ids.
ASSUME DefaultsAssumption ==
    Defaults # <<>> /\ \A j, k \in DOMAIN Defaults : Defaults[j] = Defaults[k] => j = k
ASSUME SizesAssumption ==
    MaxCards \in Nat /\ Counts \subseteq Nat /\ MaxFaults \in Nat /\ MaxCrashes \in Nat
ASSUME FaultsAssumption == Faults \subseteq FaultKinds

Threads == Tasks \cup {Main}
Record == [id : Ids, active : BOOLEAN]
Header == [count : Nat, max : Nat]
ASSUME FilesAssumption ==
    /\ NoFile # Torn
    /\ Torn \notin Record
    /\ NoFile \notin Header /\ Torn \notin Header
    /\ NoFile \notin Seq(Record \cup {Torn})

\* Public functions; "reset" is format_database, then load_defaults.
Api == {"add", "remove", "check", "count", "list", "json",
        "valid", "save", "format", "reset"}
\* What a thread is in: an API function, a step of boot, or add_card's revert.
Functions == (Api \ {"reset"}) \cup {"init", "defaults", "load", "revert"}
ASSUME CallsAssumption == Calls \subseteq Api
TakesId == {"add", "remove", "check"}
ReadsCards == TakesId \cup {"list", "json"}
Allocates == TakesId \cup {"json"}
Results == {"OK", "FAIL", "NO_MEM", "INVALID_STATE", "NOT_FOUND", "NOT_SUPPORTED"}
ASSUME NoneAssumption == None \notin Results

\* Program points inside rfid_mutex, and the unlocked header creation.
Section == {"read", "hdr_open", "hdr_write", "cards_open", "cards_write",
            "cards_del", "give"}
Creating == {"mk_open", "mk_write"}
Points == Section \cup Creating \cup {"idle", "mk_exists", "take", "done"}

VARIABLES
    hdr,      \* rfid_database.bin
    cards,    \* rfid_cards.bin
    owner,    \* holder of rfid_mutex
    db, buf,  \* the holder's locals: header to write, cards to write
    pc,       \* program point of each thread
    top,      \* the public function each task is in, or "boot"
    fn,       \* the function each thread is in
    id,       \* its card_id argument
    nxt,      \* load_defaults' loop index
    res,      \* result of the function, None until it is known
    booted,   \* app_main is past load_defaults
    failures, \* faults so far
    silent,   \* threads whose current call met a fault it was not told of
    misled,   \* threads that a failing stat told that the header is missing
    crashes

faults == <<failures, silent, misled>>
files == <<hdr, cards>>
locals == <<db, buf>>
calls == <<top, fn, id, nxt>>
vars == <<hdr, cards, owner, db, buf, pc, top, fn, id, nxt, res, booted, faults, crashes>>

Fresh == [count |-> 0, max |-> MaxCards]

TypeOK ==
    /\ hdr \in Header \cup {NoFile, Torn}
    /\ cards \in Seq(Record \cup {Torn}) \cup {NoFile}
    /\ owner \in Threads \cup {None}
    /\ db \in Header
    /\ buf \in Seq(Record)
    /\ pc \in [Threads -> Points]
    /\ top \in [Threads -> Api \cup {"boot"}]
    /\ fn \in [Threads -> Functions]
    /\ id \in [Threads -> Ids]
    /\ nxt \in [Threads -> Nat \ {0}]
    /\ res \in [Threads -> Results \cup {None}]
    /\ booted \in BOOLEAN
    /\ failures \in Nat /\ silent \in SUBSET Threads /\ misled \in SUBSET Threads
    /\ crashes \in Nat

-----------------------------------------------------------------------------
(* Reading.  spiffs_storage_read_file reports success after a short read,   *)
(* so what a file lacks, or what a failing fread did not deliver ("lost"),  *)
(* stays uninitialised in the caller's buffer.                              *)

Garbage == [count : Counts, max : Counts]
HdrReads(lost) ==
    ({hdr} \cap Header) \cup (IF lost \/ hdr \notin Header THEN Garbage ELSE {})

\* Record i is where the reader expects it: nothing before it is incomplete.
Aligned(i) == i \in DOMAIN cards /\ \A j \in 1..i : cards[j] # Torn

CardReads(n, lost) ==
    {s \in [1..n -> Record] : \A i \in 1..n : ~lost /\ Aligned(i) => s[i] = cards[i]}

\* fopen of the cards file succeeds, or the count says there is nothing to read.
Loaded(h) == h.count = 0 \/ cards # NoFile

Has(s, i) == \E k \in DOMAIN s : s[k].id = i
First(s, i) == CHOOSE k \in DOMAIN s : s[k].id = i /\ \A j \in 1..(k - 1) : s[j].id # i
\* Mutant: the shift starts one record late.
WithoutLate(s, k) == [j \in 1..(Len(s) - 1) |-> IF j <= k THEN s[j] ELSE s[j + 1]]
\* remove_card's loop that shifts the records after k down by one.
Without(s, k) == [j \in 1..(Len(s) - 1) |-> IF j < k THEN s[j] ELSE s[j + 1]]

\* is_database_valid's comparison of the file's size with count records.
SizeMatches(h) == Len(cards) = h.count /\ \A j \in DOMAIN cards : cards[j] # Torn

-----------------------------------------------------------------------------
(* Steps shared by the functions.                                           *)

Go(t, p) == pc' = [pc EXCEPT ![t] = p]
Finish(t, r) == Go(t, "give") /\ res' = [res EXCEPT ![t] = r]
NoFault == UNCHANGED faults
Happens(k) == k \in Faults /\ failures < MaxFaults /\ failures' = failures + 1
\* A fault that the code is told of; one behind a call that succeeds; and a
\* stat that fails for the header although the file is there.
Fault(k) == Happens(k) /\ UNCHANGED <<silent, misled>>
Unnoticed(t, k) == Happens(k) /\ silent' = silent \cup {t} /\ UNCHANGED misled
StatLies(t) == Happens("stat") /\ misled' = misled \cup {t} /\ UNCHANGED silent
Lost(t, lost) == IF lost THEN Unnoticed(t, "read") ELSE NoFault

Done(t, r) == Go(t, "done") /\ res' = [res EXCEPT ![t] = r]

Enter(t, f) == fn' = [fn EXCEPT ![t] = f] /\ res' = [res EXCEPT ![t] = None]

\* load_defaults: after default card n - 1 has been dealt with.
LoadDefault(t, n) ==
    /\ nxt' = [nxt EXCEPT ![t] = n]
    /\ IF n > Len(Defaults)
         THEN Done(t, "OK") /\ UNCHANGED <<fn, id>>
         ELSE /\ Go(t, "take")
              /\ Enter(t, "add")
              /\ id' = [id EXCEPT ![t] = Defaults[n]]

\* The public function returns; app_main ignores the result and goes on.
Return(t) ==
    /\ pc[t] = "done"
    /\ Go(t, "idle")
    /\ top' = [top EXCEPT ![t] = "boot"]
    /\ fn' = [fn EXCEPT ![t] = "init"]
    /\ id' = [id EXCEPT ![t] = Admin]
    /\ nxt' = [nxt EXCEPT ![t] = 1]
    /\ res' = [res EXCEPT ![t] = None]
    /\ booted' = (booted \/ t = Main)
    /\ silent' = silent \ {t} /\ misled' = misled \ {t}
    /\ UNCHANGED <<hdr, cards, owner, db, buf, failures, crashes>>

-----------------------------------------------------------------------------
(* rfid_manager_init and rfid_manager_load_defaults (boot and reset) create *)
(* a header that file_exists does not see, without taking the mutex.        *)

\* The header is there: init loads it, load_defaults turns to the first card.
MkDone(t) ==
    IF fn[t] = "init"
      THEN Go(t, "take") /\ Enter(t, "load") /\ UNCHANGED <<id, nxt>>
      ELSE LoadDefault(t, 1)

\* Its creation failed: app_main calls load_defaults after a failed init all
\* the same; load_defaults returns.
MkFailed(t) ==
    IF fn[t] = "init"
      THEN Go(t, "mk_exists") /\ Enter(t, "defaults") /\ UNCHANGED <<id, nxt>>
      ELSE Done(t, "FAIL") /\ UNCHANGED <<fn, id, nxt>>

MkExists(t) ==
    /\ pc[t] = "mk_exists"
    /\ \/ hdr = NoFile /\ NoFault /\ Go(t, "mk_open") /\ UNCHANGED <<fn, id, nxt, res>>
       \/ hdr # NoFile /\ NoFault /\ MkDone(t)
       \/ hdr # NoFile /\ StatLies(t) /\ Go(t, "mk_open") /\ UNCHANGED <<fn, id, nxt, res>>
    /\ UNCHANGED <<hdr, cards, owner, db, buf, top, booted, crashes>>

MkOpen(t) ==
    /\ pc[t] = "mk_open"
    /\ \/ hdr' = Torn /\ Go(t, "mk_write") /\ NoFault /\ UNCHANGED <<fn, id, nxt, res>>
       \/ Fault("open") /\ MkFailed(t) /\ UNCHANGED hdr
    /\ UNCHANGED <<cards, owner, db, buf, top, booted, crashes>>

MkWrite(t) ==
    /\ pc[t] = "mk_write"
    /\ \/ hdr' = Fresh /\ MkDone(t) /\ NoFault
       \/ Fault("short") /\ MkFailed(t) /\ UNCHANGED hdr
       \/ Unnoticed(t, "flush") /\ MkDone(t) /\ UNCHANGED hdr
    /\ UNCHANGED <<cards, owner, db, buf, top, booted, crashes>>

-----------------------------------------------------------------------------
(* The API.  remove_card refuses the admin card before it takes the mutex.  *)

Call(t) ==
    /\ booted /\ pc[t] = "idle"
    /\ \E f \in Calls : \E i \in IF f \in TakesId THEN Ids ELSE {Admin} :
         /\ top' = [top EXCEPT ![t] = f]
         /\ fn' = [fn EXCEPT ![t] = IF f = "reset" THEN "format" ELSE f]
         /\ id' = [id EXCEPT ![t] = i]
         /\ IF f = "remove" /\ i = Admin
              THEN Done(t, "NOT_SUPPORTED")
              ELSE res' = [res EXCEPT ![t] = None] /\ Go(t, "take")
    /\ UNCHANGED <<hdr, cards, owner, db, buf, nxt, booted, faults, crashes>>

\* Mutant: the section is entered whoever holds the mutex.
TakeUnlocked(t) ==
    /\ pc[t] = "take" /\ owner' = t
    /\ IF fn[t] = "format"
         THEN db' = Fresh /\ Go(t, "hdr_open")
         ELSE Go(t, "read") /\ UNCHANGED db
    /\ UNCHANGED <<hdr, cards, buf, calls, res, booted, faults, crashes>>

Take(t) ==
    /\ pc[t] = "take" /\ owner = None
    /\ owner' = t
    /\ IF fn[t] = "format"
         THEN db' = Fresh /\ Go(t, "hdr_open")
         ELSE Go(t, "read") /\ UNCHANGED db
    /\ UNCHANGED <<hdr, cards, buf, calls, res, booted, faults, crashes>>

Reading(t, f, lost) ==
    /\ pc[t] = "read" /\ fn[t] = f /\ hdr # NoFile
    /\ Lost(t, lost)
    /\ UNCHANGED <<hdr, cards, owner, calls, booted, crashes>>

\* The header file is missing or cannot be opened, file_exists does not see
\* one of the two files, or malloc fails.
ReadFails(t) ==
    /\ pc[t] = "read"
    /\ \/ hdr = NoFile /\ NoFault
          /\ Finish(t, IF fn[t] = "load" THEN "NOT_FOUND" ELSE "FAIL")
       \/ hdr # NoFile /\ Fault("open") /\ Finish(t, "FAIL")
       \/ /\ hdr # NoFile /\ Fault("stat") /\ fn[t] \in {"load", "valid"}
          /\ Finish(t, IF fn[t] = "load" THEN "NOT_FOUND" ELSE "FAIL")
       \/ /\ hdr # NoFile /\ Fault("stat") /\ fn[t] = "load"
          /\ \E h \in HdrReads(FALSE) : h.count > 0
          /\ Finish(t, "INVALID_STATE")
       \/ /\ hdr # NoFile /\ Fault("malloc") /\ fn[t] \in Allocates
          /\ \E h \in HdrReads(FALSE) : h.count > 0
          /\ Finish(t, "NO_MEM")
    /\ UNCHANGED <<hdr, cards, owner, db, buf, calls, booted, crashes>>

\* The count promises records but the cards file is missing.
CardsMissing(t) ==
    /\ pc[t] = "read" /\ fn[t] \in ReadsCards /\ hdr # NoFile
    /\ \E lost \in BOOLEAN :
         Lost(t, lost) /\ \E h \in HdrReads(lost) : ~Loaded(h)
    /\ Finish(t, "FAIL")
    /\ UNCHANGED <<hdr, cards, owner, db, buf, calls, booted, crashes>>

ReadAdd(t) ==
    /\ \E lost \in BOOLEAN : Reading(t, "add", lost) /\
         \E h \in HdrReads(lost) : Loaded(h) /\ \E s \in CardReads(h.count, lost) :
           \/ Has(s, id[t]) /\ Finish(t, "INVALID_STATE") /\ UNCHANGED db
           \/ ~Has(s, id[t]) /\ h.count >= h.max /\ Finish(t, "NO_MEM") /\ UNCHANGED db
           \/ /\ ~Has(s, id[t]) /\ h.count < h.max
              /\ db' = [h EXCEPT !.count = @ + 1]
              /\ Go(t, "hdr_open") /\ UNCHANGED res
    /\ UNCHANGED buf

ReadRemove(t) ==
    \E lost \in BOOLEAN : Reading(t, "remove", lost) /\
      \E h \in HdrReads(lost) : Loaded(h) /\ \E s \in CardReads(h.count, lost) :
        \/ ~Has(s, id[t]) /\ Finish(t, "NOT_FOUND") /\ UNCHANGED locals
        \/ /\ Has(s, id[t])
           /\ db' = [h EXCEPT !.count = @ - 1]
           /\ buf' = Without(s, First(s, id[t]))
           /\ Go(t, "hdr_open") /\ UNCHANGED res

ReadCheck(t) ==
    /\ \E lost \in BOOLEAN : Reading(t, "check", lost) /\
         \E h \in HdrReads(lost) : Loaded(h) /\ \E s \in CardReads(h.count, lost) :
           Finish(t, IF ~Has(s, id[t]) THEN "NOT_FOUND"
                     ELSE IF s[First(s, id[t])].active THEN "OK" ELSE "INVALID_STATE")
    /\ UNCHANGED locals

\* get_card_count answers with the header's count (0, like FAIL here, when it
\* cannot read it).
ReadCount(t) ==
    /\ \E lost \in BOOLEAN : Reading(t, "count", lost)
    /\ Finish(t, "OK") /\ UNCHANGED locals

\* list_cards fills the caller's buffer, if it is large enough.
ReadList(t) ==
    /\ \E lost \in BOOLEAN : Reading(t, "list", lost) /\
         \E h \in HdrReads(lost) :
           \/ h.count > 0 /\ Finish(t, "NO_MEM")
           \/ Loaded(h) /\ Finish(t, "OK")
    /\ UNCHANGED locals

\* get_card_list_json truncates what the caller's buffer has no room for, and
\* says so.
ReadJson(t) ==
    /\ \E lost \in BOOLEAN : Reading(t, "json", lost) /\
         \E h \in HdrReads(lost) : Loaded(h) /\ \E r \in {"OK", "NO_MEM"} : Finish(t, r)
    /\ UNCHANGED locals

\* load_from_file and is_database_valid (whose false is FAIL here).
Acceptable(h) == h.count <= h.max /\ Loaded(h)

ReadLoad(t) ==
    /\ \E lost \in BOOLEAN : Reading(t, "load", lost) /\
         \E h \in HdrReads(lost) : Finish(t, IF Acceptable(h) THEN "OK" ELSE "INVALID_STATE")
    /\ UNCHANGED locals

ReadValid(t) ==
    /\ \E lost \in BOOLEAN : Reading(t, "valid", lost) /\
         \E h \in HdrReads(lost) :
           Finish(t, IF Acceptable(h) /\ (h.count = 0 \/ SizeMatches(h)) THEN "OK" ELSE "FAIL")
    /\ UNCHANGED locals

ReadSave(t) ==
    /\ \E lost \in BOOLEAN : Reading(t, "save", lost) /\ \E h \in HdrReads(lost) : db' = h
    /\ Go(t, "hdr_open") /\ UNCHANGED <<buf, res>>

-----------------------------------------------------------------------------
(* Writing.  fopen("wb") empties the file; fwrite may report a short write  *)
(* ("short"), or the data may be lost at fclose, whose result nobody reads  *)
(* ("flush").                                                               *)

\* Mutant: format_database leaves the cards file to the next add_card.
HdrWrittenKeeping(t) ==
    CASE fn[t] = "add" -> Go(t, "cards_open") /\ UNCHANGED res
      [] fn[t] = "remove" -> Go(t, IF db.count > 0 THEN "cards_open" ELSE "cards_del")
                             /\ UNCHANGED res
      [] fn[t] \in {"save", "format"} -> Finish(t, "OK")
      [] OTHER -> Finish(t, "FAIL")

\* What follows a header write that reported success.
HdrWritten(t) ==
    CASE fn[t] = "add" -> Go(t, "cards_open") /\ UNCHANGED res
      [] fn[t] = "remove" -> Go(t, IF db.count > 0 THEN "cards_open" ELSE "cards_del")
                             /\ UNCHANGED res
      [] fn[t] = "format" -> Go(t, "cards_del") /\ UNCHANGED res
      [] fn[t] = "save" -> Finish(t, "OK")
      [] OTHER -> Finish(t, "FAIL")

\* Mutant: the old header is deleted before the new one is written.
HdrOpenUnlinking(t) ==
    /\ pc[t] = "hdr_open"
    /\ \/ hdr' = NoFile /\ Go(t, "hdr_write") /\ NoFault /\ UNCHANGED res
       \/ Fault("open") /\ Finish(t, "FAIL") /\ UNCHANGED hdr
    /\ UNCHANGED <<cards, owner, db, buf, calls, booted, crashes>>

HdrOpen(t) ==
    /\ pc[t] = "hdr_open"
    /\ \/ hdr' = Torn /\ Go(t, "hdr_write") /\ NoFault /\ UNCHANGED res
       \/ Fault("open") /\ Finish(t, "FAIL") /\ UNCHANGED hdr
    /\ UNCHANGED <<cards, owner, db, buf, calls, booted, crashes>>

\* Mutant: a short header write returns without giving the mutex back.
HdrWriteKeeping(t) ==
    /\ pc[t] = "hdr_write"
    /\ \/ hdr' = db /\ HdrWritten(t) /\ NoFault
       \/ Fault("short") /\ Done(t, "FAIL") /\ UNCHANGED hdr
       \/ Unnoticed(t, "flush") /\ HdrWritten(t) /\ UNCHANGED hdr
    /\ UNCHANGED <<cards, owner, db, buf, calls, booted, crashes>>

HdrWrite(t) ==
    /\ pc[t] = "hdr_write"
    /\ \/ hdr' = db /\ HdrWritten(t) /\ NoFault
       \/ Fault("short") /\ Finish(t, "FAIL") /\ UNCHANGED hdr
       \/ Unnoticed(t, "flush") /\ HdrWritten(t) /\ UNCHANGED hdr
    /\ UNCHANGED <<cards, owner, db, buf, calls, booted, crashes>>

\* Mutant: the count is taken back twice.
CardsFailedTwice(t) ==
    IF fn[t] = "add"
      THEN /\ Go(t, "hdr_open") /\ UNCHANGED <<top, id, nxt, res>>
           /\ fn' = [fn EXCEPT ![t] = "revert"]
           /\ db' = [db EXCEPT !.count = @ - 2]
      ELSE Finish(t, "FAIL") /\ UNCHANGED <<top, fn, id, nxt, db>>

\* add_card takes its count back when the append fails; remove_card does not.
CardsFailed(t) ==
    IF fn[t] = "add"
      THEN /\ Go(t, "hdr_open") /\ UNCHANGED <<top, id, nxt, res>>
           /\ fn' = [fn EXCEPT ![t] = "revert"]
           /\ db' = [db EXCEPT !.count = @ - 1]
      ELSE Finish(t, "FAIL") /\ UNCHANGED <<top, fn, id, nxt, db>>

CardsOpen(t) ==
    /\ pc[t] = "cards_open"
    /\ \/ /\ cards' = IF fn[t] = "add" /\ cards # NoFile THEN cards ELSE <<>>
          /\ Go(t, "cards_write") /\ NoFault /\ UNCHANGED <<calls, res, db>>
       \/ Fault("open") /\ CardsFailed(t) /\ UNCHANGED cards
    /\ UNCHANGED <<hdr, owner, buf, booted, crashes>>

NewCard(t) == [id |-> id[t], active |-> TRUE]
\* The cards file after a write that was cut short.
Partial(t) ==
    IF fn[t] = "add"
      THEN {cards, Append(cards, Torn)}
      ELSE UNION {{SubSeq(buf, 1, k), Append(SubSeq(buf, 1, k), Torn)} : k \in 0..(Len(buf) - 1)}

CardsWrite(t) ==
    /\ pc[t] = "cards_write"
    /\ \/ /\ cards' = IF fn[t] = "add" THEN Append(cards, NewCard(t)) ELSE buf
          /\ Finish(t, "OK") /\ NoFault /\ UNCHANGED <<calls, db>>
       \/ Fault("short") /\ cards' \in Partial(t) /\ CardsFailed(t)
       \/ Unnoticed(t, "flush") /\ cards' \in Partial(t) /\ Finish(t, "OK") /\ UNCHANGED <<calls, db>>
    /\ UNCHANGED <<hdr, owner, buf, booted, crashes>>

\* The cards file is deleted if file_exists sees it.  delete_file asks once
\* more, then calls unlink: format_database carries on when either fails ("not
\* a critical error"), remove_card reports it.
CardsDelete(t) ==
    /\ pc[t] = "cards_del"
    /\ \/ cards' = NoFile /\ Finish(t, "OK") /\ NoFault
       \/ cards # NoFile /\ UNCHANGED cards /\ Unnoticed(t, "stat") /\ Finish(t, "OK")
       \/ /\ cards # NoFile /\ UNCHANGED cards
          /\ \E k \in {"stat", "unlink"} :
               IF fn[t] = "format"
                 THEN Unnoticed(t, k) /\ Finish(t, "OK")
                 ELSE Fault(k) /\ Finish(t, "FAIL")
    /\ UNCHANGED <<hdr, owner, db, buf, calls, booted, crashes>>

\* The section ends; boot and reset go on to their next call.
Give(t) ==
    /\ pc[t] = "give"
    /\ owner' = None /\ db' = Fresh /\ buf' = <<>>
    /\ CASE fn[t] = "load" \/ (fn[t] = "format" /\ top[t] = "reset" /\ res[t] = "OK") ->
              Go(t, "mk_exists") /\ Enter(t, "defaults") /\ UNCHANGED <<id, nxt>>
         [] fn[t] = "add" /\ top[t] \in {"boot", "reset"} /\ res[t] \in {"OK", "INVALID_STATE"} ->
              LoadDefault(t, nxt[t] + 1)
         [] OTHER -> Go(t, "done") /\ UNCHANGED <<fn, id, nxt, res>>
    /\ UNCHANGED <<hdr, cards, top, booted, faults, crashes>>

-----------------------------------------------------------------------------
(* A power cut, or the esp_restart of a finished update: RAM is lost, and a *)
(* card write in progress may have reached the flash in part.               *)

Booting(t) == IF t = Main THEN "mk_exists" ELSE "idle"

Crash ==
    /\ crashes < MaxCrashes
    /\ crashes' = crashes + 1
    /\ cards' \in {cards} \cup UNION {Partial(t) : t \in {u \in Threads : pc[u] = "cards_write"}}
    /\ owner' = None /\ db' = Fresh /\ buf' = <<>>
    /\ pc' = [t \in Threads |-> Booting(t)]
    /\ top' = [t \in Threads |-> "boot"]
    /\ fn' = [t \in Threads |-> "init"]
    /\ id' = [t \in Threads |-> Admin]
    /\ nxt' = [t \in Threads |-> 1]
    /\ res' = [t \in Threads |-> None]
    /\ booted' = FALSE
    /\ silent' = {} /\ misled' = {}
    /\ UNCHANGED <<hdr, failures>>

Init ==
    /\ hdr = NoFile /\ cards = NoFile
    /\ owner = None /\ db = Fresh /\ buf = <<>>
    /\ pc = [t \in Threads |-> Booting(t)]
    /\ top = [t \in Threads |-> "boot"]
    /\ fn = [t \in Threads |-> "init"]
    /\ id = [t \in Threads |-> Admin]
    /\ nxt = [t \in Threads |-> 1]
    /\ res = [t \in Threads |-> None]
    /\ booted = FALSE
    /\ failures = 0 /\ silent = {} /\ misled = {} /\ crashes = 0

Step(t) ==
    \/ MkExists(t) \/ MkOpen(t) \/ MkWrite(t)
    \/ Take(t)
    \/ ReadFails(t) \/ CardsMissing(t)
    \/ ReadAdd(t) \/ ReadRemove(t) \/ ReadCheck(t)
    \/ ReadCount(t) \/ ReadList(t) \/ ReadJson(t)
    \/ ReadLoad(t) \/ ReadValid(t) \/ ReadSave(t)
    \/ HdrOpen(t) \/ HdrWrite(t)
    \/ CardsOpen(t) \/ CardsWrite(t) \/ CardsDelete(t)
    \/ Give(t) \/ Return(t)

Next ==
    \/ \E t \in Tasks : Call(t)
    \/ \E t \in Threads : Step(t)
    \/ Crash

Spec == Init /\ [][Next]_vars

-----------------------------------------------------------------------------
(* Properties.                                                              *)

Resting == booted /\ owner = None

\* The two files agree: as many records as the header counts, none of them
\* incomplete or inactive, no id twice, and no more than the header allows.
Intact ==
    /\ hdr \in Header
    /\ IF cards = NoFile THEN hdr.count = 0 ELSE Len(cards) = hdr.count
    /\ hdr.count <= hdr.max /\ hdr.max = MaxCards
    /\ cards # NoFile =>
         /\ \A k \in DOMAIN cards : cards[k] \in Record /\ cards[k].active
         /\ \A j, k \in DOMAIN cards : cards[j].id = cards[k].id => j = k

\* Whenever nobody holds rfid_mutex, the header and the cards file agree:
\* every function leaves the two files as a pair it could have started from,
\* on its early returns too (README "Thread-Safe Operations").
Consistent == Resting => Intact

\* rfid_manager_init and load_defaults write a header outside rfid_mutex.  At
\* boot that write never overlaps a call of another task.  After boot, in a
\* reset, it happens only when a failing stat hides the header that is there:
\* no other fault, restart or order of calls makes the header disappear
\* between format_database and load_defaults.
CreationIsAlone ==
    \A t \in Threads : pc[t] \in Creating =>
        /\ t \in Tasks => t \in misled
        /\ t = Main => owner = None /\ \A u \in Tasks : pc[u] = "idle"

\* The remedy the README offers for a corrupted database: once a reset has
\* returned ESP_OK, the database is intact and holds the default cards, and
\* nothing else, whatever crashes and failures went before it, and whatever
\* failed during it that the code was told of.  (For one caller.  The rest is
\* silent: a lost flush, a short fread, and the stat or unlink whose failure
\* makes format_database keep the old cards.)
ResetRestores ==
    \A t \in Tasks : top[t] = "reset" /\ pc[t] = "done" /\ res[t] = "OK" /\ t \notin silent =>
        Intact /\ cards = [k \in DOMAIN Defaults |-> [id |-> Defaults[k], active |-> TRUE]]

\* Every call returns, whatever fails in it: no function of the API keeps
\* rfid_mutex for the next caller, or for the later steps of a reset, to wait
\* for.
EveryCallReturns == \A t \in Threads : []<>(pc[t] = "idle")

\* format_database carries on when the cards file cannot be deleted, "not a
\* critical error": the reset that returns ESP_OK after it leaves an intact
\* database.
UnlinkFailureNotCritical ==
    \A t \in Tasks : top[t] = "reset" /\ pc[t] = "done" /\ res[t] = "OK" => Intact

\* "Database Integrity: Checksum validation and file size verification": when
\* is_database_valid says yes, the header it judged was one that was written.
ValidMeansWritten ==
    \A t \in Tasks : pc[t] = "give" /\ fn[t] = "valid" /\ res[t] = "OK" => hdr \in Header

\* FreeRTOS runs every ready task, and serves the waiters of a mutex in order.
Fairness == \A t \in Threads : WF_vars(Step(t)) /\ SF_vars(Take(t))
FairSpec == Spec /\ Fairness

-----------------------------------------------------------------------------
(* Refinement.  Without file system faults the cards file is the database,  *)
(* except while remove_card rewrites it.                                    *)

CardIds(s) == {s[k].id : k \in DOMAIN s}
Rewriter == {t \in Threads : pc[t] = "cards_write" /\ fn[t] = "remove"}
Members ==
    IF Rewriter # {} THEN CardIds(buf) \cup {id[t] : t \in Rewriter}
    ELSE IF cards = NoFile THEN {} ELSE CardIds(cards)

InReset(t) == top[t] = "reset" /\ pc[t] # "done"
Todo(t) ==
    CASE ~InReset(t) -> 0
      [] InReset(t) /\ fn[t] = "format" -> IF res[t] = "OK" THEN 1 ELSE 0
      [] InReset(t) /\ fn[t] = "defaults" -> 1
      [] OTHER -> IF res[t] \in {"OK", "INVALID_STATE"} THEN nxt[t] + 1 ELSE nxt[t]

Abstract == INSTANCE RfidDb WITH
    members <- Members,
    op <- [t \in Tasks |-> top[t]],
    arg <- [t \in Tasks |-> IF top[t] = "reset" THEN Admin ELSE id[t]],
    reply <- [t \in Tasks |-> IF InReset(t) THEN None ELSE res[t]],
    todo <- [t \in Tasks |-> Todo(t)],
    MallocFails <- "malloc" \in Faults

\* Every call acts on the set of cards at one moment, although it writes two
\* files in several steps and other tasks call meanwhile.
ImplementsRfidDb == Abstract!Spec
=============================================================================
