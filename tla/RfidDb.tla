------------------------------- MODULE RfidDb -------------------------------
(* What rfid_manager promises its callers: a bounded set of cards on which  *)
(* every call takes effect at one moment between its invocation and its     *)
(* reply, although the code spreads each update over two files.  Reset is   *)
(* the exception: it clears the set and then adds the default cards one     *)
(* after the other, and calls of other tasks may fall in between.           *)
EXTENDS Integers, Sequences, FiniteSets

CONSTANTS Tasks, Ids, Admin, Defaults, MaxCards,
          MallocFails,  \* a call may fail for want of heap
          None

Ops == {"add", "remove", "check", "count", "list", "json", "valid", "save", "format", "reset"}

VARIABLES members,  \* ids of the cards in the database
          op, arg,  \* each task's call; "boot" when it has none
          reply,    \* its result, None until the call has taken effect
          todo,     \* a reset in progress: 0 to clear, k to add Defaults[k]
          booted

vars == <<members, op, arg, reply, todo, booted>>

Answer(t, r) == reply' = [reply EXCEPT ![t] = r]
Pending(t, o) == booted /\ op[t] = o /\ reply[t] = None /\ UNCHANGED <<op, arg, booted>>
Full == Cardinality(members) >= MaxCards
DefaultIds == {Defaults[k] : k \in DOMAIN Defaults}

\* Boot adds the default cards that are missing, as far as there is room.
Boot ==
    /\ ~booted
    /\ \/ \E i \in DefaultIds : ~Full /\ members' = members \cup {i} /\ UNCHANGED booted
       \/ /\ DefaultIds \subseteq members \/ Full \/ MallocFails
          /\ booted' = TRUE /\ UNCHANGED members
    /\ UNCHANGED <<op, arg, reply, todo>>

Invoke(t) ==
    /\ booted /\ op[t] = "boot"
    /\ \E o \in Ops, i \in Ids :
         /\ op' = [op EXCEPT ![t] = o]
         /\ arg' = [arg EXCEPT ![t] = i]
         /\ Answer(t, IF o = "remove" /\ i = Admin THEN "NOT_SUPPORTED" ELSE None)
    /\ UNCHANGED <<members, todo, booted>>

Respond(t) ==
    /\ op[t] # "boot" /\ reply[t] # None
    /\ op' = [op EXCEPT ![t] = "boot"]
    /\ arg' = [arg EXCEPT ![t] = Admin]
    /\ Answer(t, None)
    /\ UNCHANGED <<members, todo, booted>>

NoMemory(t) ==
    /\ MallocFails /\ \E o \in {"add", "remove", "check"} : Pending(t, o)
    /\ Answer(t, "NO_MEM") /\ UNCHANGED <<members, todo>>

Add(t) ==
    /\ Pending(t, "add") /\ UNCHANGED todo
    /\ \/ arg[t] \in members /\ Answer(t, "INVALID_STATE") /\ UNCHANGED members
       \/ arg[t] \notin members /\ Full /\ Answer(t, "NO_MEM") /\ UNCHANGED members
       \/ arg[t] \notin members /\ ~Full /\ Answer(t, "OK") /\ members' = members \cup {arg[t]}

Remove(t) ==
    /\ Pending(t, "remove") /\ UNCHANGED todo
    /\ \/ arg[t] \notin members /\ Answer(t, "NOT_FOUND") /\ UNCHANGED members
       \/ /\ arg[t] \in members /\ arg[t] # Admin
          /\ Answer(t, "OK") /\ members' = members \ {arg[t]}

Check(t) ==
    /\ Pending(t, "check") /\ UNCHANGED <<members, todo>>
    /\ Answer(t, IF arg[t] \in members THEN "OK" ELSE "NOT_FOUND")

\* The answers' data is left out: the set may be too large for the caller's
\* buffer, which is what NO_MEM says.
Query(t) ==
    /\ \E o \in {"count", "list", "json"} : Pending(t, o)
    /\ \/ Answer(t, "OK")
       \/ op[t] # "count" /\ Answer(t, "NO_MEM")
    /\ UNCHANGED <<members, todo>>

\* The database is always valid, and saving it changes nothing.
ValidOrSave(t) ==
    /\ Pending(t, "valid") \/ Pending(t, "save")
    /\ Answer(t, "OK") /\ UNCHANGED <<members, todo>>

Format(t) == Pending(t, "format") /\ Answer(t, "OK") /\ members' = {} /\ UNCHANGED todo

Reset(t) ==
    /\ Pending(t, "reset")
    /\ \/ /\ todo[t] = 0
          /\ members' = {} /\ todo' = [todo EXCEPT ![t] = 1] /\ UNCHANGED reply
       \/ /\ todo[t] \in DOMAIN Defaults
          /\ Defaults[todo[t]] \in members \/ ~Full
          /\ members' = members \cup {Defaults[todo[t]]}
          /\ todo' = [todo EXCEPT ![t] = @ + 1] /\ UNCHANGED reply
       \/ /\ todo[t] \in DOMAIN Defaults
          /\ MallocFails \/ (Full /\ Defaults[todo[t]] \notin members)
          /\ Answer(t, "NO_MEM") /\ todo' = [todo EXCEPT ![t] = 0] /\ UNCHANGED members
       \/ /\ todo[t] > Len(Defaults)
          /\ Answer(t, "OK") /\ todo' = [todo EXCEPT ![t] = 0] /\ UNCHANGED members

Init ==
    /\ members = {}
    /\ op = [t \in Tasks |-> "boot"]
    /\ arg = [t \in Tasks |-> Admin]
    /\ reply = [t \in Tasks |-> None]
    /\ todo = [t \in Tasks |-> 0]
    /\ booted = FALSE

Next ==
    \/ Boot
    \/ \E t \in Tasks :
         \/ Invoke(t) \/ Respond(t) \/ NoMemory(t)
         \/ Add(t) \/ Remove(t) \/ Check(t) \/ Query(t) \/ ValidOrSave(t) \/ Format(t) \/ Reset(t)

Spec == Init /\ [][Next]_vars
=============================================================================
