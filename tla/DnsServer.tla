------------------------------ MODULE DnsServer ------------------------------
(* The DNS redirect task: components/app_local_server/dns_server.c, and the *)
(* table of socket descriptors it shares with httpd.                        *)
(*                                                                          *)
(* lwIP gives out the lowest free descriptor, and close(fd) closes whatever *)
(* socket fd names now: a task that closes a descriptor twice may close a   *)
(* socket another task has opened in between.                               *)
EXTENDS Integers, Sequences, FiniteSets

CONSTANTS
    Fds,          \* descriptors left over by httpd's own three sockets
    MaxSessions,  \* max_open_sockets of httpd
    Queries,      \* datagrams: [ad, opt, questions, fits]
    Errors,       \* calls that may fail: "bind", "recv", "send"
    None          \* no reply

ASSUME FdsAssumption == Fds \subseteq Nat /\ MaxSessions \in Nat
ASSUME QueriesAssumption ==
    /\ Queries # {}
    /\ Queries \subseteq [ad : BOOLEAN, opt : BOOLEAN, fits : BOOLEAN, questions : Seq({"A", "AAAA"})]
ASSUME ErrorsAssumption == Errors \subseteq {"bind", "recv", "send"}

Records == {"OPT", "A", "zero"}
Replies == [an_count : Nat, ar_count : {0, 1}, records : Seq(Records)]

VARIABLES
    table,        \* what each descriptor is open for
    pc,           \* point of dns_server_task; "dead" once it is deleted
    sock,         \* its local variable
    bound,        \* the socket it made last is bound to DNS_PORT
    query, reply, \* the datagram received last, and the answer to it
    failed,       \* recvfrom has failed before
    held          \* descriptors of httpd's sessions, as httpd believes

server == <<pc, sock, bound, query, reply, failed>>
vars == <<table, server, held>>

TypeOK ==
    /\ table \in [Fds -> {"free", "dns", "http"}]
    /\ pc \in {"socket", "bind", "recv", "parse", "send", "teardown", "dead"}
    /\ sock \in Fds
    /\ bound \in BOOLEAN
    /\ query \in Queries
    /\ reply \in Replies \cup {None}
    /\ failed \in BOOLEAN
    /\ held \subseteq Fds

Free == {f \in Fds : table[f] = "free"}
Lowest(S) == {f \in S : \A g \in S : f <= g}
Open(f, who) == table' = [table EXCEPT ![f] = who]
close(f) == table' = [table EXCEPT ![f] = "free"]

-----------------------------------------------------------------------------
(* parse_dns_request.  OPCODE_MASK is applied to the flags in network order,*)
(* where it covers AD and not the opcode; "fits" stands for the length      *)
(* checks of the request, the reply and the names; "opt" is the additional  *)
(* record (EDNS) that most resolvers put behind their question.             *)

\* Mutant: the pointer to the answer advances before the answer is written.
SlotsLate(q) ==
    [i \in DOMAIN q.questions |-> IF i = 2 /\ q.questions[1] = "A" THEN "A" ELSE "zero"]

\* The loop never advances cur_ans_ptr nor cur_qd_ptr: it writes the answer to
\* the first question again and again, and leaves the other records zero.
Slots(q) ==
    [i \in DOMAIN q.questions |-> IF i = 1 /\ q.questions[1] = "A" THEN "A" ELSE "zero"]

\* What the request has behind its questions.
Additional(q) == IF q.opt THEN <<"OPT">> ELSE <<>>

\* Mutant: the last question is not counted.
parse_dns_request_less(q) ==
    IF q.ad \/ ~q.fits THEN None
    ELSE [an_count |-> Len(q.questions) - 1, ar_count |-> Len(Additional(q)),
          records |-> Additional(q) \o Slots(q)]

\* The reply is the whole request with its count of additional records, and
\* the answers behind that; only an_count is set.
parse_dns_request(q) ==
    IF q.ad \/ ~q.fits THEN None
    ELSE [an_count |-> Len(q.questions), ar_count |-> Len(Additional(q)),
          records |-> Additional(q) \o Slots(q)]

-----------------------------------------------------------------------------
(* dns_server_task                                                          *)

CreateSocket ==
    /\ pc = "socket" /\ pc' = "bind"
    /\ \E f \in Lowest(Free) : sock' = f /\ Open(f, "dns")
    /\ UNCHANGED <<bound, query, reply, failed, held>>

\* socket() fails: the task leaves its loop and deletes itself.
NoSocket ==
    /\ pc = "socket" /\ Free = {}
    /\ pc' = "dead"
    /\ UNCHANGED <<table, sock, bound, query, reply, failed, held>>

\* The result of bind is only logged.
Bind ==
    /\ pc = "bind" /\ pc' = "recv"
    /\ bound' \in {TRUE} \cup (IF "bind" \in Errors THEN {FALSE} ELSE {})
    /\ UNCHANGED <<table, sock, query, reply, failed, held>>

\* A datagram, or what arrives on the socket of httpd that sock now names.
Receive ==
    /\ pc = "recv"
    /\ table[sock] = "http" \/ (table[sock] = "dns" /\ bound)
    /\ query' \in Queries /\ pc' = "parse"
    /\ UNCHANGED <<table, sock, bound, reply, failed, held>>

\* recvfrom fails: the socket is closed here, and again below.
ReceiveFails ==
    /\ pc = "recv" /\ ("recv" \in Errors \/ table[sock] = "free")
    /\ close(sock) /\ pc' = "teardown" /\ failed' = TRUE
    /\ UNCHANGED <<sock, bound, query, reply, held>>

Parse ==
    /\ pc = "parse"
    /\ reply' = parse_dns_request(query)
    /\ pc' = IF reply' = None THEN "recv" ELSE "send"
    /\ UNCHANGED <<table, sock, bound, query, failed, held>>

\* Mutant: the socket is closed on this path as it is on the other one.
SendClosing ==
    /\ pc = "send"
    /\ \/ pc' = "recv" /\ UNCHANGED table
       \/ "send" \in Errors /\ close(sock) /\ pc' = "teardown"
    /\ UNCHANGED <<sock, bound, query, reply, failed, held>>

Send ==
    /\ pc = "send"
    /\ \/ pc' = "recv"
       \/ ("send" \in Errors \/ table[sock] = "free") /\ pc' = "teardown"
    /\ UNCHANGED <<table, sock, bound, query, reply, failed, held>>

\* Mutant: the old socket is left open.
TeardownNot ==
    /\ pc = "teardown" /\ pc' = "socket"
    /\ UNCHANGED <<table, sock, bound, query, reply, failed, held>>

\* shutdown, and close of the descriptor, whoever has it now.
Teardown ==
    /\ pc = "teardown" /\ close(sock) /\ pc' = "socket"
    /\ UNCHANGED <<sock, bound, query, reply, failed, held>>

-----------------------------------------------------------------------------
(* httpd's sessions.  One is closed when the peer hangs up, or to make room *)
(* for another (lru_purge_enable).                                          *)

Accept ==
    /\ Cardinality(held) < MaxSessions
    /\ \E f \in Lowest(Free) : Open(f, "http") /\ held' = held \cup {f}
    /\ UNCHANGED server

HangUp ==
    /\ \E f \in held : close(f) /\ held' = held \ {f}
    /\ UNCHANGED server

-----------------------------------------------------------------------------
\* The task has made its first socket: app_main starts it before the radio, and
\* with it the first session.
Init ==
    /\ sock \in Lowest(Fds)
    /\ table = [f \in Fds |-> IF f = sock THEN "dns" ELSE "free"]
    /\ pc = "bind" /\ bound = FALSE
    /\ query = CHOOSE q \in Queries : TRUE
    /\ reply = None
    /\ failed = FALSE
    /\ held = {}

Serve == CreateSocket \/ NoSocket \/ Bind \/ Receive \/ ReceiveFails \/ Parse \/ Send \/ Teardown
Next == Serve \/ Accept \/ HangUp
Spec == Init /\ [][Next]_vars

-----------------------------------------------------------------------------
(* Properties.                                                              *)

\* The task never has more than one socket open, however often it makes a new
\* one after an error: recovering does not eat up the descriptors.
OneSocket == \A f, g \in Fds : table[f] = "dns" /\ table[g] = "dns" => f = g

\* As long as recvfrom has not failed, the task and httpd never touch each
\* other's sockets, whatever else fails and however often sockets are remade:
\* what the task waits on or closes is its own, and every session of httpd is
\* still open.  (The path of a receive error closes the descriptor twice.)
OwnSockets ==
    ~failed =>
        /\ pc \in {"bind", "recv", "parse", "send", "teardown"} => table[sock] = "dns"
        /\ \A f \in held : table[f] = "http"

\* The answer section, as the receiver finds it: the first an_count records.
Answers(r) == SubSeq(r.records, 1, r.an_count)

\* README "Redirects all DNS A-type queries to AP IP": the answer section of the
\* reply to a single question of type A is the address, and nothing else,
\* exactly when the query has no additional record; such a record (OPT) comes
\* to stand where the answer belongs, and the address behind it.
PlainQueryRedirected ==
    pc = "send" /\ query.questions = <<"A">> => (Answers(reply) = <<"A">> <=> ~query.opt)

\* README "Automatic socket recovery": an error on the socket leads to a new
\* socket, never to the end of the server.
AutomaticSocketRecovery == pc # "dead"
=============================================================================
