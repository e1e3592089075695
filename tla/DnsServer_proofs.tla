-------------------------- MODULE DnsServer_proofs --------------------------
(* Proofs about DnsServer, for any number of descriptors and sessions, any  *)
(* set of datagrams and any of the errors.                                  *)
EXTENDS DnsServer, SequenceTheorems, TLAPS

\* The only socket the task may have open is the one its variable names, and
\* it has none when it is about to make one or is gone.
Single == \A f \in Fds : table[f] = "dns" => f = sock /\ pc \notin {"socket", "dead"}

\* httpd's sessions are the descriptors that are open for it.
Sessions == ~failed => \A f \in Fds : table[f] = "http" <=> f \in held

\* A reply ready to be sent is what parse_dns_request made of the query.
Prepared == pc = "send" => reply = parse_dns_request(query) /\ reply # None

Inv == TypeOK /\ Single /\ OwnSockets /\ Sessions /\ Prepared

-----------------------------------------------------------------------------
\* parse_dns_request: one record for every question that is counted, behind the
\* additional record of the request.
LEMMA ReplyType ==
    ASSUME NEW q \in Queries, ~q.ad, q.fits
    PROVE  /\ parse_dns_request(q) \in Replies
           /\ Slots(q) \in Seq(Records) /\ Len(Slots(q)) = Len(q.questions)
           /\ \A i \in 1..Len(q.questions) :
                Slots(q)[i] = IF i = 1 /\ q.questions[1] = "A" THEN "A" ELSE "zero"
  <1>1. q.questions \in Seq({"A", "AAAA"}) /\ Len(q.questions) \in Nat
    BY QueriesAssumption
  <1>2. Slots(q) \in Seq(Records)
    BY <1>1 DEF Slots, Records
  <1>3. Additional(q) \in Seq(Records) /\ Len(Additional(q)) \in {0, 1}
    <2>1. <<"OPT">> \in Seq(Records) /\ Len(<<"OPT">>) = 1
      BY DEF Records
    <2>2. <<>> \in Seq(Records) /\ Len(<<>>) = 0
      BY EmptySeq
    <2> QED
      BY <2>1, <2>2 DEF Additional
  <1>4. Additional(q) \o Slots(q) \in Seq(Records)
    BY <1>2, <1>3
  <1> QED
    BY <1>1, <1>2, <1>3, <1>4 DEF parse_dns_request, Slots, Replies

\* The task has made its first socket and bound nothing yet.
LEMMA InitInv == Init => Inv
  <1> SUFFICES ASSUME Init PROVE Inv
    OBVIOUS
  <1>1. TypeOK
    BY QueriesAssumption DEF Init, TypeOK, Lowest
  <1> QED
    BY <1>1 DEF Init, Inv, Single, OwnSockets, Sessions, Prepared, Lowest

\* The steps that change the descriptor table.
LEMMA TableInv ==
    Inv /\ (CreateSocket \/ ReceiveFails \/ Teardown \/ Accept \/ HangUp) => Inv'
  <1> SUFFICES ASSUME Inv, CreateSocket \/ ReceiveFails \/ Teardown \/ Accept \/ HangUp
               PROVE  Inv'
    OBVIOUS
  <1> USE DEF Inv, server, Open, close
  <1>1. CASE CreateSocket
    <2> PICK f \in Lowest(Free) : sock' = f /\ Open(f, "dns")
      BY <1>1 DEF CreateSocket
    <2>1. f \in Fds /\ table[f] = "free"
      BY DEF Lowest, Free
    <2> QED
      BY <1>1, <2>1 DEF CreateSocket, TypeOK, Single, OwnSockets, Sessions, Prepared
  <1>2. CASE ReceiveFails
    BY <1>2 DEF ReceiveFails, TypeOK, Single, OwnSockets, Sessions, Prepared
  <1>3. CASE Teardown
    BY <1>3 DEF Teardown, TypeOK, Single, OwnSockets, Sessions, Prepared
  <1>4. CASE Accept
    <2> PICK f \in Lowest(Free) : Open(f, "http") /\ held' = held \cup {f}
      BY <1>4 DEF Accept
    <2>1. f \in Fds /\ table[f] = "free"
      BY DEF Lowest, Free
    <2> QED
      BY <1>4, <2>1 DEF Accept, TypeOK, Single, OwnSockets, Sessions, Prepared
  <1>5. CASE HangUp
    <2> PICK f \in held : close(f) /\ held' = held \ {f}
      BY <1>5 DEF HangUp
    <2> QED
      BY <1>5 DEF HangUp, TypeOK, Single, OwnSockets, Sessions, Prepared
  <1> QED
    BY <1>1, <1>2, <1>3, <1>4, <1>5

\* The steps that leave it alone.
LEMMA ServeInv == Inv /\ (NoSocket \/ Bind \/ Receive \/ Parse \/ Send) => Inv'
  <1> SUFFICES ASSUME Inv, NoSocket \/ Bind \/ Receive \/ Parse \/ Send PROVE Inv'
    OBVIOUS
  <1> USE DEF Inv
  <1>1. CASE NoSocket
    BY <1>1 DEF NoSocket, Free, TypeOK, Single, OwnSockets, Sessions, Prepared
  <1>2. CASE Bind
    BY <1>2 DEF Bind, TypeOK, Single, OwnSockets, Sessions, Prepared
  <1>3. CASE Receive
    BY <1>3 DEF Receive, TypeOK, Single, OwnSockets, Sessions, Prepared
  <1>4. CASE Parse
    <2>1. reply' \in Replies \cup {None}
      BY <1>4, ReplyType DEF Parse, TypeOK, parse_dns_request
    <2> QED
      BY <1>4, <2>1 DEF Parse, TypeOK, Single, OwnSockets, Sessions, Prepared
  <1>5. CASE Send
    BY <1>5 DEF Send, TypeOK, Single, OwnSockets, Sessions, Prepared
  <1> QED
    BY <1>1, <1>2, <1>3, <1>4, <1>5

\* The invariant holds in every reachable state.
THEOREM DnsInvariance == Spec => []Inv
  <1>1. Inv /\ [Next]_vars => Inv'
    <2> SUFFICES ASSUME Inv, [Next]_vars PROVE Inv'
      OBVIOUS
    <2>1. CASE UNCHANGED vars
      BY <2>1 DEF vars, server, Inv, TypeOK, Single, OwnSockets, Sessions, Prepared
    <2> QED
      BY <2>1, TableInv, ServeInv DEF Next, Serve
  <1> QED
    BY <1>1, InitInv, PTL DEF Spec

\* Every variable has its type, whatever a datagram asks and the table holds; in
\* particular each reply is one that can be sent, or none.
THEOREM DnsTypeCorrect == Spec => []TypeOK
  <1>1. Inv => TypeOK
    BY DEF Inv
  <1> QED
    BY <1>1, DnsInvariance, PTL

\* Recovering from errors never leaves a second socket behind.
THEOREM NoSocketLeak == Spec => []OneSocket
  <1>1. Inv => OneSocket
    BY DEF Inv, Single, OneSocket
  <1> QED
    BY <1>1, DnsInvariance, PTL

\* Until recvfrom fails, the task and httpd keep to their own sockets.
THEOREM SocketsApart == Spec => []OwnSockets
  <1>1. Inv => OwnSockets
    BY DEF Inv
  <1> QED
    BY <1>1, DnsInvariance, PTL

\* A single question of type A gets the address as its only answer exactly when
\* the query has no additional record, in whatever order datagrams and errors come.
THEOREM Redirects == Spec => []PlainQueryRedirected
  <1>1. Inv => PlainQueryRedirected
    <2> SUFFICES ASSUME Inv, pc = "send", query.questions = <<"A">>
                 PROVE  Answers(reply) = <<"A">> <=> ~query.opt
      BY DEF PlainQueryRedirected
    <2>1. query \in Queries /\ ~query.ad /\ query.fits
      BY DEF Inv, TypeOK, Prepared, parse_dns_request
    <2>2. reply.an_count = 1 /\ reply.records = Additional(query) \o Slots(query)
      BY <2>1 DEF Inv, Prepared, parse_dns_request
    <2>3. Slots(query) = <<"A">>
      BY DEF Slots
    <2>3a. <<"A">> \in Seq(Records) /\ Len(<<"A">>) = 1 /\ <<"A">>[1] = "A"
      BY DEF Records
    <2>3b. <<"OPT">> \in Seq(Records) /\ Len(<<"OPT">>) = 1 /\ <<"OPT">>[1] = "OPT"
      BY DEF Records
    <2>4. CASE ~query.opt
      <3>1. reply.records = <<"A">>
        BY <2>2, <2>3, <2>3a, <2>4, ConcatEmptySeq DEF Additional
      <3>2. Answers(reply) = SubSeq(<<"A">>, 1, 1)
        BY <2>2, <3>1 DEF Answers
      <3>3. SubSeq(<<"A">>, 1, 1) = <<"A">>
        <4> DEFINE v == <<"A">>
                   w == SubSeq(v, 1, 1)
        <4>1. v \in Seq(Records) /\ Len(v) = 1 /\ v[1] = "A"
          BY <2>3a
        <4> HIDE DEF v
        <4>2. w \in Seq(Records) /\ Len(w) = 1 /\ w[1] = "A"
          <5>1. \A k \in 1..1 : v[k] \in Records
            BY <4>1 DEF Records
          <5>2. /\ w \in Seq(Records) /\ Len(w) = (IF 1 <= 1 THEN 1 - 1 + 1 ELSE 0)
                /\ \A k \in 1..(1 - 1 + 1) : w[k] = v[1 + k - 1]
            BY <5>1, SubSeqProperties
          <5> QED
            BY <4>1, <5>2
        <4> HIDE DEF w
        <4>3. \A k \in 1..Len(w) : w[k] = v[k]
          BY <4>1, <4>2
        <4>4. w = v
          BY <4>1, <4>2, <4>3, SeqEqual
        <4> QED
          BY <4>4 DEF v, w
      <3> QED
        BY <2>4, <3>2, <3>3
    <2>5. CASE query.opt
      <3>1. reply.records = <<"OPT">> \o <<"A">>
        BY <2>2, <2>3, <2>5 DEF Additional
      <3>2. Answers(reply)[1] = (<<"OPT">> \o <<"A">>)[1]
        BY <2>2, <2>3a, <2>3b, <3>1, ConcatProperties, SubSeqProperties DEF Answers
      <3>3. (<<"OPT">> \o <<"A">>)[1] = "OPT"
        BY <2>3a, <2>3b, ConcatProperties
      <3> QED
        BY <2>3a, <2>5, <3>2, <3>3
    <2> QED
      BY <2>4, <2>5
  <1> QED
    BY <1>1, DnsInvariance, PTL
=============================================================================
