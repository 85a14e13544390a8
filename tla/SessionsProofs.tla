--------------------------- MODULE SessionsProofs ---------------------------
(***************************************************************************)
(* What Sessions promises, for any number of connections, identities,      *)
(* places in the table and calls.  SessionsInv is the inductive invariant: *)
(* the table and the connections point at each other (Bound), the history  *)
(* of what was served agrees with the counter of every live session        *)
(* (Counted), and a client used as intended is in step with the server     *)
(* (InStep).                                                               *)
(***************************************************************************)
EXTENDS Sessions, FiniteSetTheorems, SequenceTheorems, TLAPS

(* The identities a record may hold; 0 is that of a client not connected. *)
Ident == Identities \cup {0}

Entry == [identity : Ident, last : Nat]

Request ==
  [type : {"Hello", "Request", "Goodbye"}, session : Nat, identity : Ident, seq : Nat, call : Nat]

Response ==
  [type : {"Hello", "Request", "Goodbye"}, ok : BOOLEAN, session : Nat, call : Nat]

(* What validate() let through. *)
Service == [conn : Conns, session : Nat, identity : Ident, seq : Nat]

Connection == [up : BOOLEAN, session : Nat, farewell : BOOLEAN]

ClientObject ==
  [identity : Ident, session : Nat, seq : Nat, call : Nat, hello : BOOLEAN,
   waiting : BOOLEAN, connected : BOOLEAN, honest : BOOLEAN]

(* The types of the server's state and of the clients' and the streams'. *)
ServerType ==
  /\ counter \in Nat
  /\ DOMAIN table \subseteq 1..counter
  /\ table \in [DOMAIN table -> Entry]
  /\ conn \in [Conns -> Connection]
  /\ served \in Seq(Service)

StreamType ==
  /\ client \in [Conns -> ClientObject]
  /\ queue \in [Conns -> Seq(Request)]
  /\ answers \in [Conns -> Seq(Response)]

(* The table and the connections point at each other. *)
Bound ==
  /\ Cardinality(DOMAIN table) <= MaxSessions
  /\ \A k \in Conns : conn[k].session # 0 => conn[k].up /\ conn[k].session \in DOMAIN table
  /\ \A s \in DOMAIN table : \E k \in Conns : conn[k].session = s
  /\ \A j, k \in Conns : conn[j].session # 0 /\ conn[j].session = conn[k].session => j = k

(* The positions in the history at which session s was served. *)
ServedUnder(s) == {m \in 1..Len(served) : served[m].session = s}

(* The counter of a live session is the number of requests served under it, all of
   them over its connection and with its identity; no session is served before it is
   established. *)
Counted ==
  /\ \A m \in 1..Len(served) : served[m].session \in 1..counter
  /\ \A s \in DOMAIN table :
       /\ table[s].last = Cardinality(ServedUnder(s))
       /\ \A m \in ServedUnder(s) : /\ served[m].identity = table[s].identity
                                    /\ conn[served[m].conn].session = s

(* A call is in the stream of connection k: none while nobody waits, else one. *)
OneInFlight(k) ==
  /\ client[k].connected /\ conn[k].up
  /\ Len(queue[k]) + Len(answers[k]) = (IF client[k].waiting THEN 1 ELSE 0)
  /\ answers[k] # <<>> => /\ answers[k][1].call = client[k].call
                          /\ answers[k][1].type = "Hello" => client[k].hello
  /\ queue[k] # <<>> => /\ queue[k][1].call = client[k].call
                        /\ queue[k][1].type = "Hello" => client[k].hello
                        /\ queue[k][1].identity = client[k].identity
                        /\ queue[k][1].type # "Hello" =>
                             /\ queue[k][1].session = client[k].session
                             /\ queue[k][1].seq = client[k].seq

Asked(k, types) == queue[k] # <<>> /\ queue[k][1].type \in types

(* The answer to the Hello that established the session is on its way. *)
Established(k) == answers[k] # <<>> /\ answers[k][1].type = "Hello" /\ answers[k][1].ok

(* The sequence of a client that knows its session: one ahead of the server exactly
   while a token is on its way, and out of reach after a goodbye. *)
SequenceAgrees(k) ==
  LET last == table[conn[k].session].last
  IN /\ client[k].session = conn[k].session
     /\ conn[k].farewell => client[k].seq > last /\ (Asked(k, {"Request"}) => client[k].seq > last + 1)
     /\ ~conn[k].farewell =>
          client[k].seq = IF Asked(k, {"Request", "Goodbye"}) THEN last + 1 ELSE last

(* The client of connection k and the server agree. *)
Agrees(k) ==
  /\ conn[k].session = 0 => ~Established(k) /\ ~conn[k].farewell
  /\ conn[k].session # 0 =>
       /\ table[conn[k].session].identity = client[k].identity
       /\ IF Established(k)
          THEN /\ answers[k][1].session = conn[k].session
               /\ table[conn[k].session].last = 0
               /\ ~conn[k].farewell
          ELSE SequenceAgrees(k)

HonestAgrees(k) == client[k].honest => OneInFlight(k) /\ Agrees(k)

InStep == \A k \in Conns : HonestAgrees(k)

SessionsInv == ServerType /\ StreamType /\ Bound /\ Counted /\ ServedInSequence /\ InStep
-----------------------------------------------------------------------------
(* Every step is one of the actions, on one connection. *)
ClientStep(k) ==
  \/ \E i \in Identities, old \in 0..counter : Connect(k, i, old)
  \/ SendHello(k) \/ EncodeFails(k) \/ Receive(k) \/ ReceiveFails(k) \/ Close(k)
  \/ \E type \in {"Request", "Goodbye"} : SendRequest(k, type)
  \/ \E s \in 1..counter, i \in Identities, seq \in 1..MaxSeq : SendRaw(k, s, i, seq)

ServerStep(k) ==
  Establish(k) \/ RefuseHello(k) \/ Serve(k) \/ RefuseRequest(k) \/ AnswerGoodbye(k) \/ Teardown(k)

LEMMA NextCases ==
  ASSUME Next
  PROVE  \E k \in Conns : ClientStep(k) \/ ServerStep(k)
BY DEF Next, ClientStep, ServerStep

(* A request leaves the queue and its answer enters the other stream. *)
LEMMA AnswerType ==
  ASSUME StreamType, NEW k \in Conns, NEW ok \in BOOLEAN, NEW s \in Nat,
         queue[k] # <<>>, Answer(k, ok, s)
  PROVE  /\ queue' \in [Conns -> Seq(Request)]
         /\ answers' \in [Conns -> Seq(Response)]
<1>1. queue[k] \in Seq(Request) /\ answers[k] \in Seq(Response)
  BY DEF StreamType
<1>2. Head(queue[k]) \in Request /\ Tail(queue[k]) \in Seq(Request)
  BY <1>1
<1>3. [type |-> Head(queue[k]).type, ok |-> ok, session |-> s, call |-> Head(queue[k]).call]
        \in Response
  BY <1>2 DEF Request, Response
<1>4. QED
  BY <1>1, <1>2, <1>3 DEF StreamType, Answer

LEMMA SendType ==
  ASSUME StreamType, NEW k \in Conns, NEW type \in {"Hello", "Request", "Goodbye"},
         NEW s \in Nat, NEW i \in Ident, NEW seq \in Nat, Send(k, type, s, i, seq)
  PROVE  queue' \in [Conns -> Seq(Request)]
<1>1. client[k] \in ClientObject
  BY DEF StreamType
<1>2. client[k].call + 1 \in Nat
  BY <1>1 DEF ClientObject
<1>3. Frame(type, s, i, seq, client[k].call + 1) \in Request
  BY <1>2 DEF Frame, Request
<1>4. queue[k] \in Seq(Request)
  BY DEF StreamType
<1>5. QED
  BY <1>3, <1>4 DEF StreamType, Send

(* A client step leaves the server alone, but for the connection it may open. *)
LEMMA ClientTypeStep ==
  ASSUME ServerType, StreamType, NEW k \in Conns, ClientStep(k)
  PROVE  ServerType' /\ StreamType'
<1>1. client[k] \in ClientObject /\ queue[k] \in Seq(Request) /\ answers[k] \in Seq(Response)
  BY DEF StreamType
<1>2. /\ client[k].identity \in Ident /\ client[k].session \in Nat
      /\ client[k].seq \in Nat /\ client[k].call \in Nat
      /\ client[k].call + 1 \in Nat /\ client[k].seq + 1 \in Nat
  BY <1>1 DEF ClientObject
<1>3. ASSUME NEW i \in Identities, NEW old \in 0..counter, Connect(k, i, old)
      PROVE  ServerType' /\ StreamType'
  <2>1. old \in Nat
    BY DEF ServerType
  <2>2. [NoClient EXCEPT !.identity = i, !.session = old, !.connected = TRUE, !.honest = TRUE]
          \in ClientObject
    BY <2>1 DEF NoClient, ClientObject, Ident
  <2>3. [NoConn EXCEPT !.up = TRUE] \in Connection
    BY DEF NoConn, Connection
  <2>4. StreamType'
    BY <1>3, <2>2 DEF Connect, StreamType
  <2>5. QED
    BY <1>3, <2>3, <2>4 DEF Connect, ServerType
<1>4. CASE SendHello(k)
  <2>1. queue' \in [Conns -> Seq(Request)]
    BY <1>2, <1>4, SendType DEF SendHello
  <2>2. client' \in [Conns -> ClientObject]
    BY <1>2, <1>4, ZenonT(30) DEF SendHello, StreamType, ClientObject
  <2>3. QED
    BY <1>4, <2>1, <2>2 DEF SendHello, StreamType, ServerType, server
<1>5. ASSUME NEW type \in {"Request", "Goodbye"}, SendRequest(k, type)
      PROVE  ServerType' /\ StreamType'
  <2>1. queue' \in [Conns -> Seq(Request)]
    BY <1>2, <1>5, SendType DEF SendRequest
  <2>2. client' \in [Conns -> ClientObject]
    <3>1. ASSUME NEW a \in Nat, NEW b \in Nat
          PROVE  [client EXCEPT ![k].call = a, ![k].seq = b, ![k].hello = FALSE, ![k].waiting = TRUE]
                   \in [Conns -> ClientObject]
      BY ZenonT(30) DEF StreamType, ClientObject
    <3>2. QED
      BY <1>2, <1>5, <3>1 DEF SendRequest
  <2>3. QED
    BY <1>5, <2>1, <2>2 DEF SendRequest, StreamType, ServerType, server
<1>6. CASE EncodeFails(k)
  <2>1. client' \in [Conns -> ClientObject]
    <3>1. ASSUME NEW a \in Nat, NEW b \in Nat
          PROVE  [client EXCEPT ![k].call = a, ![k].seq = b, ![k].honest = FALSE]
                   \in [Conns -> ClientObject]
      BY ZenonT(30) DEF StreamType, ClientObject
    <3>2. QED
      BY <1>2, <1>6, <3>1 DEF EncodeFails
  <2>2. QED
    BY <1>6, <2>1 DEF EncodeFails, StreamType, ServerType, server
<1>7. ASSUME NEW s \in 1..counter, NEW i \in Identities, NEW seq \in 1..MaxSeq,
             SendRaw(k, s, i, seq)
      PROVE  ServerType' /\ StreamType'
  <2>1. s \in Nat /\ seq \in Nat /\ i \in Ident
    BY SessionsAssumption DEF ServerType, Ident
  <2>2. queue' \in [Conns -> Seq(Request)]
    BY <1>7, <2>1, SendType DEF SendRaw
  <2>3. client' \in [Conns -> ClientObject]
    <3>1. ASSUME NEW a \in Nat
          PROVE  [client EXCEPT ![k].call = a, ![k].hello = FALSE, ![k].waiting = TRUE, ![k].honest = FALSE]
                   \in [Conns -> ClientObject]
      BY ZenonT(30) DEF StreamType, ClientObject
    <3>2. QED
      BY <1>2, <1>7, <3>1 DEF SendRaw
  <2>4. QED
    BY <1>7, <2>2, <2>3 DEF SendRaw, StreamType, ServerType, server
<1>8. CASE Receive(k)
  <2>1. Head(answers[k]) \in Response /\ Tail(answers[k]) \in Seq(Response)
    BY <1>1, <1>8 DEF Receive
  <2>2. client' \in [Conns -> ClientObject]
    <3>1. ASSUME NEW a \in Nat, NEW b \in Nat
          PROVE  [client EXCEPT ![k].waiting = FALSE, ![k].session = a, ![k].seq = b]
                   \in [Conns -> ClientObject]
      BY ZenonT(30) DEF StreamType, ClientObject
    <3>2. Head(answers[k]).session \in Nat
      BY <2>1 DEF Response
    <3>3. QED
      BY <1>2, <1>8, <3>1, <3>2 DEF Receive
  <2>3. QED
    BY <1>8, <2>1, <2>2 DEF Receive, StreamType, ServerType, server
<1>9. CASE ReceiveFails(k)
  <2>1. client' \in [Conns -> ClientObject]
    BY <1>9 DEF ReceiveFails, StreamType, ClientObject
  <2>2. QED
    BY <1>9, <2>1 DEF ReceiveFails, StreamType, ServerType, server
<1>10. CASE Close(k)
  <2>1. NoClient \in ClientObject
    BY DEF NoClient, ClientObject, Ident
  <2>2. QED
    BY <1>10, <2>1 DEF Close, StreamType, ServerType, server
<1>11. QED
  BY <1>3, <1>4, <1>5, <1>6, <1>7, <1>8, <1>9, <1>10 DEF ClientStep

LEMMA ServerTypeStep ==
  ASSUME ServerType, StreamType, NEW k \in Conns, ServerStep(k)
  PROVE  ServerType' /\ StreamType'
<1>1. conn[k] \in Connection /\ queue[k] \in Seq(Request)
  BY DEF StreamType, ServerType
<1>2. CASE Establish(k)
  <2>1. queue[k] # <<>> /\ Head(queue[k]) \in Request /\ counter + 1 \in Nat
    BY <1>1, <1>2 DEF Establish, Handling, ServerType
  <2>2. queue' \in [Conns -> Seq(Request)] /\ answers' \in [Conns -> Seq(Response)]
    BY <1>2, <2>1, AnswerType DEF Establish
  <2>3. [identity |-> Head(queue[k]).identity, last |-> 0] \in Entry
    BY <2>1 DEF Request, Entry
  <2>4. DOMAIN table' = DOMAIN table \cup {counter + 1} /\ counter' = counter + 1
    BY <1>2 DEF Establish
  <2>5. table' \in [DOMAIN table' -> Entry]
    BY <1>2, <2>3, <2>4 DEF Establish, ServerType
  <2>6. DOMAIN table' \subseteq 1..counter'
    BY <2>4 DEF ServerType
  <2>7. conn' \in [Conns -> Connection]
    BY <1>2, <2>1 DEF Establish, ServerType, Connection
  <2>8. QED
    BY <1>2, <2>1, <2>2, <2>4, <2>5, <2>6, <2>7 DEF Establish, ServerType, StreamType
<1>3. CASE RefuseHello(k) \/ RefuseRequest(k)
  <2>1. queue[k] # <<>> /\ Answer(k, FALSE, 0)
    BY <1>3 DEF RefuseHello, RefuseRequest, Handling
  <2>2. queue' \in [Conns -> Seq(Request)] /\ answers' \in [Conns -> Seq(Response)]
    BY <2>1, AnswerType
  <2>3. QED
    BY <1>3, <2>2 DEF RefuseHello, RefuseRequest, ServerType, StreamType, server
<1>4. CASE Serve(k)
  <2> DEFINE r == Head(queue[k])
  <2>1. queue[k] # <<>> /\ r \in Request /\ r.session \in DOMAIN table
    BY <1>1, <1>4 DEF Serve, Handling, Validates
  <2>2. queue' \in [Conns -> Seq(Request)] /\ answers' \in [Conns -> Seq(Response)]
    BY <1>4, <2>1, AnswerType DEF Serve
  <2>3. table' = [table EXCEPT ![r.session].last = r.seq] /\ DOMAIN table' = DOMAIN table
    BY <1>4 DEF Serve
  <2>4. table' \in [DOMAIN table' -> Entry]
    BY <2>1, <2>3 DEF ServerType, Entry, Request
  <2>5. [conn |-> k, session |-> r.session, identity |-> r.identity, seq |-> r.seq] \in Service
    BY <2>1 DEF Service, Request
  <2>6. served' \in Seq(Service)
    BY <1>4, <2>5 DEF Serve, ServerType
  <2>7. QED
    BY <1>4, <2>2, <2>3, <2>4, <2>6 DEF Serve, ServerType, StreamType
<1>5. CASE AnswerGoodbye(k)
  <2>1. queue[k] # <<>> /\ Answer(k, TRUE, 0)
    BY <1>5 DEF AnswerGoodbye, Handling
  <2>2. queue' \in [Conns -> Seq(Request)] /\ answers' \in [Conns -> Seq(Response)]
    BY <2>1, AnswerType
  <2>3. conn' \in [Conns -> Connection]
    BY <1>5 DEF AnswerGoodbye, ServerType, Connection
  <2>4. QED
    BY <1>5, <2>2, <2>3 DEF AnswerGoodbye, ServerType, StreamType
<1>6. CASE Teardown(k)
  <2>1. NoConn \in Connection
    BY DEF NoConn, Connection
  <2>2. queue' \in [Conns -> Seq(Request)] /\ answers' \in [Conns -> Seq(Response)]
    BY <1>6 DEF Teardown, StreamType
  <2>3. DOMAIN table' \subseteq DOMAIN table /\ table' \in [DOMAIN table' -> Entry]
    BY <1>6 DEF Teardown, ServerType
  <2>4. QED
    BY <1>6, <2>1, <2>2, <2>3 DEF Teardown, ServerType, StreamType
<1>7. QED
  BY <1>2, <1>3, <1>4, <1>5, <1>6 DEF ServerStep
-----------------------------------------------------------------------------
(* A client step changes no session: a connection is opened where there was none. *)
LEMMA ClientKeepsSessions ==
  ASSUME ServerType, Bound, NEW k \in Conns, ClientStep(k)
  PROVE  /\ UNCHANGED <<table, counter, served>>
         /\ \A j \in Conns : conn'[j].session = conn[j].session /\ (conn[j].up => conn'[j].up)
<1>1. ASSUME NEW i \in Identities, NEW old \in 0..counter, Connect(k, i, old)
      PROVE  /\ UNCHANGED <<table, counter, served>>
             /\ \A j \in Conns : conn'[j].session = conn[j].session /\ (conn[j].up => conn'[j].up)
  <2>1. conn[k].session = 0
    BY <1>1 DEF Connect, Bound
  <2>2. conn' = [conn EXCEPT ![k] = [NoConn EXCEPT !.up = TRUE]]
    BY <1>1 DEF Connect
  <2>3. conn'[k].session = 0 /\ conn'[k].up
    BY <2>2 DEF NoConn, ServerType
  <2>4. \A j \in Conns : j # k => conn'[j] = conn[j]
    BY <2>2 DEF ServerType
  <2>5. QED
    BY <1>1, <2>1, <2>3, <2>4 DEF Connect
<1>2. QED
  BY <1>1 DEF ClientStep, SendHello, SendRequest, SendRaw, EncodeFails, Receive, ReceiveFails,
              Close, server

LEMMA TableFinite ==
  ASSUME ServerType
  PROVE  IsFiniteSet(DOMAIN table) /\ Cardinality(DOMAIN table) \in Nat
BY FS_Interval, FS_Subset, FS_CardinalityType, SMTT(15) DEF ServerType

(* The table and the connections keep pointing at each other. *)
LEMMA BoundStep ==
  ASSUME ServerType, Bound, NEW k \in Conns, ClientStep(k) \/ ServerStep(k)
  PROVE  Bound'
<1>1. CASE ClientStep(k)
  BY <1>1, ClientKeepsSessions DEF Bound
<1>2. CASE Establish(k)
  <2> DEFINE fresh == counter + 1
  <2>1. /\ fresh \notin DOMAIN table /\ fresh # 0
        /\ \A j \in Conns : conn[j].session # fresh
    BY DEF ServerType, Bound
  <2>2. DOMAIN table' = DOMAIN table \cup {fresh}
    BY <1>2 DEF Establish
  <2>3. Cardinality(DOMAIN table') <= MaxSessions
    <3>1. Cardinality(DOMAIN table \cup {fresh}) = Cardinality(DOMAIN table) + 1
      BY <2>1, TableFinite, FS_AddElement
    <3>2. Cardinality(DOMAIN table) < MaxSessions
      BY <1>2 DEF Establish, CanEstablish
    <3>3. QED
      BY <2>2, <3>1, <3>2, TableFinite, SessionsAssumption
  <2>4. conn'[k].session = fresh /\ conn'[k].up /\ conn[k].session = 0
    BY <1>2 DEF Establish, ServerType, Connection, Handling, CanEstablish
  <2>5. \A j \in Conns : j # k => conn'[j] = conn[j]
    BY <1>2 DEF Establish, ServerType
  <2> HIDE DEF fresh
  <2>6. \A j \in Conns : conn'[j].session # 0 => conn'[j].up /\ conn'[j].session \in DOMAIN table'
    BY <2>2, <2>4, <2>5 DEF Bound
  <2>7. \A s \in DOMAIN table' : \E j \in Conns : conn'[j].session = s
    <3> SUFFICES ASSUME NEW s \in DOMAIN table'
                 PROVE  \E j \in Conns : conn'[j].session = s
      OBVIOUS
    <3>1. CASE s = fresh
      BY <2>4, <3>1
    <3>2. CASE s \in DOMAIN table
      <4>1. PICK j \in Conns : conn[j].session = s
        BY <3>2 DEF Bound
      <4>2. j # k
        BY <2>4, <3>2, <4>1 DEF ServerType
      <4>3. QED
        BY <2>5, <4>1, <4>2
    <3>3. QED
      BY <2>2, <3>1, <3>2
  <2>8. \A i, j \in Conns : conn'[i].session # 0 /\ conn'[i].session = conn'[j].session => i = j
    BY <2>1, <2>4, <2>5 DEF Bound
  <2>9. QED
    BY <2>3, <2>6, <2>7, <2>8 DEF Bound
<1>3. CASE RefuseHello(k) \/ RefuseRequest(k) \/ Serve(k) \/ AnswerGoodbye(k)
  <2>1. DOMAIN table' = DOMAIN table
    BY <1>3 DEF RefuseHello, RefuseRequest, Serve, AnswerGoodbye, server
  <2>2. \A j \in Conns : conn'[j].session = conn[j].session /\ conn'[j].up = conn[j].up
    <3>1. CASE AnswerGoodbye(k)
      BY <3>1 DEF AnswerGoodbye, ServerType, Connection
    <3>2. CASE conn' = conn
      BY <3>2
    <3>3. QED
      BY <1>3, <3>1, <3>2 DEF RefuseHello, RefuseRequest, Serve, server
  <2>3. QED
    BY <2>1, <2>2 DEF Bound
<1>4. CASE Teardown(k)
  <2> DEFINE gone == conn[k].session
  <2>1. DOMAIN table' = DOMAIN table \ {gone}
    BY <1>4 DEF Teardown
  <2>2. Cardinality(DOMAIN table') <= MaxSessions
    <3>1. DOMAIN table' \subseteq DOMAIN table
      BY <2>1
    <3>2. Cardinality(DOMAIN table') <= Cardinality(DOMAIN table) /\ Cardinality(DOMAIN table') \in Nat
      BY <3>1, TableFinite, FS_Subset, FS_CardinalityType
    <3>3. QED
      BY <3>2, TableFinite, SessionsAssumption DEF Bound
  <2>3. conn'[k].session = 0 /\ \A j \in Conns : j # k => conn'[j] = conn[j]
    BY <1>4 DEF Teardown, ServerType, NoConn
  <2>4. QED
    BY <2>1, <2>2, <2>3 DEF Bound
<1>5. QED
  BY <1>1, <1>2, <1>3, <1>4 DEF ServerStep
-----------------------------------------------------------------------------
LEMMA ServedFinite ==
  ASSUME ServerType, NEW s
  PROVE  /\ IsFiniteSet(ServedUnder(s)) /\ Cardinality(ServedUnder(s)) \in Nat
         /\ Len(served) + 1 \notin ServedUnder(s)
<1>1. Len(served) \in Nat
  BY DEF ServerType
<1>2. IsFiniteSet(1..Len(served)) /\ ServedUnder(s) \subseteq 1..Len(served)
  BY <1>1, FS_Interval DEF ServedUnder
<1>3. Len(served) + 1 \notin 1..Len(served)
  BY <1>1
<1>4. QED
  BY <1>2, <1>3, FS_Subset, FS_CardinalityType

(* As long as nothing is served, it is enough that the sessions that stay keep their
   entries and their connections. *)
LEMMA CountedKept ==
  ASSUME ServerType, Counted, ServedInSequence, UNCHANGED served, counter' \in Nat,
         counter <= counter',
         \A s \in DOMAIN table' \ DOMAIN table : s > counter /\ table'[s].last = 0,
         \A s \in DOMAIN table' \cap DOMAIN table :
           /\ table'[s] = table[s]
           /\ \A k \in Conns : conn[k].session = s => conn'[k].session = s
  PROVE  Counted' /\ ServedInSequence'
<1>1. ServedInSequence'
  BY ZenonT(30) DEF ServedInSequence
<1>2. \A m \in 1..Len(served) : served[m].session \in 1..counter /\ served[m].conn \in Conns
  <2>1. \A m \in 1..Len(served) : served[m] \in Service
    BY DEF ServerType
  <2>2. QED
    BY <2>1 DEF Counted, Service
<1>3. \A m \in 1..Len(served') : served'[m].session \in 1..counter'
  BY <1>2 DEF ServerType
<1>4. \A s : ServedUnder(s)' = ServedUnder(s)
  BY DEF ServedUnder
<1>5. ASSUME NEW s \in DOMAIN table'
      PROVE  /\ table'[s].last = Cardinality(ServedUnder(s))
             /\ \A m \in ServedUnder(s) : /\ served[m].identity = table'[s].identity
                                          /\ conn'[served[m].conn].session = s
  <2>1. CASE s \in DOMAIN table
    <3>1. table'[s] = table[s]
      BY <2>1
    <3>2. \A m \in ServedUnder(s) : /\ served[m].identity = table[s].identity
                                    /\ conn[served[m].conn].session = s
                                    /\ served[m].conn \in Conns
      BY <1>2, <2>1 DEF Counted, ServedUnder
    <3>3. QED
      BY <2>1, <3>1, <3>2 DEF Counted
  <2>2. CASE s \notin DOMAIN table
    <3>1. s > counter /\ table'[s].last = 0
      BY <2>2
    <3>2. ServedUnder(s) = {}
      BY <1>2, <3>1 DEF ServedUnder, ServerType
    <3>3. QED
      BY <3>1, <3>2, FS_EmptySet
  <2>3. QED
    BY <2>1, <2>2
<1>6. \A s \in DOMAIN table' :
        /\ table'[s].last = Cardinality(ServedUnder(s)')
        /\ \A m \in ServedUnder(s)' : /\ served'[m].identity = table'[s].identity
                                      /\ conn'[served'[m].conn].session = s
  BY <1>4, <1>5
<1>7. QED
  BY <1>1, <1>3, <1>6 DEF Counted

(* Serving a request extends the history of its session by the next number. *)
LEMMA ServeCounted ==
  ASSUME ServerType, Bound, Counted, ServedInSequence, NEW k \in Conns, Serve(k)
  PROVE  Counted' /\ ServedInSequence'
<1>0. PICK s : s = Head(queue[k]).session
  OBVIOUS
<1> DEFINE r == Head(queue[k])
           e == [conn |-> k, session |-> s, identity |-> r.identity, seq |-> r.seq]
           L == Len(served)
<1>1. /\ s = conn[k].session /\ s # 0 /\ s \in DOMAIN table /\ r.identity = table[s].identity
      /\ r.seq = table[s].last + 1
  BY <1>0 DEF Serve, Validates
<1>2. /\ table' = [table EXCEPT ![s].last = r.seq] /\ served' = Append(served, e)
      /\ UNCHANGED <<counter, conn>>
  BY <1>0 DEF Serve
<1> HIDE DEF e, r
<1>3. /\ DOMAIN table' = DOMAIN table
      /\ table'[s].last = r.seq /\ table'[s].identity = table[s].identity
      /\ \A t \in DOMAIN table : t # s => table'[t] = table[t]
  BY <1>1, <1>2 DEF ServerType, Entry
<1>4. /\ L \in Nat /\ Len(served') = L + 1 /\ served'[L + 1] = e
      /\ \A m \in 1..L : served'[m] = served[m]
  BY <1>2 DEF ServerType
<1>5. e.conn = k /\ e.session = s /\ e.identity = r.identity /\ e.seq = r.seq
  BY DEF e
<1>6. \A m \in 1..L : served[m].conn \in Conns
  <2>1. \A m \in 1..L : served[m] \in Service
    BY DEF ServerType
  <2>2. QED
    BY <2>1 DEF Service
<1>7. ServedUnder(s)' = ServedUnder(s) \cup {L + 1}
  BY <1>4, <1>5 DEF ServedUnder
<1>8. \A t : t # s => ServedUnder(t)' = ServedUnder(t)
  BY <1>4, <1>5 DEF ServedUnder
<1>9. Cardinality(ServedUnder(s)') = Cardinality(ServedUnder(s)) + 1
  BY <1>7, ServedFinite, FS_AddElement
<1>10. /\ table[s].last = Cardinality(ServedUnder(s))
       /\ \A m \in ServedUnder(s) : /\ m \in 1..L
                                    /\ served[m].identity = r.identity
                                    /\ served[m].conn = k
  <2>1. \A m \in ServedUnder(s) : /\ m \in 1..L
                                  /\ served[m].identity = table[s].identity
                                  /\ conn[served[m].conn].session = s
    BY <1>1 DEF Counted, ServedUnder
  <2>2. QED
    BY <1>1, <1>6, <2>1 DEF Bound, Counted
<1>11. \A m \in 1..Len(served') : served'[m].session \in 1..counter'
  <2>1. s \in 1..counter
    BY <1>1 DEF ServerType
  <2>2. QED
    BY <1>2, <1>4, <1>5, <2>1 DEF Counted
<1>12. ASSUME NEW t \in DOMAIN table'
       PROVE  /\ table'[t].last = Cardinality(ServedUnder(t)')
              /\ \A m \in ServedUnder(t)' : /\ served'[m].identity = table'[t].identity
                                            /\ conn'[served'[m].conn].session = t
  <2>1. CASE t = s
    <3>1. table'[s].last = Cardinality(ServedUnder(s)')
      BY <1>1, <1>3, <1>9, <1>10
    <3>2. \A m \in ServedUnder(s)' : served'[m].identity = r.identity /\ served'[m].conn = k
      BY <1>4, <1>5, <1>7, <1>10
    <3>3. QED
      BY <1>1, <1>2, <1>3, <2>1, <3>1, <3>2
  <2>2. CASE t # s
    <3>1. t \in DOMAIN table /\ table'[t] = table[t] /\ ServedUnder(t)' = ServedUnder(t)
      BY <1>3, <1>8, <2>2
    <3>2. \A m \in ServedUnder(t) : m \in 1..L /\ served'[m] = served[m]
      BY <1>4 DEF ServedUnder
    <3>3. /\ table[t].last = Cardinality(ServedUnder(t))
          /\ \A m \in ServedUnder(t) : /\ served[m].identity = table[t].identity
                                       /\ conn[served[m].conn].session = t
      BY <3>1 DEF Counted
    <3>4. QED
      BY <1>2, <3>1, <3>2, <3>3
  <2>3. QED
    BY <2>1, <2>2
<1>13. Counted'
  BY <1>11, <1>12 DEF Counted
<1>14. ServedInSequence'
  <2> SUFFICES ASSUME NEW n \in 1..Len(served')
               PROVE  LET earlier == {m \in 1..(n - 1) : served'[m].session = served'[n].session}
                      IN /\ served'[n].seq = Cardinality(earlier) + 1
                         /\ \A m \in earlier : /\ served'[m].conn = served'[n].conn
                                               /\ served'[m].identity = served'[n].identity
    BY DEF ServedInSequence
  <2> DEFINE earlier == {m \in 1..(n - 1) : served'[m].session = served'[n].session}
  <2>1. CASE n \in 1..L
    <3>1. served'[n] = served[n] /\ \A m \in 1..(n - 1) : served'[m] = served[m]
      BY <1>4, <2>1
    <3>2. earlier = {m \in 1..(n - 1) : served[m].session = served[n].session}
      BY <3>1
    <3>3. QED
      BY <2>1, <3>1, <3>2 DEF ServedInSequence
  <2>2. CASE n = L + 1
    <3>1. served'[n] = e /\ n - 1 = L
      BY <1>4, <2>2
    <3>2. earlier = ServedUnder(s)
      BY <1>4, <1>5, <3>1 DEF ServedUnder
    <3>3. e.seq = Cardinality(ServedUnder(s)) + 1
      BY <1>1, <1>5, <1>10
    <3>4. \A m \in ServedUnder(s) : served'[m].conn = k /\ served'[m].identity = r.identity
      BY <1>4, <1>10
    <3>5. QED
      BY <1>5, <3>1, <3>2, <3>3, <3>4
  <2>3. QED
    BY <1>4, <2>1, <2>2
<1>15. QED
  BY <1>13, <1>14

LEMMA CountedStep ==
  ASSUME ServerType, Bound, Counted, ServedInSequence, NEW k \in Conns,
         ClientStep(k) \/ ServerStep(k)
  PROVE  Counted' /\ ServedInSequence'
<1>1. CASE ClientStep(k)
  <2>1. /\ UNCHANGED <<table, counter, served>>
        /\ \A j \in Conns : conn'[j].session = conn[j].session
    BY <1>1, ClientKeepsSessions
  <2>2. QED
    BY <2>1, CountedKept DEF ServerType
<1>2. CASE RefuseHello(k) \/ RefuseRequest(k)
  <2>1. /\ UNCHANGED <<table, counter, served>>
        /\ \A j \in Conns : conn'[j].session = conn[j].session
    BY <1>2 DEF RefuseHello, RefuseRequest, server
  <2>2. QED
    BY <2>1, CountedKept DEF ServerType
<1>3. CASE AnswerGoodbye(k)
  <2>1. \A j \in Conns : conn'[j].session = conn[j].session
    BY <1>3 DEF AnswerGoodbye, ServerType, Connection
  <2>2. UNCHANGED <<table, counter, served>>
    BY <1>3 DEF AnswerGoodbye
  <2>3. QED
    BY <2>1, <2>2, CountedKept DEF ServerType
<1>4. CASE Establish(k)
  <2>1. /\ UNCHANGED served /\ counter' = counter + 1 /\ counter' \in Nat /\ counter <= counter'
        /\ DOMAIN table' = DOMAIN table \cup {counter + 1}
        /\ table'[counter + 1].last = 0
        /\ counter + 1 \notin DOMAIN table
        /\ \A s \in DOMAIN table : table'[s] = table[s]
    BY <1>4 DEF Establish, ServerType
  <2>2. /\ conn[k].session = 0 /\ 0 \notin DOMAIN table
        /\ \A j \in Conns : j # k => conn'[j] = conn[j]
    BY <1>4 DEF Establish, CanEstablish, ServerType
  <2>3. \A s \in DOMAIN table' \ DOMAIN table : s > counter /\ table'[s].last = 0
    BY <2>1 DEF ServerType
  <2>4. QED
    BY <2>1, <2>2, <2>3, CountedKept
<1>5. CASE Teardown(k)
  <2>1. /\ UNCHANGED <<served, counter>>
        /\ DOMAIN table' = DOMAIN table \ {conn[k].session}
        /\ \A s \in DOMAIN table' : table'[s] = table[s]
        /\ \A j \in Conns : j # k => conn'[j] = conn[j]
    BY <1>5 DEF Teardown, ServerType
  <2>2. QED
    BY <2>1, CountedKept DEF ServerType
<1>6. CASE Serve(k)
  BY <1>6, ServeCounted
<1>7. QED
  BY <1>1, <1>2, <1>3, <1>4, <1>5, <1>6 DEF ServerStep
-----------------------------------------------------------------------------
(* Streams that hold at most one call. *)
LEMMA FirstIn ==
  ASSUME NEW T, NEW s \in Seq(T), Len(s) = 0, NEW x \in T
  PROVE  s = <<>> /\ Append(s, x) # <<>> /\ Len(Append(s, x)) = 1 /\ Append(s, x)[1] = x
OBVIOUS

LEMMA LastOut ==
  ASSUME NEW T, NEW s \in Seq(T), s # <<>>, Len(s) <= 1
  PROVE  Len(s) = 1 /\ Head(s) = s[1] /\ Head(s) \in T /\ Tail(s) = <<>> /\ Len(Tail(s)) = 0
<1>0. Len(s) \in Nat \ {0}
  BY EmptySeq
<1>1. Len(s) = 1
  BY <1>0
<1>2. Head(s) \in T /\ Tail(s) \in Seq(T) /\ Len(Tail(s)) = 0
  BY <1>1, HeadTailProperties
<1>3. Tail(s) = <<>>
  BY <1>2, EmptySeq
<1>4. QED
  BY <1>1, <1>2, <1>3

LEMMA EitherStream ==
  ASSUME NEW q \in Seq(Request), NEW a \in Seq(Response), NEW waiting \in BOOLEAN,
         Len(q) + Len(a) = (IF waiting THEN 1 ELSE 0)
  PROVE  /\ ~waiting => q = <<>> /\ a = <<>> /\ Len(q) = 0 /\ Len(a) = 0
         /\ q # <<>> => waiting /\ Len(q) = 1 /\ a = <<>> /\ Len(a) = 0
         /\ a # <<>> => waiting /\ Len(a) = 1 /\ q = <<>> /\ Len(q) = 0
<1>1. /\ Len(q) \in Nat /\ (q # <<>> => Len(q) # 0) /\ (q = <<>> => Len(q) = 0)
      /\ Len(a) \in Nat /\ (a # <<>> => Len(a) # 0) /\ (a = <<>> => Len(a) = 0)
  BY EmptySeq, LenProperties
<1>2. CASE waiting
  <2>1. Len(q) + Len(a) = 1
    BY <1>2
  <2>2. \/ Len(q) = 1 /\ Len(a) = 0
        \/ Len(q) = 0 /\ Len(a) = 1
    <3>1. ASSUME NEW m \in Nat, NEW n \in Nat, m + n = 1
          PROVE  (m = 1 /\ n = 0) \/ (m = 0 /\ n = 1)
      BY <3>1
    <3>2. Len(q) \in Nat /\ Len(a) \in Nat
      BY <1>1
    <3>3. QED
      BY <2>1, <3>1, <3>2, Zenon
  <2>3. QED
    BY <1>1, <1>2, <2>2, Zenon
<1>3. CASE ~waiting
  <2>1. Len(q) + Len(a) = 0
    BY <1>3
  <2>2. Len(q) = 0 /\ Len(a) = 0
    BY <1>1, <2>1
  <2>3. QED
    BY <1>1, <1>3, <2>2
<1>4. QED
  BY <1>2, <1>3

(* A step on one connection leaves the others and their sessions as they are. *)
LEMMA OthersInStep ==
  ASSUME SessionsInv, NEW k \in Conns, ClientStep(k) \/ ServerStep(k), NEW j \in Conns, j # k
  PROVE  HonestAgrees(j)'
<1>1. /\ client'[j] = client[j] /\ queue'[j] = queue[j]
      /\ answers'[j] = answers[j] /\ conn'[j] = conn[j]
  <2>1. CASE ClientStep(k)
    BY <2>1 DEF ClientStep, Connect, SendHello, SendRequest, SendRaw, EncodeFails, Receive,
         ReceiveFails, Close, Send, server, SessionsInv, ServerType, StreamType
  <2>2. CASE ServerStep(k)
    BY <2>2 DEF ServerStep, Establish, RefuseHello, Serve, RefuseRequest, AnswerGoodbye, Teardown,
         Answer, server, SessionsInv, ServerType, StreamType
  <2>3. QED
    BY <2>1, <2>2
<1>2. ASSUME conn[j].session # 0
      PROVE  table'[conn[j].session] = table[conn[j].session]
  <2>1. conn[j].session \in DOMAIN table /\ conn[j].session # conn[k].session
    BY <1>2 DEF SessionsInv, Bound
  <2>2. CASE ClientStep(k)
    BY <2>2, ClientKeepsSessions DEF SessionsInv
  <2>3. CASE Establish(k)
    <3>1. counter + 1 \notin DOMAIN table
      BY DEF SessionsInv, ServerType
    <3>2. QED
      BY <2>1, <2>3, <3>1 DEF Establish
  <2>4. CASE Serve(k)
    BY <2>1, <2>4 DEF Serve, Validates, SessionsInv, ServerType
  <2>5. CASE Teardown(k)
    BY <2>1, <2>5 DEF Teardown
  <2>6. QED
    BY <2>2, <2>3, <2>4, <2>5 DEF ServerStep, RefuseHello, RefuseRequest, AnswerGoodbye, server
<1>3. HonestAgrees(j)
  BY DEF SessionsInv, InStep
<1>4. QED
  BY <1>1, <1>2, <1>3, ZenonT(30) DEF HonestAgrees, OneInFlight, Agrees, Established, SequenceAgrees, Asked

(* The client's own steps. *)
LEMMA ClientInStep ==
  ASSUME SessionsInv, NEW k \in Conns, ClientStep(k)
  PROVE  HonestAgrees(k)'
<1>1. HonestAgrees(k) /\ StreamType /\ ServerType /\ Bound
  BY DEF SessionsInv, InStep
<1>2. /\ client[k] \in ClientObject /\ queue[k] \in Seq(Request) /\ answers[k] \in Seq(Response)
      /\ conn[k] \in Connection
      /\ Len(queue[k]) \in Nat /\ Len(answers[k]) \in Nat
  BY <1>1 DEF StreamType, ServerType
<1>3. UNCHANGED table
  BY <1>1, ClientKeepsSessions
<1>4. ASSUME NEW i \in Identities, NEW old \in 0..counter, Connect(k, i, old)
      PROVE  HonestAgrees(k)'
  <2>1. /\ client'[k] = [NoClient EXCEPT !.identity = i, !.session = old, !.connected = TRUE,
                                         !.honest = TRUE]
        /\ conn'[k] = [NoConn EXCEPT !.up = TRUE]
        /\ queue'[k] = <<>> /\ answers'[k] = <<>>
    BY <1>1, <1>4 DEF Connect, StreamType, ServerType
  <2>2. /\ client'[k].connected /\ ~client'[k].waiting
        /\ conn'[k].up /\ conn'[k].session = 0 /\ ~conn'[k].farewell
    BY <2>1 DEF NoClient, NoConn
  <2>3. QED
    BY <2>1, <2>2 DEF HonestAgrees, OneInFlight, Agrees, Established
(* A request is sent: the streams were empty, and now hold it. *)
<1>5. ASSUME NEW type \in {"Hello", "Request", "Goodbye"},
             NEW s \in Nat, NEW seq \in Nat, client[k].honest, CanSend(k),
             Send(k, type, s, client[k].identity, seq), UNCHANGED <<server, answers>>,
             client'[k].session = client[k].session,
             client'[k].identity = client[k].identity,
             client'[k].connected, client'[k].waiting,
             client'[k].call = client[k].call + 1,
             type = "Hello" => client'[k].hello /\ client'[k].seq = client[k].seq,
             type # "Hello" => /\ s = client[k].session /\ seq = client[k].seq + 1
                               /\ client'[k].seq = seq
      PROVE  HonestAgrees(k)'
  <2> DEFINE f == Frame(type, s, client[k].identity, seq, client[k].call + 1)
  <2>1. /\ OneInFlight(k) /\ Agrees(k) /\ ~client[k].waiting
        /\ Len(queue[k]) = 0 /\ Len(answers[k]) = 0
    <3>1. OneInFlight(k) /\ Agrees(k) /\ ~client[k].waiting
      BY <1>1, <1>5 DEF HonestAgrees, CanSend
    <3>2. Len(queue[k]) + Len(answers[k]) = (IF client[k].waiting THEN 1 ELSE 0)
      BY <3>1 DEF OneInFlight
    <3>3. client[k].waiting \in BOOLEAN
      BY <1>2 DEF ClientObject
    <3>4. QED
      BY <1>2, <3>1, <3>2, <3>3, EitherStream
  <2>2. /\ client[k].call + 1 \in Nat /\ client[k].identity \in Ident /\ client[k].seq \in Nat
    BY <1>2 DEF ClientObject
  <2>3. f \in Request
    BY <2>2 DEF Frame, Request
  <2>4. queue'[k] = Append(queue[k], f)
    BY <1>1, <1>5 DEF Send, StreamType
  <2>5. /\ f.type = type /\ f.session = s /\ f.identity = client[k].identity
        /\ f.seq = seq /\ f.call = client[k].call + 1
    BY DEF Frame
  <2> HIDE DEF f
  <2>6. /\ queue[k] = <<>> /\ queue'[k] # <<>> /\ Len(queue'[k]) = 1 /\ queue'[k][1] = f
    BY <1>2, <2>1, <2>3, <2>4, FirstIn
  <2>7. answers'[k] = <<>> /\ answers[k] = <<>> /\ Len(answers'[k]) = 0 /\ UNCHANGED conn
    BY <1>2, <1>5, <2>1 DEF server
  <2>8. OneInFlight(k)'
    BY <1>5, <2>1, <2>5, <2>6, <2>7 DEF OneInFlight
  <2>9. Agrees(k)'
    <3>1. CASE conn[k].session = 0
      BY <2>1, <2>7, <3>1 DEF Agrees, Established
    <3>2. CASE conn[k].session # 0
      <4>1. ~Established(k) /\ ~Established(k)'
        BY <2>7 DEF Established
      <4>2. SequenceAgrees(k) /\ ~Asked(k, {"Request", "Goodbye"}) /\ ~Asked(k, {"Request"})
        BY <2>1, <2>6, <3>2, <4>1 DEF Agrees, Asked
      <4>3. /\ Asked(k, {"Request", "Goodbye"})' <=> type # "Hello"
            /\ Asked(k, {"Request"})' <=> type = "Request"
        BY <2>5, <2>6 DEF Asked
      <4>4. table[conn[k].session].last \in Nat
        BY <1>1, <3>2 DEF ServerType, Bound, Entry
      <4>5. SequenceAgrees(k)'
        BY <1>3, <1>5, <2>2, <2>7, <4>2, <4>3, <4>4 DEF SequenceAgrees
      <4>6. QED
        BY <1>3, <1>5, <2>1, <2>7, <3>2, <4>1, <4>5 DEF Agrees
    <3>3. QED
      BY <3>1, <3>2
  <2>10. QED
    BY <2>8, <2>9 DEF HonestAgrees
<1>6. CASE SendHello(k)
  <2>1. /\ client'[k].session = client[k].session /\ client'[k].identity = client[k].identity
        /\ client'[k].connected = client[k].connected /\ client'[k].waiting
        /\ client'[k].call = client[k].call + 1 /\ client'[k].seq = client[k].seq
        /\ client'[k].hello /\ client'[k].honest = client[k].honest
    BY <1>1, <1>2, <1>6 DEF SendHello, StreamType, ClientObject
  <2>2. QED
    BY <1>5, <1>6, <2>1 DEF SendHello, CanSend, HonestAgrees
<1>7. ASSUME NEW type \in {"Request", "Goodbye"}, SendRequest(k, type)
      PROVE  HonestAgrees(k)'
  <2>1. /\ client'[k].session = client[k].session /\ client'[k].identity = client[k].identity
        /\ client'[k].connected = client[k].connected /\ client'[k].waiting
        /\ client'[k].call = client[k].call + 1 /\ client'[k].seq = client[k].seq + 1
        /\ client'[k].honest = client[k].honest
    BY <1>1, <1>2, <1>7 DEF SendRequest, StreamType, ClientObject
  <2>2. client[k].session \in Nat /\ client[k].seq + 1 \in Nat
    BY <1>2 DEF ClientObject
  <2>3. QED
    BY <1>5, <1>7, <2>1, <2>2 DEF SendRequest, CanSend, HonestAgrees
<1>8. CASE EncodeFails(k) \/ ReceiveFails(k) \/ Close(k)
  <2>1. ~client'[k].honest
    BY <1>1, <1>2, <1>8 DEF EncodeFails, ReceiveFails, Close, NoClient, StreamType, ClientObject
  <2>2. QED
    BY <2>1 DEF HonestAgrees
<1>9. ASSUME NEW s \in 1..counter, NEW i \in Identities, NEW seq \in 1..MaxSeq,
             SendRaw(k, s, i, seq)
      PROVE  HonestAgrees(k)'
  <2>1. ~client'[k].honest
    BY <1>1, <1>2, <1>9 DEF SendRaw, StreamType, ClientObject
  <2>2. QED
    BY <2>1 DEF HonestAgrees
(* An answer arrives: that of a Hello tells the client its session. *)
<1>10. CASE Receive(k)
  <2> SUFFICES ASSUME client'[k].honest
               PROVE  OneInFlight(k)' /\ Agrees(k)'
    BY DEF HonestAgrees
  <2>1. /\ client'[k].identity = client[k].identity /\ client'[k].connected = client[k].connected
        /\ client'[k].call = client[k].call /\ client'[k].honest = client[k].honest
        /\ ~client'[k].waiting
    BY <1>1, <1>2, <1>10 DEF Receive, StreamType, ClientObject
  <2>2. OneInFlight(k) /\ Agrees(k) /\ client[k].waiting /\ answers[k] # <<>>
    BY <1>1, <1>10, <2>1 DEF HonestAgrees, Receive
  <2>3. Len(queue[k]) = 0 /\ Len(answers[k]) = 1 /\ queue[k] = <<>>
    <3>1. Len(queue[k]) + Len(answers[k]) = (IF client[k].waiting THEN 1 ELSE 0)
      BY <2>2 DEF OneInFlight
    <3>2. client[k].waiting \in BOOLEAN
      BY <1>2 DEF ClientObject
    <3>3. QED
      BY <1>2, <2>2, <3>1, <3>2, EitherStream
  <2>4. /\ queue[k] = <<>> /\ Head(answers[k]) = answers[k][1]
        /\ Tail(answers[k]) = <<>> /\ Len(Tail(answers[k])) = 0
    <3>1. answers[k] # <<>> /\ Len(answers[k]) <= 1
      BY <2>2, <2>3
    <3>2. QED
      BY <1>2, <2>3, <3>1, LastOut
  <2>5. answers'[k] = <<>> /\ queue'[k] = <<>> /\ UNCHANGED conn
    BY <1>1, <1>10, <2>4 DEF Receive, StreamType, server
  <2>6. OneInFlight(k)'
    BY <2>1, <2>2, <2>5 DEF OneInFlight
  <2>7. ~Established(k)' /\ \A types : ~Asked(k, types)'
    BY <2>5 DEF Established, Asked
  <2>8. \A types : ~Asked(k, types)
    BY <2>4 DEF Asked
  <2>9. CASE Established(k)
    <3>1. client'[k].session = answers[k][1].session /\ client'[k].seq = 0
      <4>1. client[k].hello
        BY <2>2, <2>9 DEF OneInFlight, Established
      <4> QED
        BY <1>1, <1>2, <1>10, <2>4, <2>9, <4>1 DEF Receive, StreamType, ClientObject, Established
    <3>2. /\ conn[k].session # 0 /\ answers[k][1].session = conn[k].session
          /\ table[conn[k].session].last = 0 /\ ~conn[k].farewell
          /\ table[conn[k].session].identity = client[k].identity
      BY <2>2, <2>9 DEF Agrees
    <3>3. SequenceAgrees(k)'
      BY <1>3, <2>5, <2>7, <3>1, <3>2 DEF SequenceAgrees
    <3>4. QED
      BY <1>3, <2>1, <2>5, <2>6, <2>7, <3>2, <3>3 DEF Agrees
  <2>10. CASE ~Established(k)
    <3>1. client'[k].session = client[k].session /\ client'[k].seq = client[k].seq
      BY <1>1, <1>2, <1>10, <2>4, <2>10 DEF Receive, StreamType, ClientObject, Established
    <3>2. SequenceAgrees(k) => SequenceAgrees(k)'
      BY <1>3, <2>5, <2>7, <2>8, <3>1 DEF SequenceAgrees
    <3>3. QED
      BY <1>3, <2>1, <2>2, <2>5, <2>6, <2>7, <2>10, <3>2 DEF Agrees
  <2>11. QED
    BY <2>9, <2>10
<1>11. QED
  BY <1>4, <1>6, <1>7, <1>8, <1>9, <1>10 DEF ClientStep

(* The server's steps on the connection. *)
LEMMA ServerInStep ==
  ASSUME SessionsInv, NEW k \in Conns, ServerStep(k)
  PROVE  HonestAgrees(k)'
<1>1. HonestAgrees(k) /\ StreamType /\ ServerType /\ Bound
  BY DEF SessionsInv, InStep
<1>2. /\ client[k] \in ClientObject /\ queue[k] \in Seq(Request) /\ answers[k] \in Seq(Response)
      /\ conn[k] \in Connection /\ counter \in Nat
      /\ Len(queue[k]) \in Nat /\ Len(answers[k]) \in Nat
  BY <1>1 DEF StreamType, ServerType
<1>3. UNCHANGED client
  <2>1. CASE Teardown(k)
    BY <2>1 DEF Teardown
  <2>2. QED
    BY <2>1 DEF ServerStep, Establish, RefuseHello, Serve, RefuseRequest, AnswerGoodbye
<1>4. SUFFICES ASSUME client[k].honest
               PROVE  OneInFlight(k)' /\ Agrees(k)'
  BY <1>3 DEF HonestAgrees
<1>5. OneInFlight(k) /\ Agrees(k)
  BY <1>1, <1>4 DEF HonestAgrees
<1>6. /\ client[k].seq \in Nat
      /\ conn[k].session # 0 => table[conn[k].session].last \in Nat
  BY <1>1, <1>2 DEF ClientObject, ServerType, Bound, Entry
(* The request moves from one stream, as its answer, into the other. *)
<1>7. ASSUME NEW type, Handling(k, type), NEW ok \in BOOLEAN, NEW s \in Nat, Answer(k, ok, s),
             conn'[k].up
      PROVE  /\ OneInFlight(k)'
             /\ queue[k] # <<>> /\ Head(queue[k]) = queue[k][1] /\ queue[k][1].type = type
             /\ queue'[k] = <<>> /\ answers[k] = <<>> /\ answers'[k] # <<>>
             /\ answers'[k][1].type = type /\ answers'[k][1].ok = ok /\ answers'[k][1].session = s
  <2> DEFINE a == [type |-> Head(queue[k]).type, ok |-> ok, session |-> s,
                   call |-> Head(queue[k]).call]
  <2>1. /\ queue[k] # <<>> /\ Len(queue[k]) <= 1
        /\ Len(answers[k]) = 0 /\ client[k].waiting
    <3>1. Len(queue[k]) + Len(answers[k]) = (IF client[k].waiting THEN 1 ELSE 0)
      BY <1>5 DEF OneInFlight
    <3>2. queue[k] # <<>>
      BY <1>7 DEF Handling
    <3>3. client[k].waiting \in BOOLEAN
      BY <1>2 DEF ClientObject
    <3>4. client[k].waiting /\ Len(queue[k]) = 1 /\ Len(answers[k]) = 0
      BY <1>2, <3>1, <3>2, <3>3, EitherStream
    <3>5. QED
      BY <3>2, <3>4
  <2>2. /\ Len(queue[k]) = 1 /\ Head(queue[k]) = queue[k][1] /\ Head(queue[k]) \in Request
        /\ Tail(queue[k]) = <<>> /\ Len(Tail(queue[k])) = 0
    BY <1>2, <2>1, LastOut
  <2>4. a \in Response
    BY <2>2 DEF Request, Response
  <2>5. queue'[k] = <<>> /\ answers'[k] = Append(answers[k], a)
    BY <1>1, <1>7, <2>2 DEF Answer, StreamType
  <2>6. /\ answers[k] = <<>> /\ answers'[k] # <<>> /\ Len(answers'[k]) = 1
        /\ answers'[k][1] = a
    BY <1>2, <2>1, <2>4, <2>5, FirstIn
  <2>7. a.call = client[k].call
    BY <1>5, <2>1, <2>2 DEF OneInFlight
  <2>8. OneInFlight(k)'
    <3>1. Len(queue'[k]) = 0
      BY <2>5
    <3>2. answers'[k][1].call = client[k].call
      BY <2>6, <2>7
    <3>3. QED
      BY <1>3, <1>5, <1>7, <2>1, <2>5, <2>6, <3>1, <3>2 DEF OneInFlight
  <2>9. Head(queue[k]).type = type
    BY <1>7 DEF Handling
  <2>10. QED
    BY <2>1, <2>2, <2>5, <2>6, <2>8, <2>9
<1>8. CASE Establish(k)
  <2>1. /\ Handling(k, "Hello") /\ Answer(k, TRUE, counter + 1) /\ conn[k].session = 0
        /\ conn' = [conn EXCEPT ![k].session = counter + 1]
    BY <1>8 DEF Establish, CanEstablish
  <2>2. /\ conn'[k].session = counter + 1 /\ conn'[k].session # 0
        /\ conn'[k].up = conn[k].up /\ conn'[k].farewell = conn[k].farewell
    BY <1>1, <1>2, <2>1 DEF ServerType, Connection
  <2>3. /\ OneInFlight(k)' /\ queue[k] # <<>> /\ Head(queue[k]) = queue[k][1]
        /\ Established(k)' /\ answers'[k][1].session = counter + 1
    <3>1. conn'[k].up /\ counter + 1 \in Nat
      BY <1>2, <1>5, <2>2 DEF OneInFlight
    <3>2. QED
      BY <1>7, <2>1, <3>1 DEF Established
  <2>4. table'[counter + 1] = [identity |-> Head(queue[k]).identity, last |-> 0]
    BY <1>8 DEF Establish
  <2>5. Head(queue[k]).identity = client[k].identity
    BY <1>5, <2>3 DEF OneInFlight
  <2>6. ~conn[k].farewell
    BY <1>5, <2>1 DEF Agrees
  <2>7. QED
    BY <1>3, <2>2, <2>3, <2>4, <2>5, <2>6 DEF Agrees
<1>9. CASE RefuseHello(k)
  <2>1. Handling(k, "Hello") /\ Answer(k, FALSE, 0) /\ UNCHANGED <<conn, table>>
    BY <1>9 DEF RefuseHello, server
  <2>2. /\ OneInFlight(k)' /\ ~Established(k) /\ ~Established(k)' /\ queue'[k] = <<>>
        /\ queue[k][1].type = "Hello"
    <3>1. conn'[k].up
      BY <1>5, <2>1 DEF OneInFlight
    <3>2. QED
      BY <1>7, <2>1, <3>1 DEF Established
  <2>3. SequenceAgrees(k) => SequenceAgrees(k)'
    BY <1>3, <2>1, <2>2 DEF SequenceAgrees, Asked
  <2>4. QED
    BY <1>3, <1>5, <2>1, <2>2, <2>3 DEF Agrees
<1>10. CASE Serve(k)
  <2>1. /\ Handling(k, "Request") /\ Answer(k, TRUE, 0) /\ UNCHANGED conn
        /\ Validates(k, Head(queue[k]))
        /\ table' = [table EXCEPT ![Head(queue[k]).session].last = Head(queue[k]).seq]
    BY <1>10 DEF Serve
  <2>2. /\ OneInFlight(k)' /\ ~Established(k) /\ ~Established(k)' /\ queue'[k] = <<>>
        /\ queue[k] # <<>> /\ queue[k][1].type = "Request" /\ Head(queue[k]) = queue[k][1]
    <3>1. conn'[k].up
      BY <1>5, <2>1 DEF OneInFlight
    <3>2. /\ OneInFlight(k)' /\ queue[k] # <<>> /\ queue[k][1].type = "Request"
          /\ queue'[k] = <<>> /\ answers[k] = <<>> /\ answers'[k][1].type = "Request"
          /\ Head(queue[k]) = queue[k][1]
      BY <1>7, <2>1, <3>1
    <3>3. QED
      BY <3>2 DEF Established
  <2>3. /\ conn[k].session # 0 /\ conn[k].session \in DOMAIN table
        /\ queue[k][1].session = conn[k].session
        /\ queue[k][1].seq = table[conn[k].session].last + 1
        /\ queue[k][1].seq = client[k].seq
    BY <1>5, <2>1, <2>2 DEF Validates, OneInFlight
  <2>4. SequenceAgrees(k)
    BY <1>5, <2>2, <2>3 DEF Agrees
  <2>5. ~conn[k].farewell
    BY <1>6, <2>2, <2>3, <2>4 DEF SequenceAgrees, Asked
  <2>6. /\ table'[conn[k].session].last = client[k].seq
        /\ table'[conn[k].session].identity = table[conn[k].session].identity
    BY <1>1, <2>1, <2>2, <2>3 DEF ServerType, Entry
  <2>7. SequenceAgrees(k)'
    BY <1>3, <2>1, <2>2, <2>4, <2>5, <2>6 DEF SequenceAgrees, Asked
  <2>8. QED
    BY <1>3, <1>5, <2>1, <2>2, <2>3, <2>6, <2>7 DEF Agrees
<1>11. CASE RefuseRequest(k)
  <2>1. /\ Handling(k, "Request") /\ Answer(k, FALSE, 0) /\ UNCHANGED <<conn, table>>
        /\ ~Validates(k, Head(queue[k]))
    BY <1>11 DEF RefuseRequest, server
  <2>2. /\ OneInFlight(k)' /\ ~Established(k) /\ ~Established(k)' /\ queue'[k] = <<>>
        /\ queue[k] # <<>> /\ queue[k][1].type = "Request" /\ Head(queue[k]) = queue[k][1]
    <3>1. conn'[k].up
      BY <1>5, <2>1 DEF OneInFlight
    <3>2. /\ OneInFlight(k)' /\ queue[k] # <<>> /\ queue[k][1].type = "Request"
          /\ queue'[k] = <<>> /\ answers[k] = <<>> /\ answers'[k][1].type = "Request"
          /\ Head(queue[k]) = queue[k][1]
      BY <1>7, <2>1, <3>1
    <3>3. QED
      BY <3>2 DEF Established
  <2>3. ASSUME conn[k].session # 0
        PROVE  SequenceAgrees(k)'
    <3>1. SequenceAgrees(k) /\ table[conn[k].session].identity = client[k].identity
      BY <1>5, <2>2, <2>3 DEF Agrees
    <3>2. /\ queue[k][1].session = conn[k].session /\ queue[k][1].seq = client[k].seq
          /\ queue[k][1].identity = table[conn[k].session].identity
      BY <1>5, <2>2, <3>1 DEF OneInFlight, SequenceAgrees
    <3>3. client[k].seq # table[conn[k].session].last + 1
      BY <1>1, <2>1, <2>2, <2>3, <3>2 DEF Validates, Bound
    <3>4. conn[k].farewell
      BY <2>2, <3>1, <3>3 DEF SequenceAgrees, Asked
    <3>5. QED
      BY <1>3, <2>1, <2>2, <3>1, <3>4 DEF SequenceAgrees, Asked
  <2>4. QED
    BY <1>3, <1>5, <2>1, <2>2, <2>3 DEF Agrees
<1>12. CASE AnswerGoodbye(k)
  <2>1. /\ Handling(k, "Goodbye") /\ Answer(k, TRUE, 0) /\ UNCHANGED table
        /\ conn' = [conn EXCEPT ![k].farewell = conn[k].session # 0]
    BY <1>12 DEF AnswerGoodbye
  <2>2. /\ conn'[k].session = conn[k].session /\ conn'[k].up = conn[k].up
        /\ conn'[k].farewell = (conn[k].session # 0)
    BY <1>1, <1>2, <2>1 DEF ServerType, Connection
  <2>3. /\ OneInFlight(k)' /\ ~Established(k) /\ ~Established(k)' /\ queue'[k] = <<>>
        /\ queue[k] # <<>> /\ queue[k][1].type = "Goodbye"
    <3>1. conn'[k].up
      BY <1>5, <2>2 DEF OneInFlight
    <3>2. /\ OneInFlight(k)' /\ queue[k] # <<>> /\ queue[k][1].type = "Goodbye"
          /\ queue'[k] = <<>> /\ answers[k] = <<>> /\ answers'[k][1].type = "Goodbye"
          /\ Head(queue[k]) = queue[k][1]
      BY <1>7, <2>1, <3>1
    <3>3. QED
      BY <3>2 DEF Established
  <2>4. ASSUME conn[k].session # 0
        PROVE  SequenceAgrees(k)'
    <3>1. SequenceAgrees(k)
      BY <1>5, <2>3, <2>4 DEF Agrees
    <3>2. client[k].seq > table[conn[k].session].last
      BY <1>6, <2>3, <2>4, <3>1 DEF SequenceAgrees, Asked
    <3>3. QED
      BY <1>3, <2>1, <2>2, <2>3, <2>4, <3>1, <3>2 DEF SequenceAgrees, Asked
  <2>5. QED
    BY <1>3, <1>5, <2>1, <2>2, <2>3, <2>4 DEF Agrees
<1>13. CASE Teardown(k)
  BY <1>5, <1>13 DEF Teardown, OneInFlight
<1>14. QED
  BY <1>8, <1>9, <1>10, <1>11, <1>12, <1>13 DEF ServerStep
-----------------------------------------------------------------------------
LEMMA SessionsInit == Init => SessionsInv
<1> SUFFICES ASSUME Init
             PROVE  SessionsInv
  OBVIOUS
<1>1. DOMAIN table = {} /\ counter = 0 /\ served = <<>>
  BY DEF Init
<1>2. \A k \in Conns : /\ conn[k] = NoConn /\ client[k] = NoClient
                       /\ queue[k] = <<>> /\ answers[k] = <<>>
  BY DEF Init
<1>3. NoConn \in Connection /\ NoClient \in ClientObject
  BY DEF NoConn, NoClient, Connection, ClientObject, Ident
<1>4. ServerType
  <2>1. table \in [DOMAIN table -> Entry]
    BY <1>1 DEF Init
  <2>2. conn \in [Conns -> Connection]
    BY <1>3 DEF Init
  <2>3. QED
    BY <1>1, <2>1, <2>2 DEF ServerType
<1>5. StreamType
  BY <1>3 DEF StreamType, Init
<1>6. Bound
  <2>1. Cardinality(DOMAIN table) <= MaxSessions
    BY <1>1, FS_EmptySet, SessionsAssumption
  <2>2. \A k \in Conns : conn[k].session = 0
    BY <1>2 DEF NoConn
  <2>3. QED
    BY <1>1, <2>1, <2>2 DEF Bound
<1>7. Counted /\ ServedInSequence
  BY <1>1 DEF Counted, ServedInSequence
<1>8. InStep
  BY <1>2 DEF InStep, HonestAgrees, NoClient
<1>9. QED
  BY <1>4, <1>5, <1>6, <1>7, <1>8 DEF SessionsInv

LEMMA SessionsStep == SessionsInv /\ [Next]_vars => SessionsInv'
<1> SUFFICES ASSUME SessionsInv, [Next]_vars
             PROVE  SessionsInv'
  OBVIOUS
<1>1. ASSUME NEW k \in Conns, ClientStep(k) \/ ServerStep(k)
      PROVE  SessionsInv'
  <2>1. ServerType' /\ StreamType'
    BY <1>1, ClientTypeStep, ServerTypeStep DEF SessionsInv
  <2>2. Bound'
    BY <1>1, BoundStep DEF SessionsInv
  <2>3. Counted' /\ ServedInSequence'
    BY <1>1, CountedStep DEF SessionsInv
  <2>4. ASSUME NEW j \in Conns
        PROVE  HonestAgrees(j)'
    BY <1>1, OthersInStep, ClientInStep, ServerInStep
  <2>5. QED
    BY <2>1, <2>2, <2>3, <2>4 DEF SessionsInv, InStep
<1>2. CASE UNCHANGED vars
  <2>1. /\ table' = table /\ counter' = counter /\ conn' = conn /\ served' = served
        /\ client' = client /\ queue' = queue /\ answers' = answers
    BY <1>2 DEF vars, server
  <2>2. ServerType' /\ StreamType' /\ Bound'
    BY <2>1 DEF SessionsInv, ServerType, StreamType, Bound
  <2>3. Counted' /\ ServedInSequence'
    <3>1. \A s : ServedUnder(s)' = ServedUnder(s)
      BY <2>1 DEF ServedUnder
    <3>2. Counted'
      BY <2>1, <3>1 DEF SessionsInv, Counted
    <3>3. QED
      BY <2>1, <3>2 DEF SessionsInv, ServedInSequence
  <2>4. InStep'
    BY <2>1, ZenonT(30) DEF SessionsInv, InStep, HonestAgrees, OneInFlight, Agrees, Established,
                SequenceAgrees, Asked
  <2>5. QED
    BY <2>2, <2>3, <2>4 DEF SessionsInv
<1>3. QED
  BY <1>1, <1>2, NextCases

LEMMA SessionsInvariance == Spec => []SessionsInv
BY SessionsInit, SessionsStep, PTL DEF Spec

(* README section 7: the table never holds more than max_sessions entries, and each
   of them belongs to exactly one connection, which is alive; for any number of
   connections and any traffic. *)
THEOREM SessionsStayBound == Spec => []SessionsBound
<1>1. SessionsInv => SessionsBound
  <2> SUFFICES ASSUME SessionsInv
               PROVE  SessionsBound
    OBVIOUS
  <2>1. ASSUME NEW s \in DOMAIN table
        PROVE  Cardinality({k \in Conns : conn[k].session = s}) = 1
    <3>1. PICK k \in Conns : conn[k].session = s
      BY DEF SessionsInv, Bound
    <3>2. s # 0
      BY DEF SessionsInv, ServerType
    <3>3. {j \in Conns : conn[j].session = s} = {k}
      BY <3>1, <3>2 DEF SessionsInv, Bound
    <3>4. QED
      BY <3>3, FS_Singleton
  <2>2. QED
    BY <2>1 DEF SessionsInv, Bound, SessionsBound
<1>2. QED
  BY <1>1, SessionsInvariance, PTL

(* README section 7: replay, gaps, foreign tokens and reconnects never disturb the
   sequence: the requests served under a session are numbered 1, 2, 3, ..., over one
   connection and one identity. *)
THEOREM RequestsInSequence == Spec => []ServedInSequence
<1>1. SessionsInv => ServedInSequence
  BY DEF SessionsInv
<1>2. QED
  BY <1>1, SessionsInvariance, PTL

(* client.cpp and session.cpp agree: as long as a client is used through its API and
   loses no call, validate() accepts each of its requests until goodbye() and none
   after it, and every call returns with its own answer. *)
THEOREM ClientStaysInStep == Spec => []HonestInStep
<1>1. SessionsInv => HonestInStep
  <2> SUFFICES ASSUME SessionsInv, NEW k \in Conns, client[k].honest
               PROVE  /\ Len(queue[k]) + Len(answers[k]) = (IF client[k].waiting THEN 1 ELSE 0)
                      /\ \A n \in 1..Len(answers[k]) : answers[k][n].call = client[k].call
                      /\ \A n \in 1..Len(queue[k]) :
                           LET r == queue[k][n]
                           IN /\ r.call = client[k].call
                              /\ r.type = "Request" /\ r.session = conn[k].session /\ r.session # 0 =>
                                   (Validates(k, r) <=> ~conn[k].farewell)
    BY DEF HonestInStep
  <2>1. OneInFlight(k) /\ Agrees(k) /\ StreamType /\ ServerType /\ Bound
    BY DEF SessionsInv, InStep, HonestAgrees
  <2>2. /\ queue[k] \in Seq(Request) /\ answers[k] \in Seq(Response)
        /\ client[k].waiting \in BOOLEAN /\ client[k].seq \in Nat
    BY <2>1 DEF StreamType, ClientObject
  <2>3. Len(queue[k]) + Len(answers[k]) = (IF client[k].waiting THEN 1 ELSE 0)
    BY <2>1 DEF OneInFlight
  <2>4. \A n \in 1..Len(answers[k]) : answers[k][n].call = client[k].call
    <3>1. CASE answers[k] = <<>>
      BY <3>1
    <3>2. CASE answers[k] # <<>>
      <4>1. Len(answers[k]) = 1
        BY <2>2, <2>3, <3>2, EitherStream
      <4>2. answers[k][1].call = client[k].call
        BY <2>1, <3>2 DEF OneInFlight
      <4>3. QED
        BY <4>1, <4>2
    <3>3. QED
      BY <3>1, <3>2
  <2>5. CASE queue[k] = <<>>
    BY <2>3, <2>4, <2>5
  <2>6. CASE queue[k] # <<>>
    <3> DEFINE r == queue[k][1]
    <3>1. Len(queue[k]) = 1 /\ answers[k] = <<>>
      BY <2>2, <2>3, <2>6, EitherStream
    <3>2. /\ r.call = client[k].call /\ r.identity = client[k].identity
          /\ r.type # "Hello" => r.session = client[k].session /\ r.seq = client[k].seq
      BY <2>1, <2>6 DEF OneInFlight
    <3>3. ASSUME r.type = "Request", r.session = conn[k].session, r.session # 0
          PROVE  Validates(k, r) <=> ~conn[k].farewell
      <4>1. /\ SequenceAgrees(k) /\ table[conn[k].session].identity = client[k].identity
            /\ conn[k].session \in DOMAIN table
        BY <2>1, <3>1, <3>3 DEF Agrees, Established, Bound
      <4>2. Asked(k, {"Request"}) /\ Asked(k, {"Request", "Goodbye"})
        BY <2>6, <3>3 DEF Asked
      <4>3. table[conn[k].session].last \in Nat
        BY <2>1, <4>1 DEF ServerType, Entry
      <4>4. r.seq = table[conn[k].session].last + 1 <=> ~conn[k].farewell
        BY <2>2, <3>2, <3>3, <4>1, <4>2, <4>3 DEF SequenceAgrees
      <4>5. QED
        BY <3>2, <3>3, <4>1, <4>4 DEF Validates
    <3>4. QED
      BY <2>3, <2>4, <3>1, <3>2, <3>3
  <2>7. QED
    BY <2>5, <2>6
<1>2. QED
  BY <1>1, SessionsInvariance, PTL
=============================================================================
