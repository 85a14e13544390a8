------------------------------ MODULE Sessions ------------------------------
(***************************************************************************)
(* Session authority over the wire: the session table                      *)
(* (protocol/session.cpp), the request dispatch of one connection          *)
(* (service/server.cpp, dispatch_frame) and the synchronous client         *)
(* (service/client.cpp).  A connection is a pair of FIFO byte streams; a   *)
(* frame is whole or not there.  A session id is a hash of the client      *)
(* identity and a counter, here the counter.  What the engine does with a  *)
(* request is modelled in Engine.                                          *)
(***************************************************************************)
EXTENDS Integers, Sequences, FiniteSets

CONSTANTS
  Conns,        \* connections
  Identities,   \* client boot and incarnation pairs
  MaxSessions,  \* policy.max_sessions
  MaxIds,       \* bound on the sessions ever established
  MaxCalls,     \* bound on the calls of all clients
  MaxSeq        \* bound on the sequence numbers of raw tokens

ASSUME SessionsAssumption ==
  /\ MaxSessions \in Nat \ {0}
  /\ {MaxIds, MaxCalls, MaxSeq} \subseteq Nat

VARIABLES
  table,    \* sessions_: session id -> [identity, last]
  counter,  \* counter_
  conn,     \* ConnectionState of the server thread, and whether it still runs
  client,   \* the client object at the other end
  calls,    \* the number of client calls so far
  queue,    \* requests not yet handled
  answers,  \* responses not yet read
  served    \* history: the requests validate() let through

server == <<table, counter, conn, served>>
vars == <<server, client, calls, queue, answers>>

NoConn == [up |-> FALSE, session |-> 0, farewell |-> FALSE]

(* call numbers the call in progress, or the last one, and hello tells whether that
   is hello().  honest: only used through its API, and no call of it was lost on the
   way. *)
NoClient ==
  [identity |-> 0, session |-> 0, seq |-> 0, call |-> 0, hello |-> FALSE, waiting |-> FALSE,
   connected |-> FALSE, honest |-> FALSE]

Init ==
  /\ table = [s \in {} |-> [identity |-> 0, last |-> 0]]
  /\ counter = 0
  /\ conn = [k \in Conns |-> NoConn]
  /\ client = [k \in Conns |-> NoClient]
  /\ calls = 0
  /\ queue = [k \in Conns |-> <<>>]
  /\ answers = [k \in Conns |-> <<>>]
  /\ served = <<>>
-----------------------------------------------------------------------------
(* The client. *)

(* connect_loopback(): the object may still know the session of an earlier
   connection; the connection is accepted. *)
Connect(k, identity, old) ==
  /\ ~client[k].connected /\ ~conn[k].up
  /\ client' = [client EXCEPT ![k] = [NoClient EXCEPT !.identity = identity,
                                        !.session = old, !.connected = TRUE,
                                        !.honest = TRUE]]
  /\ conn' = [conn EXCEPT ![k] = [NoConn EXCEPT !.up = TRUE]]
  /\ queue' = [queue EXCEPT ![k] = <<>>]
  /\ answers' = [answers EXCEPT ![k] = <<>>]
  /\ UNCHANGED <<calls, table, counter, served>>

CanSend(k) == client[k].connected /\ ~client[k].waiting /\ calls < MaxCalls

Frame(type, session, identity, seq, call) ==
  [type |-> type, session |-> session, identity |-> identity, seq |-> seq, call |-> call]

Send(k, type, session, identity, seq) ==
  queue' = [queue EXCEPT ![k] = Append(@, Frame(type, session, identity, seq, client[k].call + 1))]

SendHello(k) ==
  /\ CanSend(k)
  /\ Send(k, "Hello", 0, client[k].identity, 0)
  /\ client' = [client EXCEPT ![k].call = @ + 1, ![k].hello = TRUE, ![k].waiting = TRUE]
  /\ calls' = calls + 1
  /\ UNCHANGED <<server, answers>>

(* Every other call of the API: next_token(), encode, exchange(). *)
SendRequest(k, type) ==
  /\ CanSend(k)
  /\ Send(k, type, client[k].session, client[k].identity, client[k].seq + 1)
  /\ client' = [client EXCEPT ![k].call = @ + 1, ![k].seq = @ + 1, ![k].hello = FALSE,
                              ![k].waiting = TRUE]
  /\ calls' = calls + 1
  /\ UNCHANGED <<server, answers>>

(* The request does not fit its buffer: the token is spent, nothing is sent. *)
EncodeFails(k) ==
  /\ CanSend(k)
  /\ client' = [client EXCEPT ![k].call = @ + 1, ![k].seq = @ + 1, ![k].honest = FALSE]
  /\ calls' = calls + 1
  /\ UNCHANGED <<server, queue, answers>>

(* send_raw(): an arbitrary token. *)
SendRaw(k, session, identity, seq) ==
  /\ CanSend(k)
  /\ Send(k, "Request", session, identity, seq)
  /\ client' = [client EXCEPT ![k].call = @ + 1, ![k].hello = FALSE, ![k].waiting = TRUE,
                              ![k].honest = FALSE]
  /\ calls' = calls + 1
  /\ UNCHANGED <<server, answers>>

(* Mutant of Receive: hello() does not reset the sequence. *)
ReceiveKeepsSeq(k) ==
  /\ client[k].waiting /\ answers[k] # <<>>
  /\ LET a == Head(answers[k])
     IN client' = [client EXCEPT ![k].waiting = FALSE,
                                 ![k].session = IF a.type = "Hello" /\ a.ok /\ client[k].hello
                                                   THEN a.session ELSE @]
  /\ answers' = [answers EXCEPT ![k] = Tail(@)]
  /\ UNCHANGED <<calls, server, queue>>

(* exchange() returns with the first frame it decodes; one of another type than the
   call expects is an error. *)
Receive(k) ==
  /\ client[k].waiting /\ answers[k] # <<>>
  /\ LET a == Head(answers[k])
         established == a.type = "Hello" /\ a.ok /\ client[k].hello
     IN client' = [client EXCEPT ![k].waiting = FALSE,
                                 ![k].session = IF established THEN a.session ELSE @,
                                 ![k].seq = IF established THEN 0 ELSE @]
  /\ answers' = [answers EXCEPT ![k] = Tail(@)]
  /\ UNCHANGED <<calls, server, queue>>

(* recv() fails although the connection lives: the call returns without its
   answer and the client stays connected. *)
ReceiveFails(k) ==
  /\ client[k].waiting
  /\ client' = [client EXCEPT ![k].waiting = FALSE, ![k].honest = FALSE]
  /\ UNCHANGED <<calls, server, queue, answers>>

Close(k) ==
  /\ client[k].connected
  /\ client' = [client EXCEPT ![k] = NoClient]
  /\ UNCHANGED <<calls, server, queue, answers>>
-----------------------------------------------------------------------------
(* The server: dispatch_frame() on the next request of a connection. *)

Handling(k, type) == conn[k].up /\ queue[k] # <<>> /\ Head(queue[k]).type = type

Answer(k, ok, session) ==
  LET r == Head(queue[k])
  IN /\ queue' = [queue EXCEPT ![k] = Tail(@)]
     /\ answers' = [answers EXCEPT ![k] =
                      Append(@, [type |-> r.type, ok |-> ok, session |-> session,
                                 call |-> r.call])]

CanEstablish(k) == conn[k].session = 0 /\ Cardinality(DOMAIN table) < MaxSessions

Establish(k) ==
  /\ Handling(k, "Hello")
  /\ CanEstablish(k)
  /\ counter < MaxIds
  /\ counter' = counter + 1
  /\ table' = [s \in DOMAIN table \cup {counter + 1} |->
                 IF s = counter + 1
                 THEN [identity |-> Head(queue[k]).identity, last |-> 0] ELSE table[s]]
  /\ conn' = [conn EXCEPT ![k].session = counter + 1]
  /\ Answer(k, TRUE, counter + 1)
  /\ UNCHANGED <<calls, client, served>>

RefuseHello(k) ==
  /\ Handling(k, "Hello")
  /\ ~CanEstablish(k)
  /\ Answer(k, FALSE, 0)
  /\ UNCHANGED <<calls, server, client>>

(* Mutant of Validates: a gap is let through. *)
ValidatesAnyLater(k, r) ==
  /\ conn[k].session # 0
  /\ r.session = conn[k].session
  /\ r.session \in DOMAIN table
  /\ r.identity = table[r.session].identity
  /\ r.seq > table[r.session].last

(* require_session() and SessionTable::validate(). *)
Validates(k, r) ==
  /\ conn[k].session # 0
  /\ r.session = conn[k].session
  /\ r.session \in DOMAIN table
  /\ r.identity = table[r.session].identity
  /\ r.seq = table[r.session].last + 1

Serve(k) ==
  /\ Handling(k, "Request")
  /\ LET r == Head(queue[k])
     IN /\ Validates(k, r)
        /\ table' = [table EXCEPT ![r.session].last = r.seq]
        /\ served' = Append(served, [conn |-> k, session |-> r.session,
                                     identity |-> r.identity, seq |-> r.seq])
  /\ Answer(k, TRUE, 0)
  /\ UNCHANGED <<calls, counter, conn, client>>

RefuseRequest(k) ==
  /\ Handling(k, "Request")
  /\ ~Validates(k, Head(queue[k]))
  /\ Answer(k, FALSE, 0)
  /\ UNCHANGED <<calls, server, client>>

(* Goodbye is answered without a look at its token and changes nothing; `farewell' is
   the history of it. *)
AnswerGoodbye(k) ==
  /\ Handling(k, "Goodbye")
  /\ Answer(k, TRUE, 0)
  /\ conn' = [conn EXCEPT ![k].farewell = conn[k].session # 0]
  /\ UNCHANGED <<calls, table, counter, client, served>>

(* Mutant of Teardown: the session is not released. *)
TeardownUnreleased(k) ==
  /\ conn[k].up /\ ~client[k].connected
  /\ conn' = [conn EXCEPT ![k] = NoConn]
  /\ queue' = [queue EXCEPT ![k] = <<>>]
  /\ answers' = [answers EXCEPT ![k] = <<>>]
  /\ UNCHANGED <<calls, table, counter, client, served>>

(* The end of serve_connection(), once the peer has closed. *)
Teardown(k) ==
  /\ conn[k].up /\ ~client[k].connected
  /\ table' = [s \in DOMAIN table \ {conn[k].session} |-> table[s]]
  /\ conn' = [conn EXCEPT ![k] = NoConn]
  /\ queue' = [queue EXCEPT ![k] = <<>>]
  /\ answers' = [answers EXCEPT ![k] = <<>>]
  /\ UNCHANGED <<calls, counter, client, served>>

Next ==
  \E k \in Conns :
    \/ \E i \in Identities, old \in 0..counter : Connect(k, i, old)
    \/ SendHello(k) \/ EncodeFails(k) \/ Receive(k) \/ ReceiveFails(k) \/ Close(k)
    \/ \E type \in {"Request", "Goodbye"} : SendRequest(k, type)
    \/ \E s \in 1..counter, i \in Identities, seq \in 1..MaxSeq : SendRaw(k, s, i, seq)
    \/ Establish(k) \/ RefuseHello(k) \/ Serve(k) \/ RefuseRequest(k) \/ AnswerGoodbye(k)
    \/ Teardown(k)

Spec == Init /\ [][Next]_vars
-----------------------------------------------------------------------------
(* README section 7: a session is bound to exactly one connection, as long as that
   connection lives and no longer; the table is bounded. *)
SessionsBound ==
  /\ Cardinality(DOMAIN table) <= MaxSessions
  /\ \A s \in DOMAIN table : Cardinality({k \in Conns : conn[k].session = s}) = 1
  /\ \A k \in Conns : conn[k].session # 0 => conn[k].up /\ conn[k].session \in DOMAIN table

(* README section 7: whatever tokens are presented, replayed or guessed, over
   whichever connection, also after a reconnect, the requests served under a session
   come over one connection and one identity and are numbered 1, 2, 3, ... *)
ServedInSequence ==
  \A n \in 1..Len(served) :
    LET r == served[n]
        earlier == {m \in 1..(n - 1) : served[m].session = r.session}
    IN /\ r.seq = Cardinality(earlier) + 1
       /\ \A m \in earlier : served[m].conn = r.conn /\ served[m].identity = r.identity

(* The client's counter and the server's agree: a request an honest client makes
   under the session of its connection is the one validate() waits for, and a call
   returns with the answer to itself.  Goodbye, which the server answers without
   counting its token or releasing the session, is the end of it: no request of the
   client is served afterwards, until it reconnects. *)
HonestInStep ==
  \A k \in Conns : client[k].honest =>
    /\ Len(queue[k]) + Len(answers[k]) = (IF client[k].waiting THEN 1 ELSE 0)
    /\ \A n \in 1..Len(answers[k]) : answers[k][n].call = client[k].call
    /\ \A n \in 1..Len(queue[k]) :
         LET r == queue[k][n]
         IN /\ r.call = client[k].call
            /\ r.type = "Request" /\ r.session = conn[k].session /\ r.session # 0 =>
                 (Validates(k, r) <=> ~conn[k].farewell)
=============================================================================
