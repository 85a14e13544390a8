------------------------------- MODULE Server -------------------------------
(***************************************************************************)
(* The network front end (service/server.cpp): one accept thread, one      *)
(* thread per served connection, and the owner that starts and stops them. *)
(* The threads share `stopping', the slots (under connections_mutex_) and  *)
(* the session table; each step below is one access to them, or one        *)
(* blocking call.  A connection is known by its socket.  The sockets       *)
(* themselves, listen queue included, are the operating system's.  One     *)
(* receive brings one frame, as with the synchronous client.               *)
(***************************************************************************)
EXTENDS Integers, Sequences, FiniteSets

CONSTANTS
  Conns,           \* connections clients may open
  MaxConnections,  \* config.max_connections
  MaxSessions,     \* policy.max_sessions
  Faults           \* which of "stall" (a peer stops reading), "wake" (the
                   \* self-connect of stop() fails), "accept" (accept() fails) happen

Wake == "wake"     \* the self-connection of stop()

ASSUME ServerAssumption ==
  /\ {MaxConnections, MaxSessions} \subseteq Nat \ {0}
  /\ Faults \subseteq {"stall", "wake", "accept"}
  /\ Wake \notin Conns

VARIABLES
  running, stopping,  \* running_ and stopping_
  backlog,            \* the listen queue
  acceptor,           \* the accept thread: where it is, the socket it holds
  thread,             \* where the thread of a connection is
  slots,              \* slots_
  sessions,           \* connections with an entry in the session table
  shut,               \* sockets shut down, by the server or by the peer
  stalled,            \* peers that do not read
  stopper             \* stop(): where it is, the threads it still has to join

vars == <<running, stopping, backlog, acceptor, thread, slots, sessions, shut, stalled, stopper>>

NoSocket == "none"

At(pc, sock) == [pc |-> pc, sock |-> sock]

Init ==
  /\ running = FALSE
  /\ stopping = FALSE
  /\ backlog = <<>>
  /\ acceptor = At("none", NoSocket)
  /\ thread = [c \in Conns |-> "none"]
  /\ slots = {}
  /\ sessions = {}
  /\ shut = {}
  /\ stalled = {}
  /\ stopper = [pc |-> "idle", joining |-> {}]

Queued == {backlog[n] : n \in 1..Len(backlog)}

Start ==
  /\ stopper.pc = "idle" /\ ~running
  /\ running' = TRUE
  /\ stopping' = FALSE
  /\ acceptor' = At("top", NoSocket)
  /\ UNCHANGED <<backlog, thread, slots, sessions, shut, stalled, stopper>>
-----------------------------------------------------------------------------
(* Clients: connect, stop reading, close. *)

Connect(c) ==
  /\ running
  /\ thread[c] = "none" /\ c \notin Queued /\ acceptor.sock # c
  /\ backlog' = Append(backlog, c)
  /\ shut' = shut \ {c}
  /\ stalled' = stalled \ {c}
  /\ UNCHANGED <<running, stopping, acceptor, thread, slots, sessions, stopper>>

Stall(c) ==
  /\ "stall" \in Faults
  /\ thread[c] \in {"reading", "sending"}
  /\ stalled' = stalled \cup {c}
  /\ UNCHANGED <<running, stopping, backlog, acceptor, thread, slots, sessions, shut, stopper>>

PeerCloses(c) ==
  /\ thread[c] \in {"top", "reading", "sending"}
  /\ shut' = shut \cup {c}
  /\ UNCHANGED <<running, stopping, backlog, acceptor, thread, slots, sessions, stalled, stopper>>
-----------------------------------------------------------------------------
(* accept_loop(). *)

AcceptLoopTop ==
  /\ acceptor.pc = "top"
  /\ acceptor' = At(IF stopping THEN "exited" ELSE "accept", NoSocket)
  /\ UNCHANGED <<running, stopping, backlog, thread, slots, sessions, shut, stalled, stopper>>

Accept ==
  /\ acceptor.pc = "accept"
  /\ backlog # <<>>
  /\ acceptor' = At("check", Head(backlog))
  /\ backlog' = Tail(backlog)
  /\ UNCHANGED <<running, stopping, thread, slots, sessions, shut, stalled, stopper>>

AcceptFails ==
  /\ "accept" \in Faults
  /\ acceptor.pc = "accept"
  /\ acceptor' = At(IF stopping THEN "exited" ELSE "top", NoSocket)
  /\ UNCHANGED <<running, stopping, backlog, thread, slots, sessions, shut, stalled, stopper>>

CheckStopping ==
  /\ acceptor.pc = "check"
  /\ acceptor' = IF stopping THEN At("exited", NoSocket) ELSE [acceptor EXCEPT !.pc = "reap"]
  /\ UNCHANGED <<running, stopping, backlog, thread, slots, sessions, shut, stalled, stopper>>

(* reap_finished(): only threads that have set their flag are joined. *)
Finished == {c \in slots : thread[c] = "done"}

(* Mutant of ReapFinished: the accept thread joins live connections too. *)
ReapAll ==
  /\ acceptor.pc = "reap"
  /\ slots = Finished
  /\ slots' = {}
  /\ thread' = [c \in Conns |-> IF c \in Finished THEN "none" ELSE thread[c]]
  /\ acceptor' = [acceptor EXCEPT !.pc = "admit"]
  /\ UNCHANGED <<running, stopping, backlog, sessions, shut, stalled, stopper>>

ReapFinished ==
  /\ acceptor.pc = "reap"
  /\ slots' = slots \ Finished
  /\ thread' = [c \in Conns |-> IF c \in Finished THEN "none" ELSE thread[c]]
  /\ acceptor' = [acceptor EXCEPT !.pc = "admit"]
  /\ UNCHANGED <<running, stopping, backlog, sessions, shut, stalled, stopper>>

(* Mutant of OverCapacity: off by one. *)
OverCapacityByOne == Cardinality(slots) > MaxConnections

OverCapacity == Cardinality(slots) >= MaxConnections

AdmitOrRefuse ==
  /\ acceptor.pc = "admit"
  /\ acceptor' = IF OverCapacity THEN At("top", NoSocket) ELSE [acceptor EXCEPT !.pc = "spawn"]
  /\ UNCHANGED <<running, stopping, backlog, thread, slots, sessions, shut, stalled, stopper>>

(* The thread runs before its slot is published. *)
Spawn ==
  /\ acceptor.pc = "spawn"
  /\ thread' = [thread EXCEPT ![acceptor.sock] = "top"]
  /\ acceptor' = [acceptor EXCEPT !.pc = "publish"]
  /\ UNCHANGED <<running, stopping, backlog, slots, sessions, shut, stalled, stopper>>

Publish ==
  /\ acceptor.pc = "publish"
  /\ slots' = slots \cup {acceptor.sock}
  /\ acceptor' = At("top", NoSocket)
  /\ UNCHANGED <<running, stopping, backlog, thread, sessions, shut, stalled, stopper>>
-----------------------------------------------------------------------------
(* serve_connection(). *)

Go(c, pc) == thread' = [thread EXCEPT ![c] = pc]

(* Mutant of ServeLoopTop: the loop does not look at the flag. *)
ServeOn(c) ==
  /\ thread[c] = "top"
  /\ Go(c, "reading")
  /\ UNCHANGED <<running, stopping, backlog, acceptor, slots, sessions, shut, stalled, stopper>>

ServeLoopTop(c) ==
  /\ thread[c] = "top"
  /\ Go(c, IF stopping THEN "closing" ELSE "reading")
  /\ UNCHANGED <<running, stopping, backlog, acceptor, slots, sessions, shut, stalled, stopper>>

(* net_wait_readable() gives up after a slice. *)
SliceEnds(c) ==
  /\ thread[c] = "reading"
  /\ Go(c, "top")
  /\ UNCHANGED <<running, stopping, backlog, acceptor, slots, sessions, shut, stalled, stopper>>

(* A frame arrives and is dispatched; a Hello may establish the session. *)
Dispatch(c, hello) ==
  /\ thread[c] = "reading"
  /\ sessions' = IF hello /\ Cardinality(sessions) < MaxSessions
                 THEN sessions \cup {c} ELSE sessions
  /\ Go(c, "sending")
  /\ UNCHANGED <<running, stopping, backlog, acceptor, slots, shut, stalled, stopper>>

(* Nothing more to read, or a frame the decoder refuses. *)
EndOfStream(c) ==
  /\ thread[c] = "reading"
  /\ Go(c, "closing")
  /\ UNCHANGED <<running, stopping, backlog, acceptor, slots, sessions, shut, stalled, stopper>>

(* net_send_all() blocks while the peer does not read. *)
Sent(c) ==
  /\ thread[c] = "sending" /\ c \notin stalled \cup shut
  /\ Go(c, "top")
  /\ UNCHANGED <<running, stopping, backlog, acceptor, slots, sessions, shut, stalled, stopper>>

SendFails(c) ==
  /\ thread[c] = "sending" /\ c \in shut
  /\ Go(c, "closing")
  /\ UNCHANGED <<running, stopping, backlog, acceptor, slots, sessions, shut, stalled, stopper>>

(* Shutdown, release of the session, close. *)
Teardown(c) ==
  /\ thread[c] = "closing"
  /\ Go(c, "closed")
  /\ sessions' = sessions \ {c}
  /\ shut' = shut \cup {c}
  /\ UNCHANGED <<running, stopping, backlog, acceptor, slots, stalled, stopper>>

SetDone(c) ==
  /\ thread[c] = "closed"
  /\ Go(c, "done")
  /\ UNCHANGED <<running, stopping, backlog, acceptor, slots, sessions, shut, stalled, stopper>>
-----------------------------------------------------------------------------
(* stop(). *)

BeginStop ==
  /\ stopper.pc = "idle" /\ running
  /\ stopping' = TRUE
  /\ stopper' = [stopper EXCEPT !.pc = "wake"]
  /\ UNCHANGED <<running, backlog, acceptor, thread, slots, sessions, shut, stalled>>

WakeAcceptor(ok) ==
  /\ stopper.pc = "wake"
  /\ ok \/ "wake" \in Faults
  /\ backlog' = IF ok THEN Append(backlog, Wake) ELSE backlog
  /\ stopper' = [stopper EXCEPT !.pc = "shut"]
  /\ UNCHANGED <<running, stopping, acceptor, thread, slots, sessions, shut, stalled>>

ShutLive ==
  /\ stopper.pc = "shut"
  /\ shut' = shut \cup slots
  /\ stopper' = [stopper EXCEPT !.pc = "joinAccept"]
  /\ UNCHANGED <<running, stopping, backlog, acceptor, thread, slots, sessions, stalled>>

(* Mutant of JoinAccept: the connections are joined before the accept thread. *)
JoinAcceptLater ==
  /\ stopper.pc = "joinAccept"
  /\ stopper' = [stopper EXCEPT !.pc = "take"]
  /\ UNCHANGED <<running, stopping, backlog, acceptor, thread, slots, sessions, shut, stalled>>

JoinAccept ==
  /\ stopper.pc = "joinAccept"
  /\ acceptor.pc = "exited"
  /\ stopper' = [stopper EXCEPT !.pc = "take"]
  /\ UNCHANGED <<running, stopping, backlog, acceptor, thread, slots, sessions, shut, stalled>>

TakeSlots ==
  /\ stopper.pc = "take"
  /\ stopper' = [pc |-> "joinAll", joining |-> slots]
  /\ slots' = {}
  /\ UNCHANGED <<running, stopping, backlog, acceptor, thread, sessions, shut, stalled>>

Join(c) ==
  /\ stopper.pc = "joinAll"
  /\ c \in stopper.joining /\ thread[c] = "done"
  /\ stopper' = [stopper EXCEPT !.joining = @ \ {c}]
  /\ Go(c, "none")
  /\ UNCHANGED <<running, stopping, backlog, acceptor, slots, sessions, shut, stalled>>

(* The listener is closed, with it what it still queues; the table is cleared. *)
EndStop ==
  /\ stopper.pc = "joinAll" /\ stopper.joining = {}
  /\ backlog' = <<>>
  /\ acceptor' = At("none", NoSocket)
  /\ sessions' = {}
  /\ running' = FALSE
  /\ stopper' = [stopper EXCEPT !.pc = "idle"]
  /\ UNCHANGED <<stopping, thread, slots, shut, stalled>>
-----------------------------------------------------------------------------
AcceptorStep ==
  AcceptLoopTop \/ Accept \/ AcceptFails \/ CheckStopping \/ ReapFinished \/ AdmitOrRefuse
    \/ Spawn \/ Publish

ThreadStep(c) ==
  \/ ServeLoopTop(c) \/ SliceEnds(c) \/ EndOfStream(c)
  \/ \E hello \in BOOLEAN : Dispatch(c, hello)
  \/ Sent(c) \/ SendFails(c) \/ Teardown(c) \/ SetDone(c)

StopStep ==
  \/ \E ok \in BOOLEAN : WakeAcceptor(ok)
  \/ ShutLive \/ JoinAccept \/ TakeSlots \/ EndStop
  \/ \E c \in Conns : Join(c)

Next ==
  \/ Start \/ BeginStop
  \/ AcceptorStep
  \/ StopStep
  \/ \E c \in Conns : Connect(c) \/ Stall(c) \/ PeerCloses(c) \/ ThreadStep(c)

Spec == Init /\ [][Next]_vars

(* Every thread runs, and accept() does not fail forever while a connection is queued;
   nobody else need do anything. *)
FairSpec ==
  /\ Spec
  /\ WF_vars(AcceptorStep) /\ SF_vars(Accept)
  /\ WF_vars(StopStep)
  /\ \A c \in Conns : WF_vars(ThreadStep(c))
-----------------------------------------------------------------------------
(* server.hpp: "Hard bound on simultaneously served connections".  It counts the
   threads, also the one whose slot is not published yet, those that wait to be
   reaped and those stop() is joining. *)
ThreadsBounded == Cardinality({c \in Conns : thread[c] # "none"}) <= MaxConnections

(* stop() joins every thread: once it has returned no thread, slot, session or
   queued connection of the run is left, however it raced with accept. *)
StopQuiescent ==
  ~running => /\ \A c \in Conns : thread[c] = "none"
              /\ slots = {} /\ sessions = {} /\ backlog = <<>>
              /\ acceptor.pc = "none"

(* server.hpp: stop() "shuts down every live connection so blocked reads return, and
   joins every thread".  Once the connections are shut down, stop() returns unless one
   of two things keeps it: a connection blocked in a send that the shutdown missed,
   because its slot was not published yet; or the accept thread, when the self-connect
   failed and nobody connects. *)
Missed == \E c \in stalled : thread[c] = "sending" /\ c \notin shut

Unwoken == acceptor.pc = "accept" /\ backlog = <<>>

StopReturns == stopper.pc = "joinAccept" ~> ~running \/ Missed \/ Unwoken

(* README section 7: "a client that holds its session open can never block another
   client": a connection in the queue is taken up, whatever the others do, as long as
   the server is not being stopped. *)
NobodyBlocked == \A c \in Conns : c \in Queued ~> c \notin Queued \/ stopping
=============================================================================
