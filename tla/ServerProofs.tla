---------------------------- MODULE ServerProofs ----------------------------
(***************************************************************************)
(* The threads of Server, for any number of connections and any limits.    *)
(* ServerInv is the inductive invariant.  Its heart is Accounted: a thread *)
(* that has not been joined is in the slots, in the hands of stop(), or    *)
(* the one the accept thread has just started and not published; the       *)
(* phases of stop() (Phases) keep the last two from overlapping.           *)
(***************************************************************************)
EXTENDS Server, FiniteSetTheorems, TLAPS

AcceptorPcs == {"none", "top", "accept", "check", "reap", "admit", "spawn", "publish", "exited"}

ThreadPcs == {"none", "top", "reading", "sending", "closing", "closed", "done"}

StopperPcs == {"idle", "wake", "shut", "joinAccept", "take", "joinAll"}

ServerType ==
  /\ running \in BOOLEAN /\ stopping \in BOOLEAN
  /\ backlog \in Seq(Conns \cup {Wake})
  /\ acceptor \in [pc : AcceptorPcs, sock : Conns \cup {Wake, NoSocket}]
  /\ thread \in [Conns -> ThreadPcs]
  /\ slots \in SUBSET Conns /\ IsFiniteSet(slots)
  /\ stopper \in [pc : StopperPcs, joining : SUBSET Conns] /\ IsFiniteSet(stopper.joining)

(* The self-connection is queued, or taken, only once the flag is set; what is past
   the check of the flag is a connection. *)
WakeSeen ==
  /\ \A n \in 1..Len(backlog) : backlog[n] = Wake => stopping
  /\ acceptor.pc = "check" => (acceptor.sock \in Conns \/ stopping)
  /\ acceptor.pc \in {"reap", "admit", "spawn", "publish"} => acceptor.sock \in Conns

(* The thread that runs and has no slot yet. *)
Unpublished == IF acceptor.pc = "publish" THEN {acceptor.sock} ELSE {}

Live == {c \in Conns : thread[c] # "none"}

Accounted == Live = slots \cup stopper.joining \cup Unpublished

(* Room for one more when a thread is started, because only the accept thread adds slots. *)
Room ==
  /\ Cardinality(slots) <= MaxConnections
  /\ Cardinality(stopper.joining) <= MaxConnections
  /\ acceptor.pc \in {"spawn", "publish"} => Cardinality(slots) < MaxConnections

(* Where the accept thread can be in each phase of start() and stop(). *)
Phases ==
  /\ stopper.pc # "idle" => running /\ stopping
  /\ stopper.pc \in {"take", "joinAll"} => acceptor.pc = "exited"
  /\ stopper.pc = "joinAll" => slots = {}
  /\ stopper.pc # "joinAll" => stopper.joining = {}
  /\ ~running => acceptor.pc = "none" /\ slots = {} /\ backlog = <<>> /\ sessions = {}

ServerInv == ServerType /\ WakeSeen /\ Accounted /\ Room /\ Phases
-----------------------------------------------------------------------------
LEMMA Sizes ==
  ASSUME ServerType
  PROVE  Cardinality(slots) \in Nat /\ Cardinality(stopper.joining) \in Nat
BY FS_CardinalityType DEF ServerType

LEMMA Limits == MaxConnections \in Nat /\ MaxConnections # 0 /\ Wake \notin Conns
BY ServerAssumption

(* While the server is down no thread is left. *)
LEMMA DownIsQuiet ==
  ASSUME ServerInv, ~running
  PROVE  Live = {}
BY DEF ServerInv, Phases, Accounted, Unpublished

(* A served connection goes from one step to the next: nothing else changes but its
   session, and only while the server is up. *)
LEMMA ThreadMoves ==
  ASSUME ServerInv, NEW c \in Conns, thread[c] # "none",
         NEW pc \in ThreadPcs \ {"none"}, Go(c, pc),
         UNCHANGED <<running, stopping, backlog, acceptor, slots, stopper>>
  PROVE  ServerInv'
<1>1. thread' \in [Conns -> ThreadPcs]
  BY DEF Go, ServerInv, ServerType
<1>2. Live' = Live
  BY DEF Go, ServerInv, ServerType, Live
<1>3. running
  BY DownIsQuiet DEF Live
<1>4. ServerType' /\ WakeSeen'
  BY <1>1 DEF ServerInv, ServerType, WakeSeen
<1>5. Accounted' /\ Room' /\ Phases'
  BY <1>2, <1>3 DEF ServerInv, Accounted, Unpublished, Room, Phases
<1>6. QED
  BY <1>4, <1>5 DEF ServerInv

LEMMA ThreadStepKeeps ==
  ASSUME ServerInv, NEW c \in Conns, ThreadStep(c)
  PROVE  ServerInv'
<1>1. \E pc \in ThreadPcs \ {"none"} : Go(c, pc)
  BY DEF ThreadStep, ServeLoopTop, SliceEnds, EndOfStream, Dispatch, Sent, SendFails, Teardown,
         SetDone, ThreadPcs
<1>2. thread[c] # "none" /\ UNCHANGED <<running, stopping, backlog, acceptor, slots, stopper>>
  BY DEF ThreadStep, ServeLoopTop, SliceEnds, EndOfStream, Dispatch, Sent, SendFails, Teardown,
         SetDone
<1>3. QED
  BY <1>1, <1>2, ThreadMoves

(* The peers only touch the sockets. *)
LEMMA PeerKeeps ==
  ASSUME ServerInv, NEW c \in Conns, Connect(c) \/ Stall(c) \/ PeerCloses(c)
  PROVE  ServerInv'
<1>1. CASE Connect(c)
  <2>1. /\ backlog' = Append(backlog, c) /\ running /\ c # Wake
        /\ UNCHANGED <<running, stopping, acceptor, thread, slots, sessions, stopper>>
    BY <1>1, Limits DEF Connect
  <2>2. backlog' \in Seq(Conns \cup {Wake})
    BY <2>1 DEF ServerInv, ServerType
  <2>3. \A n \in 1..Len(backlog') : backlog'[n] = Wake => stopping'
    BY <2>1 DEF ServerInv, ServerType, WakeSeen
  <2>4. ServerType' /\ WakeSeen'
    BY <2>1, <2>2, <2>3 DEF ServerInv, ServerType, WakeSeen
  <2>5. Accounted' /\ Room' /\ Phases'
    BY <2>1 DEF ServerInv, Accounted, Live, Unpublished, Room, Phases
  <2>6. QED
    BY <2>4, <2>5 DEF ServerInv
<1>2. CASE Stall(c) \/ PeerCloses(c)
  BY <1>2 DEF Stall, PeerCloses, ServerInv, ServerType, WakeSeen, Accounted, Live, Unpublished,
       Room, Phases
<1>3. QED
  BY <1>1, <1>2

(* start(): there is nothing left of an earlier run. *)
LEMMA StartKeeps ==
  ASSUME ServerInv, Start
  PROVE  ServerInv'
<1>1. /\ ~running /\ running' = TRUE /\ stopping' = FALSE /\ acceptor' = At("top", NoSocket)
      /\ stopper.pc = "idle" /\ UNCHANGED <<backlog, thread, slots, sessions, stopper>>
  BY DEF Start
<1>2. backlog = <<>> /\ slots = {} /\ stopper.joining = {} /\ acceptor.pc = "none"
  BY <1>1 DEF ServerInv, Phases
<1>3. acceptor'.pc = "top"
  BY <1>1 DEF At
<1>4. ServerType'
  BY <1>1 DEF ServerInv, ServerType, At, AcceptorPcs
<1>5. WakeSeen'
  BY <1>1, <1>2, <1>3 DEF WakeSeen
<1>6. Accounted'
  BY <1>1, <1>2, <1>3 DEF ServerInv, Accounted, Live, Unpublished
<1>7. Room' /\ Phases'
  BY <1>1, <1>2, <1>3 DEF ServerInv, Room, Phases
<1>8. QED
  BY <1>4, <1>5, <1>6, <1>7 DEF ServerInv
-----------------------------------------------------------------------------
(* The accept thread moves on and starts or joins nothing. *)
LEMMA AcceptorMoves ==
  ASSUME ServerInv, acceptor.pc \notin {"publish", "exited", "none"},
         acceptor' \in [pc : AcceptorPcs, sock : Conns \cup {Wake, NoSocket}],
         acceptor'.pc \notin {"publish", "none"},
         acceptor'.pc \in {"check"} => (acceptor'.sock \in Conns \/ stopping),
         acceptor'.pc \in {"reap", "admit", "spawn"} => acceptor'.sock \in Conns,
         acceptor'.pc = "spawn" => Cardinality(slots) < MaxConnections,
         backlog' \in Seq(Conns \cup {Wake}),
         \A n \in 1..Len(backlog') : backlog'[n] = Wake => stopping,
         UNCHANGED <<running, stopping, thread, slots, sessions, stopper>>
  PROVE  ServerInv'
<1>1. running /\ stopper.pc \notin {"take", "joinAll"}
  BY DEF ServerInv, Phases
<1>2. ServerType' /\ WakeSeen'
  BY DEF ServerInv, ServerType, WakeSeen
<1>3. Accounted'
  BY DEF ServerInv, Accounted, Live, Unpublished
<1>4. Room' /\ Phases'
  BY <1>1 DEF ServerInv, Room, Phases
<1>5. QED
  BY <1>2, <1>3, <1>4 DEF ServerInv

LEMMA AcceptorKeeps ==
  ASSUME ServerInv, AcceptorStep
  PROVE  ServerInv'
<1>1. /\ acceptor \in [pc : AcceptorPcs, sock : Conns \cup {Wake, NoSocket}]
      /\ backlog \in Seq(Conns \cup {Wake})
      /\ \A n \in 1..Len(backlog) : backlog[n] = Wake => stopping
      /\ stopping \in BOOLEAN
  BY DEF ServerInv, ServerType, WakeSeen
<1>2. CASE AcceptLoopTop \/ AcceptFails
  <2>1. /\ acceptor.pc \in {"top", "accept"}
        /\ acceptor' \in {At("exited", NoSocket), At("accept", NoSocket), At("top", NoSocket)}
        /\ UNCHANGED <<running, stopping, backlog, thread, slots, sessions, stopper>>
    BY <1>2 DEF AcceptLoopTop, AcceptFails
  <2>2. /\ acceptor'.pc \in {"exited", "accept", "top"}
        /\ acceptor' \in [pc : AcceptorPcs, sock : Conns \cup {Wake, NoSocket}]
    BY <2>1 DEF At, AcceptorPcs
  <2>3. QED
    BY <1>1, <2>1, <2>2, AcceptorMoves
<1>3. CASE Accept
  <2>1. /\ acceptor.pc = "accept" /\ backlog # <<>> /\ backlog' = Tail(backlog)
        /\ acceptor' = At("check", Head(backlog))
        /\ UNCHANGED <<running, stopping, thread, slots, sessions, stopper>>
    BY <1>3 DEF Accept
  <2>2. /\ Head(backlog) \in Conns \cup {Wake} /\ Head(backlog) = backlog[1]
        /\ Head(backlog) = Wake => stopping
        /\ Tail(backlog) \in Seq(Conns \cup {Wake})
        /\ \A n \in 1..Len(Tail(backlog)) : Tail(backlog)[n] = Wake => stopping
    BY <1>1, <2>1
  <2>3. /\ acceptor'.pc = "check" /\ acceptor'.sock = Head(backlog)
        /\ acceptor' \in [pc : AcceptorPcs, sock : Conns \cup {Wake, NoSocket}]
    BY <2>1, <2>2 DEF At, AcceptorPcs
  <2>4. QED
    BY <2>1, <2>2, <2>3, AcceptorMoves
<1>4. CASE CheckStopping
  <2>1. /\ acceptor.pc = "check"
        /\ UNCHANGED <<running, stopping, backlog, thread, slots, sessions, stopper>>
    BY <1>4 DEF CheckStopping
  <2>2. CASE stopping
    <3>1. acceptor' = At("exited", NoSocket)
      BY <1>4, <2>2 DEF CheckStopping
    <3>2. /\ acceptor'.pc = "exited"
          /\ acceptor' \in [pc : AcceptorPcs, sock : Conns \cup {Wake, NoSocket}]
      BY <3>1 DEF At, AcceptorPcs
    <3>3. QED
      BY <1>1, <2>1, <3>2, AcceptorMoves
  <2>3. CASE ~stopping
    <3>1. acceptor' = [acceptor EXCEPT !.pc = "reap"] /\ acceptor.sock \in Conns
      BY <1>4, <2>1, <2>3 DEF CheckStopping, ServerInv, WakeSeen
    <3>2. /\ acceptor'.pc = "reap" /\ acceptor'.sock \in Conns
          /\ acceptor' \in [pc : AcceptorPcs, sock : Conns \cup {Wake, NoSocket}]
      BY <1>1, <3>1 DEF AcceptorPcs
    <3>3. QED
      BY <1>1, <2>1, <3>2, AcceptorMoves
  <2>4. QED
    BY <2>2, <2>3
<1>5. CASE AdmitOrRefuse
  <2>1. /\ acceptor.pc = "admit" /\ acceptor.sock \in Conns
        /\ UNCHANGED <<running, stopping, backlog, thread, slots, sessions, stopper>>
    BY <1>5 DEF AdmitOrRefuse, ServerInv, WakeSeen
  <2>2. CASE OverCapacity
    <3>1. acceptor' = At("top", NoSocket)
      BY <1>5, <2>2 DEF AdmitOrRefuse
    <3>2. /\ acceptor'.pc = "top"
          /\ acceptor' \in [pc : AcceptorPcs, sock : Conns \cup {Wake, NoSocket}]
      BY <3>1 DEF At, AcceptorPcs
    <3>3. QED
      BY <1>1, <2>1, <3>2, AcceptorMoves
  <2>3. CASE ~OverCapacity
    <3>1. acceptor' = [acceptor EXCEPT !.pc = "spawn"]
      BY <1>5, <2>3 DEF AdmitOrRefuse
    <3>2. /\ acceptor'.pc = "spawn" /\ acceptor'.sock \in Conns
          /\ acceptor' \in [pc : AcceptorPcs, sock : Conns \cup {Wake, NoSocket}]
      BY <1>1, <2>1, <3>1 DEF AcceptorPcs
    <3>3. Cardinality(slots) < MaxConnections
      BY <2>3, Sizes, Limits DEF OverCapacity, ServerInv
    <3>4. QED
      BY <1>1, <2>1, <3>2, <3>3, AcceptorMoves
  <2>4. QED
    BY <2>2, <2>3
<1>6. CASE ReapFinished
  <2>1. /\ acceptor.pc = "reap" /\ acceptor.sock \in Conns
        /\ slots' = slots \ Finished
        /\ thread' = [c \in Conns |-> IF c \in Finished THEN "none" ELSE thread[c]]
        /\ acceptor' = [acceptor EXCEPT !.pc = "admit"]
        /\ UNCHANGED <<running, stopping, backlog, sessions, stopper>>
    BY <1>6 DEF ReapFinished, ServerInv, WakeSeen
  <2>2. /\ acceptor'.pc = "admit" /\ acceptor'.sock \in Conns
        /\ acceptor' \in [pc : AcceptorPcs, sock : Conns \cup {Wake, NoSocket}]
    BY <1>1, <2>1 DEF AcceptorPcs
  <2>3. /\ slots' \in SUBSET Conns /\ IsFiniteSet(slots') /\ Cardinality(slots') <= Cardinality(slots)
        /\ Cardinality(slots') \in Nat
    BY <2>1, FS_Subset, FS_CardinalityType DEF ServerInv, ServerType
  <2>4. ServerType'
    BY <2>1, <2>2, <2>3 DEF ServerInv, ServerType, ThreadPcs
  <2>5. WakeSeen'
    BY <1>1, <2>1, <2>2 DEF WakeSeen
  <2>6. running /\ stopper.joining = {} /\ stopper.pc \notin {"take", "joinAll"}
    BY <2>1 DEF ServerInv, Phases
  <2>7. Accounted'
    <3>1. Live = slots
      BY <2>1, <2>6 DEF ServerInv, Accounted, Unpublished
    <3>2. Live' = Live \ Finished
      BY <2>1 DEF Live
    <3>3. QED
      BY <2>1, <2>2, <2>6, <3>1, <3>2 DEF Accounted, Unpublished
  <2>8. Room'
    BY <2>1, <2>2, <2>3, Sizes, Limits DEF ServerInv, Room
  <2>9. Phases'
    BY <2>1, <2>2, <2>6 DEF ServerInv, Phases
  <2>10. QED
    BY <2>4, <2>5, <2>7, <2>8, <2>9 DEF ServerInv
<1>7. CASE Spawn
  <2>1. /\ acceptor.pc = "spawn" /\ acceptor.sock \in Conns
        /\ thread' = [thread EXCEPT ![acceptor.sock] = "top"]
        /\ acceptor' = [acceptor EXCEPT !.pc = "publish"]
        /\ UNCHANGED <<running, stopping, backlog, slots, sessions, stopper>>
    BY <1>7 DEF Spawn, ServerInv, WakeSeen
  <2>2. /\ acceptor'.pc = "publish" /\ acceptor'.sock = acceptor.sock
        /\ acceptor' \in [pc : AcceptorPcs, sock : Conns \cup {Wake, NoSocket}]
    BY <1>1, <2>1 DEF AcceptorPcs
  <2>3. ServerType'
    BY <2>1, <2>2 DEF ServerInv, ServerType, ThreadPcs
  <2>4. WakeSeen'
    BY <1>1, <2>1, <2>2 DEF WakeSeen
  <2>5. Live' = Live \cup {acceptor.sock}
    BY <2>1 DEF Live, ServerInv, ServerType
  <2>6. Accounted'
    BY <2>1, <2>2, <2>5 DEF ServerInv, Accounted, Unpublished
  <2>7. running /\ stopper.pc \notin {"take", "joinAll"}
    BY <2>1 DEF ServerInv, Phases
  <2>8. Room' /\ Phases'
    BY <2>1, <2>2, <2>7 DEF ServerInv, Room, Phases
  <2>9. QED
    BY <2>3, <2>4, <2>6, <2>8 DEF ServerInv
<1>8. CASE Publish
  <2>1. /\ acceptor.pc = "publish" /\ acceptor.sock \in Conns
        /\ slots' = slots \cup {acceptor.sock}
        /\ acceptor' = At("top", NoSocket)
        /\ UNCHANGED <<running, stopping, backlog, thread, sessions, stopper>>
    BY <1>8 DEF Publish, ServerInv, WakeSeen
  <2>2. /\ acceptor'.pc = "top"
        /\ acceptor' \in [pc : AcceptorPcs, sock : Conns \cup {Wake, NoSocket}]
    BY <2>1 DEF At, AcceptorPcs
  <2>3. /\ slots' \in SUBSET Conns /\ IsFiniteSet(slots')
        /\ Cardinality(slots') <= Cardinality(slots) + 1 /\ Cardinality(slots') \in Nat
    <3>1. IsFiniteSet(slots)
      BY DEF ServerInv, ServerType
    <3>2. IsFiniteSet(slots') /\ (acceptor.sock \notin slots =>
                                    Cardinality(slots') = Cardinality(slots) + 1)
      BY <2>1, <3>1, FS_AddElement
    <3>3. acceptor.sock \in slots => slots' = slots
      BY <2>1
    <3>4. Cardinality(slots) \in Nat /\ Cardinality(slots') \in Nat
      BY <3>1, <3>2, FS_CardinalityType
    <3>5. Cardinality(slots') <= Cardinality(slots) + 1
      <4>1. CASE acceptor.sock \in slots
        <5>1. Cardinality(slots') = Cardinality(slots)
          BY <3>3, <4>1
        <5>2. QED
          BY <3>4, <5>1
      <4>2. CASE acceptor.sock \notin slots
        BY <3>2, <3>4, <4>2
      <4>3. QED
        BY <4>1, <4>2
    <3>6. slots' \in SUBSET Conns
      BY <2>1 DEF ServerInv, ServerType
    <3>7. QED
      BY <3>2, <3>4, <3>5, <3>6
  <2>4. ServerType'
    BY <2>1, <2>2, <2>3 DEF ServerInv, ServerType
  <2>5. WakeSeen'
    BY <1>1, <2>1, <2>2 DEF WakeSeen
  <2>6. Accounted'
    BY <2>1, <2>2 DEF ServerInv, Accounted, Live, Unpublished
  <2>7. running /\ stopper.pc \notin {"take", "joinAll"}
    BY <2>1 DEF ServerInv, Phases
  <2>8. Room'
    BY <2>1, <2>2, <2>3, Sizes, Limits DEF ServerInv, Room
  <2>9. Phases'
    BY <2>1, <2>2, <2>7 DEF ServerInv, Phases
  <2>10. QED
    BY <2>4, <2>5, <2>6, <2>8, <2>9 DEF ServerInv
<1>9. QED
  BY <1>2, <1>3, <1>4, <1>5, <1>6, <1>7, <1>8 DEF AcceptorStep
-----------------------------------------------------------------------------
(* stop() up to the moment it takes the slots: nobody is joined yet. *)
LEMMA StopMoves ==
  ASSUME ServerInv, running, stopping',
         NEW pc \in StopperPcs \ {"joinAll", "idle"},
         stopper.pc # "joinAll", stopper' = [stopper EXCEPT !.pc = pc],
         pc = "take" => acceptor.pc = "exited",
         backlog' = backlog \/ backlog' = Append(backlog, Wake),
         UNCHANGED <<running, acceptor, thread, slots, sessions>>,
         stopping' \in BOOLEAN
  PROVE  ServerInv'
<1>1. /\ stopper'.pc = pc /\ stopper'.joining = stopper.joining
      /\ stopper' \in [pc : StopperPcs, joining : SUBSET Conns]
  BY DEF ServerInv, ServerType
<1>2. backlog' \in Seq(Conns \cup {Wake})
  BY DEF ServerInv, ServerType
<1>3. ServerType' /\ WakeSeen'
  BY <1>1, <1>2 DEF ServerInv, ServerType, WakeSeen
<1>4. Accounted' /\ Room'
  BY <1>1 DEF ServerInv, Accounted, Live, Unpublished, Room
<1>5. Phases'
  BY <1>1 DEF ServerInv, Phases
<1>6. QED
  BY <1>3, <1>4, <1>5 DEF ServerInv

(* stop(): the slots change hands, and each thread leaves them when it is joined. *)
LEMMA StopKeeps ==
  ASSUME ServerInv, BeginStop \/ StopStep
  PROVE  ServerInv'
<1>1. CASE BeginStop
  <2>1. /\ running /\ stopper.pc = "idle" /\ stopping' = TRUE
        /\ stopper' = [stopper EXCEPT !.pc = "wake"] /\ backlog' = backlog
        /\ UNCHANGED <<running, acceptor, thread, slots, sessions>>
    BY <1>1 DEF BeginStop
  <2>2. "wake" \in StopperPcs \ {"joinAll", "idle"} /\ "wake" # "take"
    BY DEF StopperPcs
  <2>3. QED
    BY <2>1, <2>2, StopMoves
<1>2. ASSUME NEW ok \in BOOLEAN, WakeAcceptor(ok)
      PROVE  ServerInv'
  <2>1. /\ running /\ stopping /\ stopper.pc = "wake" /\ stopping' = stopping
        /\ stopper' = [stopper EXCEPT !.pc = "shut"]
        /\ backlog' = backlog \/ backlog' = Append(backlog, Wake)
        /\ UNCHANGED <<running, acceptor, thread, slots, sessions>>
    BY <1>2 DEF WakeAcceptor, ServerInv, Phases
  <2>2. "shut" \in StopperPcs \ {"joinAll", "idle"} /\ "shut" # "take"
    BY DEF StopperPcs
  <2>3. stopping' \in BOOLEAN
    BY <2>1 DEF ServerInv, ServerType
  <2>4. QED
    BY <2>1, <2>2, <2>3, StopMoves
<1>3. CASE ShutLive
  <2>1. /\ running /\ stopping /\ stopper.pc = "shut" /\ stopping' = stopping
        /\ stopper' = [stopper EXCEPT !.pc = "joinAccept"] /\ backlog' = backlog
        /\ UNCHANGED <<running, acceptor, thread, slots, sessions>>
    BY <1>3 DEF ShutLive, ServerInv, Phases
  <2>2. "joinAccept" \in StopperPcs \ {"joinAll", "idle"} /\ "joinAccept" # "take"
    BY DEF StopperPcs
  <2>3. stopping' \in BOOLEAN
    BY <2>1 DEF ServerInv, ServerType
  <2>4. QED
    BY <2>1, <2>2, <2>3, StopMoves
<1>4. CASE JoinAccept
  <2>1. /\ running /\ stopping /\ stopper.pc = "joinAccept" /\ stopping' = stopping
        /\ acceptor.pc = "exited"
        /\ stopper' = [stopper EXCEPT !.pc = "take"] /\ backlog' = backlog
        /\ UNCHANGED <<running, acceptor, thread, slots, sessions>>
    BY <1>4 DEF JoinAccept, ServerInv, Phases
  <2>2. "take" \in StopperPcs \ {"joinAll", "idle"}
    BY DEF StopperPcs
  <2>3. stopping' \in BOOLEAN
    BY <2>1 DEF ServerInv, ServerType
  <2>4. QED
    BY <2>1, <2>2, <2>3, StopMoves
<1>5. CASE TakeSlots
  <2>1. /\ stopper.pc = "take" /\ stopper' = [pc |-> "joinAll", joining |-> slots] /\ slots' = {}
        /\ UNCHANGED <<running, stopping, backlog, acceptor, thread, sessions>>
    BY <1>5 DEF TakeSlots
  <2>2. running /\ stopping /\ acceptor.pc = "exited" /\ stopper.joining = {}
    BY <2>1 DEF ServerInv, Phases
  <2>3. stopper'.pc = "joinAll" /\ stopper'.joining = slots
    BY <2>1
  <2>4. IsFiniteSet(slots') /\ Cardinality(slots') = 0
    BY <2>1, FS_EmptySet
  <2>5. ServerType'
    BY <2>1, <2>3, <2>4 DEF ServerInv, ServerType, StopperPcs
  <2>6. WakeSeen'
    BY <2>1 DEF ServerInv, WakeSeen
  <2>7. Accounted'
    BY <2>1, <2>2, <2>3 DEF ServerInv, Accounted, Live, Unpublished
  <2>8. Room'
    BY <2>1, <2>2, <2>3, <2>4, Limits DEF ServerInv, Room
  <2>9. Phases'
    BY <2>1, <2>2, <2>3 DEF ServerInv, Phases
  <2>10. QED
    BY <2>5, <2>6, <2>7, <2>8, <2>9 DEF ServerInv
<1>6. ASSUME NEW c \in Conns, Join(c)
      PROVE  ServerInv'
  <2>1. /\ stopper.pc = "joinAll" /\ c \in stopper.joining
        /\ stopper' = [stopper EXCEPT !.joining = @ \ {c}]
        /\ thread' = [thread EXCEPT ![c] = "none"]
        /\ UNCHANGED <<running, stopping, backlog, acceptor, slots, sessions>>
    BY <1>6 DEF Join, Go
  <2>2. running /\ stopping /\ acceptor.pc = "exited" /\ slots = {}
    BY <2>1 DEF ServerInv, Phases
  <2>3. stopper'.pc = "joinAll" /\ stopper'.joining = stopper.joining \ {c}
    BY <2>1 DEF ServerInv, ServerType
  <2>4. /\ IsFiniteSet(stopper'.joining)
        /\ Cardinality(stopper'.joining) <= Cardinality(stopper.joining)
        /\ Cardinality(stopper'.joining) \in Nat
    BY <2>3, FS_Subset, FS_CardinalityType DEF ServerInv, ServerType
  <2>5. ServerType'
    <3>1. stopper' \in [pc : StopperPcs, joining : SUBSET Conns]
      BY <2>1 DEF ServerInv, ServerType
    <3>2. QED
      BY <2>1, <2>4, <3>1 DEF ServerInv, ServerType, ThreadPcs
  <2>6. WakeSeen'
    BY <2>1 DEF ServerInv, WakeSeen
  <2>7. Live' = Live \ {c}
    BY <2>1 DEF Live, ServerInv, ServerType
  <2>8. Accounted'
    BY <2>1, <2>2, <2>3, <2>7 DEF ServerInv, Accounted, Unpublished
  <2>9. Room'
    BY <2>1, <2>2, <2>4, Sizes, Limits DEF ServerInv, Room
  <2>10. Phases'
    BY <2>1, <2>2, <2>3 DEF ServerInv, Phases
  <2>11. QED
    BY <2>5, <2>6, <2>8, <2>9, <2>10 DEF ServerInv
<1>7. CASE EndStop
  <2>1. /\ stopper.pc = "joinAll" /\ stopper.joining = {} /\ backlog' = <<>>
        /\ acceptor' = At("none", NoSocket) /\ sessions' = {} /\ running' = FALSE
        /\ stopper' = [stopper EXCEPT !.pc = "idle"]
        /\ UNCHANGED <<stopping, thread, slots>>
    BY <1>7 DEF EndStop
  <2>2. acceptor.pc = "exited" /\ slots = {}
    BY <2>1 DEF ServerInv, Phases
  <2>3. /\ stopper'.pc = "idle" /\ stopper'.joining = {}
        /\ stopper' \in [pc : StopperPcs, joining : SUBSET Conns]
    BY <2>1 DEF ServerInv, ServerType, StopperPcs
  <2>4. /\ acceptor'.pc = "none"
        /\ acceptor' \in [pc : AcceptorPcs, sock : Conns \cup {Wake, NoSocket}]
    BY <2>1 DEF At, AcceptorPcs
  <2>5. ServerType'
    <3>1. IsFiniteSet(stopper'.joining) /\ backlog' \in Seq(Conns \cup {Wake})
      BY <2>1, <2>3, FS_EmptySet
    <3>2. QED
      BY <2>1, <2>3, <2>4, <3>1 DEF ServerInv, ServerType
  <2>6. WakeSeen'
    BY <2>1, <2>4 DEF WakeSeen
  <2>7. Accounted'
    BY <2>1, <2>2, <2>3, <2>4 DEF ServerInv, Accounted, Live, Unpublished
  <2>8. Room'
    BY <2>1, <2>3, <2>4 DEF ServerInv, Room
  <2>9. Phases'
    BY <2>1, <2>2, <2>3, <2>4 DEF Phases
  <2>10. QED
    BY <2>5, <2>6, <2>7, <2>8, <2>9 DEF ServerInv
<1>8. QED
  BY <1>1, <1>2, <1>3, <1>4, <1>5, <1>6, <1>7 DEF StopStep
-----------------------------------------------------------------------------
LEMMA ServerInit == Init => ServerInv
<1> SUFFICES ASSUME Init
             PROVE  ServerInv
  OBVIOUS
<1>1. /\ acceptor.pc = "none" /\ acceptor.sock = NoSocket
      /\ stopper.pc = "idle" /\ stopper.joining = {} /\ slots = {} /\ backlog = <<>>
      /\ \A c \in Conns : thread[c] = "none"
  BY DEF Init, At
<1>2. IsFiniteSet({}) /\ Cardinality({}) = 0
  BY FS_EmptySet
<1>3. ServerType
  <2>1. IsFiniteSet(stopper.joining) /\ IsFiniteSet(slots) /\ backlog \in Seq(Conns \cup {Wake})
    BY <1>1, <1>2
  <2>2. acceptor \in [pc : AcceptorPcs, sock : Conns \cup {Wake, NoSocket}]
    BY DEF Init, At, AcceptorPcs
  <2>3. stopper \in [pc : StopperPcs, joining : SUBSET Conns]
    BY DEF Init, StopperPcs
  <2>4. thread \in [Conns -> ThreadPcs]
    BY DEF Init, ThreadPcs
  <2>5. QED
    BY <1>1, <2>1, <2>2, <2>3, <2>4 DEF Init, ServerType
<1>4. WakeSeen /\ Accounted /\ Phases
  BY <1>1 DEF Init, WakeSeen, Accounted, Live, Unpublished, Phases
<1>5. Room
  BY <1>1, <1>2, Limits DEF Room
<1>6. QED
  BY <1>3, <1>4, <1>5 DEF ServerInv

LEMMA ServerStep == ServerInv /\ [Next]_vars => ServerInv'
<1> SUFFICES ASSUME ServerInv, [Next]_vars
             PROVE  ServerInv'
  OBVIOUS
<1>1. CASE Start
  BY <1>1, StartKeeps
<1>2. CASE BeginStop \/ StopStep
  BY <1>2, StopKeeps
<1>3. CASE AcceptorStep
  BY <1>3, AcceptorKeeps
<1>4. ASSUME NEW c \in Conns, Connect(c) \/ Stall(c) \/ PeerCloses(c)
      PROVE  ServerInv'
  BY <1>4, PeerKeeps
<1>5. ASSUME NEW c \in Conns, ThreadStep(c)
      PROVE  ServerInv'
  BY <1>5, ThreadStepKeeps
<1>6. CASE UNCHANGED vars
  BY <1>6 DEF vars, ServerInv, ServerType, WakeSeen, Accounted, Live, Unpublished, Room, Phases
<1>7. QED
  BY <1>1, <1>2, <1>3, <1>4, <1>5, <1>6 DEF Next

LEMMA ServerInvariance == Spec => []ServerInv
BY ServerInit, ServerStep, PTL DEF Spec

(* server.hpp: max_connections bounds the threads of the server, those without a slot
   yet and those that wait to be joined included, however accept, reaping and stop()
   interleave; for any number of connections. *)
THEOREM ThreadsStayBounded == Spec => []ThreadsBounded
<1>1. ServerInv => ThreadsBounded
  <2> SUFFICES ASSUME ServerInv
               PROVE  Cardinality(Live) <= MaxConnections
    BY DEF ThreadsBounded, Live
  <2>1. Live = slots \cup stopper.joining \cup Unpublished
    BY DEF ServerInv, Accounted
  <2>2. Cardinality(slots) \in Nat /\ Cardinality(stopper.joining) \in Nat /\ IsFiniteSet(slots)
    BY Sizes DEF ServerInv, ServerType
  <2>3. CASE stopper.pc = "joinAll"
    <3>1. Live = stopper.joining
      BY <2>1, <2>3 DEF ServerInv, Phases, Unpublished
    <3>2. QED
      BY <3>1 DEF ServerInv, Room
  <2>4. CASE stopper.pc # "joinAll" /\ acceptor.pc = "publish"
    <3>1. Live = slots \cup {acceptor.sock}
      BY <2>1, <2>4 DEF ServerInv, Phases, Unpublished
    <3>2. Cardinality(slots) < MaxConnections
      BY <2>4 DEF ServerInv, Room
    <3>3. CASE acceptor.sock \in slots
      <4>1. Live = slots
        BY <3>1, <3>3
      <4>2. QED
        BY <4>1 DEF ServerInv, Room
    <3>4. CASE acceptor.sock \notin slots
      <4>1. Cardinality(Live) = Cardinality(slots) + 1
        BY <2>2, <3>1, <3>4, FS_AddElement
      <4>2. QED
        BY <2>2, <3>2, <4>1, Limits
    <3>5. QED
      BY <3>3, <3>4
  <2>5. CASE stopper.pc # "joinAll" /\ acceptor.pc # "publish"
    <3>1. Live = slots
      BY <2>1, <2>5 DEF ServerInv, Phases, Unpublished
    <3>2. QED
      BY <3>1 DEF ServerInv, Room
  <2>6. QED
    BY <2>3, <2>4, <2>5
<1>2. QED
  BY <1>1, ServerInvariance, PTL

(* server.hpp: stop() "joins every thread": when it has returned, no thread, slot,
   session or queued connection of the run is left, also of connections that were
   accepted while it ran. *)
THEOREM StopLeavesNothing == Spec => []StopQuiescent
<1>1. ServerInv => StopQuiescent
  BY DownIsQuiet DEF ServerInv, Phases, StopQuiescent, Live
<1>2. QED
  BY <1>1, ServerInvariance, PTL
=============================================================================
