---------------------------- MODULE ServiceProofs ----------------------------
(***************************************************************************)
(* Theorems about Service, for any set of clients, any connection limit    *)
(* and any number of frames: the counters are exact, a handler does not    *)
(* add to a writer that is closed in an orderly shutdown, and cleanup      *)
(* forgets nobody.                                                         *)
(***************************************************************************)
EXTENDS Service, FiniteSetTheorems, TLAPS

-----------------------------------------------------------------------------
(* Counting sets of connections                                            *)

LEMMA AddOne ==
  ASSUME NEW S, IsFiniteSet(S), NEW c, c \notin S
  PROVE  /\ IsFiniteSet(S \cup {c})
         /\ Cardinality(S \cup {c}) = Cardinality(S) + 1
BY FS_AddElement

LEMMA RemoveOne ==
  ASSUME NEW S, IsFiniteSet(S), NEW c \in S
  PROVE  /\ IsFiniteSet(S \ {c})
         /\ Cardinality(S \ {c}) = Cardinality(S) - 1
         /\ Cardinality(S) - 1 \in Nat
<1>1. IsFiniteSet(S \ {c}) /\ Cardinality(S \ {c}) = Cardinality(S) - 1
  BY FS_RemoveElement
<1>2. Cardinality(S \ {c}) \in Nat
  BY <1>1, FS_CardinalityType
<1> QED
  BY <1>1, <1>2

(* A connection that moves changes no other connection's place.            *)
LEMMA Moved ==
  ASSUME TypeOK, NEW c \in Clients, NEW from, NEW to \in ConnState, Goto(c, from, to)
  PROVE  /\ conn[c] = from /\ conn'[c] = to
         /\ \A d \in Clients \ {c} : conn'[d] = conn[d]
         /\ conn' \in [Clients -> ConnState]
BY DEF TypeOK, Goto

(* It enters or leaves the group and the slots, or does neither.           *)
LEMMA GroupMoves ==
  ASSUME TypeOK, NEW c \in Clients, NEW from, NEW to \in ConnState, Goto(c, from, to)
  PROVE  /\ from \in InGroup /\ to \in InGroup => Group' = Group
         /\ from \notin InGroup /\ to \notin InGroup => Group' = Group
         /\ from \notin InGroup /\ to \in InGroup
              => c \notin Group /\ Group' = Group \cup {c}
         /\ from \in InGroup /\ to \notin InGroup
              => c \in Group /\ Group' = Group \ {c}
         /\ from \in Counted /\ to \in Counted => Slots' = Slots
         /\ from \notin Counted /\ to \notin Counted => Slots' = Slots
         /\ from \notin Counted /\ to \in Counted
              => c \notin Slots /\ Slots' = Slots \cup {c}
         /\ from \in Counted /\ to \notin Counted
              => c \in Slots /\ Slots' = Slots \ {c}
BY Moved DEF Group, Slots

(* A move inside the group and the slots, or outside of both.              *)
LEMMA CountingStays ==
  ASSUME TypeOK, Counting, UNCHANGED countVars,
         \/ UNCHANGED conn
         \/ \E c \in Clients, from \in ConnState, to \in ConnState :
              /\ Goto(c, from, to)
              /\ from \in InGroup <=> to \in InGroup
              /\ from \in Counted <=> to \in Counted
  PROVE  Counting'
<1>1. Group' = Group /\ Slots' = Slots
  <2>1. CASE UNCHANGED conn
    BY <2>1 DEF Group, Slots
  <2>2. CASE ~UNCHANGED conn
    <3>1. PICK c \in Clients, from \in ConnState, to \in ConnState :
            /\ Goto(c, from, to)
            /\ from \in InGroup <=> to \in InGroup
            /\ from \in Counted <=> to \in Counted
      BY <2>2
    <3> QED
      BY <3>1, GroupMoves
  <2> QED
    BY <2>1, <2>2
<1> QED
  BY <1>1 DEF Counting, countVars

-----------------------------------------------------------------------------
(* Types and counters                                                      *)

LEMMA CountInit == Init => TypeOK /\ Counting
<1> SUFFICES ASSUME Init PROVE TypeOK /\ Counting
  OBVIOUS
<1>1. TypeOK
  <2>1. conn \in [Clients -> ConnState]
    BY DEF Init, ConnState
  <2>2. /\ frames \in [Clients -> 0 .. MaxMessages] /\ late \in [Clients -> Nat]
        /\ id \in [Clients -> Stamps \cup {None}]
        /\ active \in [Stamps -> Clients \cup {None}]
    BY ServiceAssumption DEF Init
  <2>3. /\ {cancelling, shutdownChan, listening, timedOut, writerClosed, up}
             \subseteq BOOLEAN
        /\ healthServer \in BOOLEAN
    BY Zenon DEF Init
  <2>4. /\ accepted \in Clients \cup {None} /\ run \in {"accepting", "returned"}
        /\ connectionCount \in Nat /\ wg \in Nat
        /\ cancelled \subseteq Clients /\ gone \subseteq Clients
        /\ cleanup \in Clients \cup {None} /\ healthStarts \in Nat
        /\ flusher \in {"ticking", "flushing", "stopped"} /\ shutdown \in Shutdown
    BY DEF Init, Shutdown
  <2> QED
    BY <2>1, <2>2, <2>3, <2>4 DEF TypeOK
<1>2. Group = {} /\ Slots = {}
  BY DEF Init, Group, Slots, InGroup, Counted, Tracked, InLoop
<1>3. wg = 0 /\ connectionCount = 0
  BY DEF Init
<1> QED
  BY <1>1, <1>2, <1>3, FS_EmptySet DEF Counting

LEMMA CountHandler ==
  ASSUME TypeOK, Counting, NEW c \in Clients, Handler(c)
  PROVE  TypeOK' /\ Counting'
<1> USE ServiceAssumption
    DEF ConnState, InGroup, Counted, Tracked, InLoop,
        acceptVars, countVars, clientVars, healthVars, trackVars, shutdownVars, rest
<1>1. CASE Count(c)
  <2>1. /\ Goto(c, "spawned", "counted") /\ wg' = wg
        /\ connectionCount' = connectionCount + 1
    BY <1>1 DEF Count
  <2>2. Group' = Group /\ c \notin Slots /\ Slots' = Slots \cup {c}
    BY <2>1, GroupMoves
  <2>3. Counting'
    BY <2>1, <2>2, AddOne DEF Counting
  <2>4. TypeOK'
    BY <1>1, <2>1, Moved DEF Count, TypeOK
  <2> QED
    BY <2>3, <2>4
<1>2. CASE Track(c)
  <2>1. Goto(c, "counted", "decoder")
    BY <1>2 DEF Track
  <2>2. TypeOK'
    BY <1>2, <2>1, Moved DEF Track, TypeOK
  <2> QED
    BY <1>2, <2>1, <2>2, CountingStays DEF Track
<1>3. CASE NewDecoder(c)
  <2>1. PICK to \in {"untrack", "loop"} : Goto(c, "decoder", to)
    BY <1>3 DEF NewDecoder
  <2>2. TypeOK'
    BY <1>3, <2>1, Moved DEF NewDecoder, TypeOK
  <2> QED
    BY <1>3, <2>1, <2>2, CountingStays DEF NewDecoder
<1>4. CASE Select(c)
  <2>1. PICK to \in {"untrack", "reading"} : Goto(c, "loop", to)
    BY <1>4 DEF Select
  <2>2. TypeOK'
    BY <1>4, <2>1, Moved DEF Select, TypeOK
  <2> QED
    BY <1>4, <2>1, <2>2, CountingStays DEF Select
<1>5. CASE Decode(c)
  <2>1. PICK to \in {"untrack", "processing"} : Goto(c, "reading", to)
    BY <1>5 DEF Decode
  <2>2. frames' \in [Clients -> 0 .. MaxMessages]
    BY <1>5 DEF Decode, TypeOK
  <2>3. TypeOK'
    BY <1>5, <2>1, <2>2, Moved DEF Decode, TypeOK
  <2> QED
    BY <1>5, <2>1, <2>3, CountingStays DEF Decode
<1>6. CASE ProcessMessage(c)
  <2>1. PICK to \in {"adding", "loop"} : Goto(c, "processing", to)
    BY <1>6 DEF ProcessMessage
  <2>2. TypeOK'
    BY <1>6, <2>1, Moved DEF ProcessMessage, TypeOK
  <2> QED
    BY <1>6, <2>1, <2>2, CountingStays DEF ProcessMessage
<1>7. CASE AddEvent(c)
  <2>1. Goto(c, "adding", "loop")
    BY <1>7 DEF AddEvent
  <2>2. late' \in [Clients -> Nat]
    BY <1>7 DEF AddEvent, TypeOK
  <2>3. TypeOK'
    BY <1>7, <2>1, <2>2, Moved DEF AddEvent, TypeOK
  <2> QED
    BY <1>7, <2>1, <2>3, CountingStays DEF AddEvent
<1>8. CASE Untrack(c)
  <2>1. Goto(c, "untrack", "finishing")
    BY <1>8 DEF Untrack
  <2>2. active' \in [Stamps -> Clients \cup {None}] /\ cancelled' \subseteq Clients
    BY <1>8 DEF Untrack, TypeOK
  <2>3. conn' \in [Clients -> ConnState]
    BY <2>1, Moved
  <2>4. UNCHANGED <<accepted, run, connectionCount, wg, gone, frames, id, cleanup,
                    cancelling, late, healthServer, healthStarts, flusher,
                    shutdownChan, listening, shutdown, timedOut, writerClosed, up>>
    BY <1>8 DEF Untrack
  <2>5. TypeOK'
    BY <2>2, <2>3, <2>4 DEF TypeOK
  <2> QED
    BY <1>8, <2>1, <2>5, CountingStays DEF Untrack
<1>9. CASE Finish(c)
  <2>1. /\ Goto(c, "finishing", "leaving") /\ wg' = wg - 1
        /\ connectionCount' = connectionCount
    BY <1>9 DEF Finish
  <2>2. Slots' = Slots /\ c \in Group /\ Group' = Group \ {c}
    BY <2>1, GroupMoves
  <2>3. Counting' /\ wg' \in Nat
    BY <2>1, <2>2, RemoveOne DEF Counting
  <2>4. TypeOK'
    BY <1>9, <2>1, <2>3, Moved DEF Finish, TypeOK
  <2> QED
    BY <2>3, <2>4
<1>10. CASE Leave(c)
  <2>1. /\ Goto(c, "leaving", "done") /\ connectionCount' = connectionCount - 1
        /\ wg' = wg
    BY <1>10 DEF Leave
  <2>2. Group' = Group /\ c \in Slots /\ Slots' = Slots \ {c}
    BY <2>1, GroupMoves
  <2>3. Counting' /\ connectionCount' \in Nat
    BY <2>1, <2>2, RemoveOne DEF Counting
  <2>4. TypeOK'
    BY <1>10, <2>1, <2>3, Moved DEF Leave, TypeOK
  <2> QED
    BY <2>3, <2>4
<1> QED
  BY <1>1, <1>2, <1>3, <1>4, <1>5, <1>6, <1>7, <1>8, <1>9, <1>10 DEF Handler

(* A step of anything else: only Connect and Dispatch move a connection.   *)
LEMMA CountStep ==
  ASSUME TypeOK, Counting, AcceptedWaits, [Next]_vars
  PROVE  TypeOK' /\ Counting'
<1> USE ServiceAssumption
    DEF acceptVars, countVars, clientVars, healthVars, trackVars, shutdownVars, rest
<1>1. ASSUME NEW c \in Clients, Handler(c)
      PROVE  TypeOK' /\ Counting'
  BY <1>1, CountHandler
<1>2. ASSUME NEW c \in Clients, Connect(c)
      PROVE  TypeOK' /\ Counting'
  <2>1. Goto(c, "away", "backlog")
    BY <1>2 DEF Connect
  <2>2. /\ "away" \in ConnState \ (InGroup \cup Counted)
        /\ "backlog" \in ConnState \ (InGroup \cup Counted)
    BY DEF ConnState, InGroup, Counted, Tracked, InLoop
  <2>3. TypeOK'
    BY <1>2, <2>1, <2>2, Moved DEF Connect, TypeOK
  <2> QED
    BY <1>2, <2>1, <2>2, <2>3, CountingStays DEF Connect
<1>3. ASSUME NEW c \in Clients, Dispatch(c)
      PROVE  TypeOK' /\ Counting'
  <2>1. /\ "rejected" \in ConnState \ (InGroup \cup Counted)
        /\ "backlog" \in ConnState \ (InGroup \cup Counted)
        /\ "spawned" \in InGroup \ Counted /\ "spawned" \in ConnState
    BY DEF ConnState, InGroup, Counted, Tracked, InLoop
  <2>2. conn[c] = "backlog"
    BY <1>3 DEF Dispatch, AcceptedWaits
  <2>3. healthStarts' \in Nat
    BY <1>3 DEF Dispatch, TypeOK
  <2>4. CASE conn' = [conn EXCEPT ![c] = "rejected"] /\ UNCHANGED wg
    <3>1. Goto(c, "backlog", "rejected")
      BY <2>2, <2>4 DEF Goto
    <3>2. Counting'
      BY <1>3, <2>1, <2>4, <3>1, CountingStays DEF Dispatch
    <3>3. TypeOK'
      BY <1>3, <2>1, <2>3, <2>4, <3>1, Moved DEF Dispatch, TypeOK
    <3> QED
      BY <3>2, <3>3
  <2>5. CASE conn' = [conn EXCEPT ![c] = "spawned"] /\ wg' = wg + 1
    <3>1. Goto(c, "backlog", "spawned")
      BY <2>2, <2>5 DEF Goto
    <3>2. Slots' = Slots /\ c \notin Group /\ Group' = Group \cup {c}
      BY <2>1, <3>1, GroupMoves
    <3>3. connectionCount' = connectionCount
      BY <1>3 DEF Dispatch
    <3>4. Counting'
      BY <2>5, <3>2, <3>3, AddOne DEF Counting
    <3>5. TypeOK'
      BY <1>3, <2>1, <2>3, <2>5, <3>1, Moved DEF Dispatch, TypeOK
    <3> QED
      BY <3>4, <3>5
  <2> QED
    BY <1>3, <2>4, <2>5 DEF Dispatch
<1>4. ASSUME NEW c \in Clients, ClientLeaves(c) \/ Accept(c)
      PROVE  TypeOK' /\ Counting'
  <2>1. TypeOK'
    BY <1>4 DEF ClientLeaves, Accept, TypeOK
  <2> QED
    BY <1>4, <2>1, CountingStays DEF ClientLeaves, Accept
<1>5. ASSUME NEW c \in Clients, Cleanup(c)
      PROVE  TypeOK' /\ Counting'
  <2>1. TypeOK'
    BY <1>5 DEF Cleanup, CleanupFinds, CleanupCancels, CleanupDeletes, TypeOK
  <2> QED
    BY <1>5, <2>1, CountingStays
    DEF Cleanup, CleanupFinds, CleanupCancels, CleanupDeletes
<1>6. CASE StartHealthServer \/ RunReturns \/ MainReturns
  <2>1. TypeOK'
    <3>1. CASE StartHealthServer
      <4>1. healthStarts' \in Nat /\ healthServer' = TRUE
        BY <3>1 DEF StartHealthServer, TypeOK
      <4> QED
        BY <3>1, <4>1 DEF StartHealthServer, TypeOK
    <3>2. CASE RunReturns
      BY <3>2 DEF RunReturns, TypeOK
    <3>3. CASE MainReturns
      BY <3>3 DEF MainReturns, TypeOK
    <3> QED
      BY <1>6, <3>1, <3>2, <3>3
  <2> QED
    BY <1>6, <2>1, CountingStays DEF StartHealthServer, RunReturns, MainReturns
<1>7. CASE Tick \/ Flushed \/ FlusherEnd
  <2>1. TypeOK'
    BY <1>7 DEF Tick, Flushed, FlusherEnd, FlusherStep, TypeOK
  <2> QED
    BY <1>7, <2>1, CountingStays DEF Tick, Flushed, FlusherEnd, FlusherStep
<1>8. CASE ShutdownGoroutine
  <2> USE DEF ShutdownGoroutine, Signal, CloseShutdownChan, CloseListener, HandlersDone,
              WaitTimeout, CloseWriter, Exit, ShutdownStep
  <2>1. TypeOK'
    BY <1>8 DEF TypeOK, Shutdown
  <2> QED
    BY <1>8, <2>1, CountingStays
<1>9. CASE UNCHANGED vars
  <2>1. TypeOK'
    BY <1>9 DEF vars, TypeOK
  <2> QED
    BY <1>9, <2>1, CountingStays DEF vars
<1> QED
  BY <1>1, <1>2, <1>3, <1>4, <1>5, <1>6, <1>7, <1>8, <1>9 DEF Next

-----------------------------------------------------------------------------
(* Who moves a connection                                                  *)

Listed ==
  {<<"away", "backlog">>, <<"spawned", "counted">>, <<"counted", "decoder">>,
   <<"decoder", "untrack">>, <<"decoder", "loop">>, <<"loop", "untrack">>,
   <<"loop", "reading">>, <<"reading", "untrack">>, <<"reading", "processing">>,
   <<"processing", "adding">>, <<"processing", "loop">>, <<"adding", "loop">>,
   <<"untrack", "finishing">>, <<"finishing", "leaving">>, <<"leaving", "done">>}

(* The connection of c is in the map.                                      *)
Entered(c) == id[c] \in Stamps /\ active[id[c]] = c

(* A step moves at most one connection: from the backlog by Dispatch, or   *)
(* along the list. It reaches a frame only while the channel is open, and  *)
(* is tracked from its first tracked place on.                             *)
LEMMA OneMoves ==
  ASSUME TypeOK, AcceptedWaits, [Next]_vars
  PROVE  \/ conn' = conn
         \/ \E c \in Clients :
              /\ \A d \in Clients \ {c} : conn'[d] = conn[d]
              /\ \/ /\ accepted = c /\ accepted' = None /\ conn[c] = "backlog"
                    /\ conn'[c] \in {"rejected", "spawned"}
                 \/ /\ <<conn[c], conn'[c]>> \in Listed
                    /\ UNCHANGED <<accepted, shutdown, timedOut, shutdownChan>>
                    /\ conn'[c] = "reading" => ~shutdownChan
                    /\ conn'[c] = "decoder" => Entered(c)'
<1> USE DEF Listed, Goto, TypeOK, acceptVars, shutdownVars, rest
<1>1. ASSUME NEW c \in Clients, Handler(c)
      PROVE  /\ \A d \in Clients \ {c} : conn'[d] = conn[d]
             /\ <<conn[c], conn'[c]>> \in Listed
             /\ UNCHANGED <<accepted, shutdown, timedOut, shutdownChan>>
             /\ conn'[c] = "reading" => ~shutdownChan
             /\ conn'[c] = "decoder" => Entered(c)'
  <2>1. CASE Count(c)
    BY <2>1 DEF Count
  <2>2. CASE Track(c)
    BY <2>2 DEF Track, Entered
  <2>3. CASE NewDecoder(c)
    BY <2>3 DEF NewDecoder
  <2>4. CASE Select(c)
    BY <2>4 DEF Select
  <2>5. CASE Decode(c)
    BY <2>5 DEF Decode
  <2>6. CASE ProcessMessage(c)
    BY <2>6 DEF ProcessMessage
  <2>7. CASE AddEvent(c)
    BY <2>7 DEF AddEvent
  <2>8. CASE Untrack(c)
    BY <2>8 DEF Untrack
  <2>9. CASE Finish(c)
    BY <2>9 DEF Finish
  <2>10. CASE Leave(c)
    BY <2>10 DEF Leave
  <2> QED
    BY <1>1, <2>1, <2>2, <2>3, <2>4, <2>5, <2>6, <2>7, <2>8, <2>9, <2>10 DEF Handler
<1>2. ASSUME NEW c \in Clients, Connect(c)
      PROVE  /\ \A d \in Clients \ {c} : conn'[d] = conn[d]
             /\ conn[c] = "away" /\ conn'[c] = "backlog"
             /\ UNCHANGED <<accepted, shutdown, timedOut, shutdownChan>>
  BY <1>2 DEF Connect
<1>3. ASSUME NEW c \in Clients, Dispatch(c)
      PROVE  /\ \A d \in Clients \ {c} : conn'[d] = conn[d]
             /\ accepted = c /\ accepted' = None /\ conn[c] = "backlog"
             /\ conn'[c] \in {"rejected", "spawned"}
  BY <1>3, ServiceAssumption DEF Dispatch, AcceptedWaits
<1>4. ASSUME NEW c \in Clients, ClientLeaves(c) \/ Accept(c) \/ Cleanup(c)
      PROVE  conn' = conn
  BY <1>4 DEF ClientLeaves, Accept, Cleanup, CleanupFinds, CleanupCancels,
              CleanupDeletes
<1>5. CASE \/ StartHealthServer \/ RunReturns \/ MainReturns
           \/ Tick \/ Flushed \/ FlusherEnd \/ UNCHANGED vars
  BY <1>5 DEF StartHealthServer, RunReturns, MainReturns, Tick, Flushed, FlusherEnd,
              FlusherStep, vars
<1>6. CASE ShutdownGoroutine
  BY <1>6 DEF ShutdownGoroutine, Signal, CloseShutdownChan, CloseListener,
              HandlersDone, WaitTimeout, CloseWriter, Exit, ShutdownStep
<1> QED
  BY <1>1, <1>2, <1>3, <1>4, <1>5, <1>6 DEF Next

LEMMA AcceptedStep ==
  ASSUME TypeOK, AcceptedWaits, [Next]_vars
  PROVE  AcceptedWaits'
<1>1. CASE \E c \in Clients : Accept(c)
  BY <1>1 DEF Accept, AcceptedWaits
<1>2. CASE ~ \E c \in Clients : Accept(c)
  <2>1. accepted' = accepted \/ accepted' = None
    BY <1>2
    DEF Next, Handler, Count, Track, NewDecoder, Select, Decode, ProcessMessage,
        AddEvent, Untrack, Finish, Leave, Connect, ClientLeaves, Dispatch,
        StartHealthServer, RunReturns, MainReturns, Cleanup,
        CleanupFinds, CleanupCancels, CleanupDeletes, Tick, Flushed, FlusherEnd,
        FlusherStep, ShutdownGoroutine, Signal, CloseShutdownChan, CloseListener,
        HandlersDone, WaitTimeout, CloseWriter, Exit, ShutdownStep, vars, acceptVars
  <2> QED
    BY <2>1, OneMoves DEF AcceptedWaits, TypeOK, Listed
<1> QED
  BY <1>1, <1>2

-----------------------------------------------------------------------------
(* Shutdown                                                                *)

(* Only the shutdown goroutine touches what it coordinates with.           *)
LEMMA OnlyShutdown ==
  ASSUME [Next]_vars
  PROVE  ShutdownGoroutine \/ UNCHANGED <<shutdown, shutdownChan, timedOut>>
BY DEF Next, Handler, Count, Track, NewDecoder, Select, Decode, ProcessMessage,
       AddEvent, Untrack, Finish, Leave, Connect, ClientLeaves, Accept, Dispatch,
       StartHealthServer, RunReturns, MainReturns, Cleanup,
       CleanupFinds, CleanupCancels, CleanupDeletes, Tick, Flushed, FlusherEnd,
       FlusherStep, vars, shutdownVars, rest

LEMMA ChanStep ==
  ASSUME ChanFirst, [Next]_vars
  PROVE  ChanFirst' /\ (shutdownChan => shutdownChan')
<1>1. CASE ShutdownGoroutine
  BY <1>1 DEF ShutdownGoroutine, Signal, CloseShutdownChan, CloseListener, HandlersDone,
              WaitTimeout, CloseWriter, Exit, ShutdownStep, ChanFirst
<1>2. CASE UNCHANGED <<shutdown, shutdownChan, timedOut>>
  BY <1>2 DEF ChanFirst
<1> QED
  BY <1>1, <1>2, OnlyShutdown

(* wg.Wait returns only when nobody is in the group; who joins it later    *)
(* finds the channel closed at the select.                                 *)
LEMMA NoAddStep ==
  ASSUME TypeOK, Counting, AcceptedWaits, ChanFirst, NoAddAfterClose, [Next]_vars
  PROVE  NoAddAfterClose'
<1>1. CASE ShutdownGoroutine
  <2>1. conn' = conn
    BY <1>1 DEF ShutdownGoroutine, Signal, CloseShutdownChan, CloseListener,
                HandlersDone, WaitTimeout, CloseWriter, Exit, ShutdownStep
  <2>2. CASE HandlersDone
    <3>1. Group = {}
      BY <2>2, FS_EmptySet DEF HandlersDone, Counting
    <3> QED
      BY <2>1, <3>1 DEF NoAddAfterClose, Group, InGroup, Tracked, InLoop
  <2>3. CASE WaitTimeout
    BY <2>3 DEF WaitTimeout, NoAddAfterClose
  <2>4. CASE Signal \/ CloseShutdownChan \/ CloseListener \/ CloseWriter \/ Exit
    BY <2>1, <2>4
    DEF Signal, CloseShutdownChan, CloseListener, CloseWriter, Exit, ShutdownStep,
        NoAddAfterClose
  <2> QED
    BY <1>1, <2>2, <2>3, <2>4 DEF ShutdownGoroutine
<1>2. CASE UNCHANGED <<shutdown, shutdownChan, timedOut>>
  <2> SUFFICES ASSUME shutdown \in {"closingWriter", "closed"}, ~timedOut,
                      NEW c \in Clients
               PROVE  conn'[c] \notin AtFrame
    BY <1>2 DEF NoAddAfterClose, AtFrame
  <2>1. shutdownChan /\ conn[c] \notin AtFrame
    BY DEF NoAddAfterClose, ChanFirst, AtFrame
  <2> QED
    BY <2>1, OneMoves DEF Listed, AtFrame
<1> QED
  BY <1>1, <1>2, OnlyShutdown

LEMMA LateStep ==
  ASSUME TypeOK, AcceptedWaits, ChanFirst, LateIsLast, AtMostOneLateEvent, [Next]_vars
  PROVE  LateIsLast' /\ AtMostOneLateEvent'
<1>0. late \in [Clients -> Nat]
  BY DEF TypeOK
<1>1. shutdownChan => shutdownChan'
  BY ChanStep
<1>2. ASSUME NEW c \in Clients, AddEvent(c)
      PROVE  LateIsLast' /\ AtMostOneLateEvent'
  <2>1. /\ conn[c] = "adding" /\ conn'[c] = "loop"
        /\ \A d \in Clients \ {c} : conn'[d] = conn[d] /\ late'[d] = late[d]
        /\ late'[c] = IF shutdownChan THEN late[c] + 1 ELSE late[c]
    BY <1>0, <1>2 DEF AddEvent, Goto, TypeOK
  <2>2. late[c] = 0
    BY <1>0, <2>1 DEF LateIsLast, AtFrame
  <2> QED
    BY <1>0, <1>1, <2>1, <2>2 DEF LateIsLast, AtMostOneLateEvent, AtFrame
<1>3. CASE ~ \E c \in Clients : AddEvent(c)
  <2>1. late' = late
    BY <1>3
    DEF Next, Handler, Count, Track, NewDecoder, Select, Decode, ProcessMessage,
        Untrack, Finish, Leave, Connect, ClientLeaves, Accept, Dispatch,
        StartHealthServer, RunReturns, MainReturns, Cleanup,
        CleanupFinds, CleanupCancels, CleanupDeletes, Tick, Flushed, FlusherEnd,
        FlusherStep, ShutdownGoroutine, Signal, CloseShutdownChan, CloseListener,
        HandlersDone, WaitTimeout, CloseWriter, Exit, ShutdownStep, vars
  <2>2. ASSUME NEW c \in Clients, late[c] > 0
        PROVE  conn'[c] \notin AtFrame
    <3>1. shutdownChan /\ conn[c] \notin AtFrame
      BY <2>2 DEF LateIsLast
    <3> QED
      BY <3>1, OneMoves DEF Listed, AtFrame
  <2> QED
    BY <1>1, <2>1, <2>2 DEF LateIsLast, AtMostOneLateEvent
<1> QED
  BY <1>2, <1>3

-----------------------------------------------------------------------------
(* Cleanup                                                                 *)

(* An entry of the map goes only with the end of its connection or of one  *)
(* with the same ID, or with the cleanup of either.                        *)
LEMMA MapStep ==
  ASSUME TypeOK, [Next]_vars
  PROVE  \/ UNCHANGED <<id, active>>
         \/ \E c \in Clients, s \in Stamps :
              /\ conn[c] = "counted" /\ conn'[c] = "decoder"
              /\ id' = [id EXCEPT ![c] = s]
              /\ active' = [active EXCEPT ![s] = c]
         \/ \E c \in Clients :
              /\ Untrack(c) \/ CleanupDeletes(c)
              /\ id' = id
              /\ active' = [active EXCEPT ![id[c]] = None]
<1>1. ASSUME NEW c \in Clients, Track(c)
      PROVE  /\ conn[c] = "counted" /\ conn'[c] = "decoder"
             /\ \E s \in Stamps : /\ id' = [id EXCEPT ![c] = s]
                                  /\ active' = [active EXCEPT ![s] = c]
  BY <1>1 DEF Track, Goto, TypeOK
<1>2. ASSUME NEW c \in Clients, Untrack(c) \/ CleanupDeletes(c)
      PROVE  id' = id /\ active' = [active EXCEPT ![id[c]] = None]
  BY <1>2 DEF Untrack, CleanupDeletes
<1>3. CASE ~\E c \in Clients : Track(c) \/ Untrack(c) \/ CleanupDeletes(c)
  BY <1>3
  DEF Next, Handler, Count, NewDecoder, Select, Decode, ProcessMessage,
      AddEvent, Finish, Leave, Connect, ClientLeaves, Accept, Dispatch,
      StartHealthServer, RunReturns, MainReturns, Cleanup, CleanupFinds,
      CleanupCancels, Tick, Flushed, FlusherEnd, FlusherStep, ShutdownGoroutine,
      Signal, CloseShutdownChan, CloseListener, HandlersDone, WaitTimeout,
      CloseWriter, Exit, ShutdownStep, vars, trackVars
<1> QED
  BY <1>1, <1>2, <1>3

LEMMA IDStep ==
  ASSUME TypeOK, AcceptedWaits, IDFromTracking, [Next]_vars
  PROVE  IDFromTracking'
<1> SUFFICES ASSUME NEW c \in Clients, id'[c] # None
             PROVE  conn'[c] \in Tracked \cup {"finishing", "leaving", "done"}
  BY DEF IDFromTracking
<1>1. CASE id'[c] = id[c]
  <2>1. conn[c] \in Tracked \cup {"finishing", "leaving", "done"}
    BY <1>1 DEF IDFromTracking
  <2> QED
    BY <2>1, OneMoves DEF Listed, Tracked, InLoop
<1>2. CASE id'[c] # id[c]
  <2>1. PICK d \in Clients, s \in Stamps :
          conn'[d] = "decoder" /\ id' = [id EXCEPT ![d] = s]
    BY <1>2, MapStep
  <2> QED
    BY <1>2, <2>1 DEF TypeOK, Tracked
<1> QED
  BY <1>1, <1>2

LEMMA CancelStep ==
  ASSUME TypeOK, CancelFirst, [Next]_vars
  PROVE  CancelFirst' /\ cancelled \subseteq cancelled'
<1>1. cancelled \subseteq cancelled'
  BY DEF Next, Handler, Count, Track, NewDecoder, Select, Decode, ProcessMessage,
         AddEvent, Untrack, Finish, Leave, Connect, ClientLeaves, Accept, Dispatch,
         StartHealthServer, RunReturns, MainReturns, Cleanup,
         CleanupFinds, CleanupCancels, CleanupDeletes, Tick, Flushed, FlusherEnd,
         FlusherStep, ShutdownGoroutine, Signal, CloseShutdownChan, CloseListener,
         HandlersDone, WaitTimeout, CloseWriter, Exit, ShutdownStep, vars, trackVars
<1>2. CASE \E c \in Clients : Cleanup(c)
  BY <1>1, <1>2, ServiceAssumption
  DEF Cleanup, CleanupFinds, CleanupCancels, CleanupDeletes, CancelFirst, TypeOK
<1>3. CASE ~ \E c \in Clients : Cleanup(c)
  <2>1. UNCHANGED <<cleanup, cancelling>>
    BY <1>3
    DEF Next, Handler, Count, Track, NewDecoder, Select, Decode, ProcessMessage,
        AddEvent, Untrack, Finish, Leave, Connect, ClientLeaves, Accept, Dispatch,
        StartHealthServer, RunReturns, MainReturns, Tick, Flushed, FlusherEnd,
        FlusherStep, ShutdownGoroutine, Signal, CloseShutdownChan, CloseListener,
        HandlersDone, WaitTimeout, CloseWriter, Exit, ShutdownStep, vars, trackVars
  <2> QED
    BY <1>1, <2>1 DEF CancelFirst
<1> QED
  BY <1>1, <1>2, <1>3

LEMMA CleanupStep ==
  ASSUME TypeOK, AcceptedWaits, CancelFirst, IDFromTracking, TrackedOrCancelled,
         [Next]_vars
  PROVE  TrackedOrCancelled'
<1>0. /\ id \in [Clients -> Stamps \cup {None}]
      /\ active \in [Stamps -> Clients \cup {None}]
  BY DEF TypeOK
<1> SUFFICES ASSUME NEW c \in Clients, conn'[c] \in Tracked
             PROVE  /\ id'[c] \in Stamps
                    /\ active'[id'[c]] = c \/ c \in cancelled' \/ SharesID(c)'
  BY DEF TrackedOrCancelled
<1>1. Entered(c)' \/ conn[c] \in Tracked
  BY OneMoves DEF Listed, Tracked, InLoop
<1>2. CASE Entered(c)'
  BY <1>2 DEF Entered
<1>3. CASE conn[c] \in Tracked
  <2>1. /\ id[c] \in Stamps
        /\ active[id[c]] = c \/ c \in cancelled \/ SharesID(c)
    BY <1>3 DEF TrackedOrCancelled
  <2>2. c \in cancelled => c \in cancelled'
    BY CancelStep
  <2>3. CASE UNCHANGED <<id, active>>
    BY <2>1, <2>2, <2>3 DEF SharesID
  <2>4. ASSUME NEW d \in Clients, NEW s \in Stamps, conn[d] = "counted",
               id' = [id EXCEPT ![d] = s], active' = [active EXCEPT ![s] = d]
        PROVE  /\ id'[c] \in Stamps
               /\ active'[id'[c]] = c \/ c \in cancelled' \/ SharesID(c)'
    <3>1. d # c /\ id[d] = None
      BY <1>3, <2>4 DEF Tracked, InLoop, IDFromTracking
    <3>2. id'[c] = id[c] /\ id'[d] = s
      BY <1>0, <2>4, <3>1
    <3>3. SharesID(c) => SharesID(c)'
      BY <1>0, <2>1, <2>4, <3>1, <3>2, ServiceAssumption DEF SharesID
    <3>4. s = id[c] => SharesID(c)'
      BY <3>1, <3>2 DEF SharesID
    <3> QED
      BY <1>0, <2>1, <2>2, <2>4, <3>2, <3>3, <3>4
  <2>5. ASSUME NEW d \in Clients, Untrack(d) \/ CleanupDeletes(d), id' = id,
               active' = [active EXCEPT ![id[d]] = None]
        PROVE  /\ id'[c] \in Stamps
               /\ active'[id'[c]] = c \/ c \in cancelled' \/ SharesID(c)'
    <3>1. CASE d = c
      <4>1. c \in cancelled'
        BY <2>2, <2>5, <3>1 DEF Untrack, CleanupDeletes, CancelFirst
      <4> QED
        BY <2>1, <2>5, <4>1
    <3>2. CASE d # c /\ id[d] = id[c]
      BY <2>1, <2>5, <3>2 DEF SharesID
    <3>3. CASE id[d] # id[c]
      BY <1>0, <2>1, <2>2, <2>5, <3>3 DEF SharesID
    <3> QED
      BY <3>1, <3>2, <3>3
  <2> QED
    BY <2>3, <2>4, <2>5, MapStep
<1> QED
  BY <1>1, <1>2, <1>3

-----------------------------------------------------------------------------
(* The theorems                                                            *)

(* The inductive invariant holds of every state.                           *)
THEOREM Invariant == Spec => []IInv
<1>1. Init => IInv
  <2> SUFFICES ASSUME Init PROVE IInv
    OBVIOUS
  <2>1. TypeOK /\ Counting
    BY CountInit
  <2>2. AcceptedWaits /\ ChanFirst /\ NoAddAfterClose /\ LateIsLast
    BY DEF Init, AcceptedWaits, ChanFirst, NoAddAfterClose, LateIsLast
  <2>3. AtMostOneLateEvent /\ CancelFirst /\ IDFromTracking /\ TrackedOrCancelled
    BY DEF Init, AtMostOneLateEvent, CancelFirst, IDFromTracking, TrackedOrCancelled,
           Tracked, InLoop
  <2> QED
    BY <2>1, <2>2, <2>3 DEF IInv
<1>2. IInv /\ [Next]_vars => IInv'
  BY CountStep, AcceptedStep, ChanStep, NoAddStep, LateStep, CancelStep, IDStep,
     CleanupStep DEF IInv
<1> QED
  BY <1>1, <1>2, PTL DEF Spec

(* Types: in particular wg and the connection count never go below zero,   *)
(* where Go's WaitGroup would panic.                                       *)
THEOREM TypeCorrect == Spec => []TypeOK
<1>1. IInv => TypeOK
  BY DEF IInv
<1> QED
  BY <1>1, Invariant, PTL

(* The counters are exact, however accept loop and handlers interleave.    *)
THEOREM CountersAreExact == Spec => []Counting
<1>1. IInv => Counting
  BY DEF IInv
<1> QED
  BY <1>1, Invariant, PTL

(* An orderly shutdown never closes the writer under a handler.            *)
THEOREM WriterClosesLast == Spec => []NoAddAfterClose
<1>1. IInv => NoAddAfterClose
  BY DEF IInv
<1> QED
  BY <1>1, Invariant, PTL

(* After the signal each connection adds one more event at most.           *)
THEOREM LateEventsAreFew == Spec => []AtMostOneLateEvent
<1>1. IInv => AtMostOneLateEvent
  BY DEF IInv
<1> QED
  BY <1>1, Invariant, PTL

(* Cleanup never forgets a connection that nobody will end, unless two     *)
(* handlers read the same nanosecond for their IDs.                        *)
THEOREM NobodyIsForgotten == Spec => []TrackedOrCancelled
<1>1. IInv => TrackedOrCancelled
  BY DEF IInv
<1> QED
  BY <1>1, Invariant, PTL
=============================================================================
