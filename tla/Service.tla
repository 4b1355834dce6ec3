------------------------------ MODULE Service ------------------------------
(***************************************************************************)
(* The service of service/service.go: the accept loop of Run, a goroutine  *)
(* per connection, the flush ticker, the cleanup of inactive connections   *)
(* and the shutdown goroutine, and main, which ends the process when Run   *)
(* returns. The output writer is behind AddEvent, Flush and Close, of      *)
(* which only begin and end show here; see HECWriter for what it does.     *)
(*                                                                         *)
(* conn[c] is where the connection of client c is: with the client         *)
(* ("away", "backlog"), turned away ("rejected"), or at the point its      *)
(* handleConnection has reached.                                           *)
(***************************************************************************)
EXTENDS Integers, FiniteSets

CONSTANTS
  Clients,           (* each connects at most once                         *)
  MaxConnections,    (* maxConnections, as NewService set it               *)
  MaxMessages,       (* bound: frames a client sends                       *)
  Monitoring,        (* BOOLEAN: monitoringEnabled                         *)
  Stamps,            (* values of time.Now().UnixNano(): connection IDs    *)
  None

ASSUME ServiceAssumption ==
  /\ MaxConnections \in Nat \ {0}
  /\ MaxMessages \in Nat
  /\ Monitoring \in BOOLEAN
  /\ None \notin Clients \cup Stamps
  /\ Stamps # {}

VARIABLES
  conn,
  accepted,          (* the accept loop's conn, None outside the loop body *)
  run,               (* Run: "accepting", "returned"                       *)
  connectionCount,
  wg,
  id,                (* per client: connInfo.ID                            *)
  active,            (* activeConnections: per ID the connection, or None  *)
  cancelled,         (* connections whose context is cancelled             *)
  gone,              (* clients that send no more                          *)
  frames,            (* frames decoded, per client                         *)
  late,              (* events added after shutdownChan was closed         *)
  cleanup,           (* the connection cleanup found inactive, or None     *)
  cancelling,        (* cleanup has cancelled it, Delete is next           *)
  healthServer,      (* s.healthServer # nil                               *)
  healthStarts,      (* startHealthServer goroutines still to assign it    *)
  flusher,           (* "ticking", "flushing", "stopped"                   *)
  shutdownChan,      (* TRUE: closed                                       *)
  listening,
  shutdown,          (* where the shutdown goroutine is                    *)
  timedOut,          (* it gave up waiting for the connections             *)
  writerClosed,
  up                 (* the process exists                                 *)

acceptVars   == <<accepted, run>>
countVars    == <<connectionCount, wg>>
clientVars   == <<gone, frames>>
healthVars   == <<healthServer, healthStarts>>
trackVars    == <<id, active, cancelled, cleanup, cancelling>>
shutdownVars == <<shutdownChan, listening, shutdown, timedOut, writerClosed>>
rest         == <<healthVars, flusher, shutdownVars, up>>
vars == <<conn, acceptVars, countVars, clientVars, trackVars, late, rest>>

InLoop == {"loop", "reading", "processing", "adding"}
Tracked == InLoop \cup {"decoder", "untrack"}
(* From wg.Add to wg.Done.                                                 *)
InGroup == Tracked \cup {"spawned", "counted", "finishing"}
(* From the increment of connectionCount to its decrement.                 *)
Counted == Tracked \cup {"counted", "finishing", "leaving"}
ConnState == InGroup \cup {"away", "backlog", "rejected", "leaving", "done"}

Shutdown == {"waiting", "signalled", "chanClosed", "waitingForHandlers",
             "closingWriter", "closed"}

TypeOK ==
  /\ conn \in [Clients -> ConnState]
  /\ accepted \in Clients \cup {None}
  /\ run \in {"accepting", "returned"}
  /\ connectionCount \in Nat /\ wg \in Nat
  /\ id \in [Clients -> Stamps \cup {None}]
  /\ active \in [Stamps -> Clients \cup {None}]
  /\ cancelled \subseteq Clients /\ gone \subseteq Clients
  /\ frames \in [Clients -> 0 .. MaxMessages]
  /\ late \in [Clients -> Nat]
  /\ cleanup \in Clients \cup {None}
  /\ healthServer \in BOOLEAN /\ healthStarts \in Nat
  /\ flusher \in {"ticking", "flushing", "stopped"}
  /\ shutdown \in Shutdown
  /\ {cancelling, shutdownChan, listening, timedOut, writerClosed, up}
       \subseteq BOOLEAN

Init ==
  /\ conn = [c \in Clients |-> "away"]
  /\ accepted = None /\ run = "accepting"
  /\ connectionCount = 0 /\ wg = 0
  /\ id = [c \in Clients |-> None] /\ active = [s \in Stamps |-> None]
  /\ cancelled = {} /\ gone = {}
  /\ frames = [c \in Clients |-> 0]
  /\ late = [c \in Clients |-> 0]
  /\ cleanup = None /\ cancelling = FALSE
  /\ healthServer = FALSE /\ healthStarts = 0
  /\ flusher = "ticking"
  /\ shutdownChan = FALSE /\ listening = TRUE
  /\ shutdown = "waiting" /\ timedOut = FALSE /\ writerClosed = FALSE
  /\ up = TRUE

Goto(c, from, to) ==
  /\ conn[c] = from
  /\ conn' = [conn EXCEPT ![c] = to]

-----------------------------------------------------------------------------
(* The clients                                                             *)

Connect(c) ==
  /\ listening
  /\ Goto(c, "away", "backlog")
  /\ UNCHANGED <<acceptVars, countVars, clientVars, trackVars, late, rest>>

(* It may stop at any point; once its handler is through with it, that     *)
(* makes no difference.                                                    *)
ClientLeaves(c) ==
  /\ conn[c] \in InLoop \cup {"backlog", "spawned", "counted", "decoder"}
  /\ c \notin gone
  /\ gone' = gone \cup {c}
  /\ UNCHANGED <<conn, acceptVars, countVars, frames, trackVars, late, rest>>

-----------------------------------------------------------------------------
(* The accept loop of Run                                                  *)

Accept(c) ==
  /\ run = "accepting" /\ accepted = None /\ listening
  /\ conn[c] = "backlog"
  /\ accepted' = c
  /\ UNCHANGED <<conn, run, countVars, clientVars, trackVars, late, rest>>

DispatchAddForgotten(c) ==
  /\ accepted = c
  /\ accepted' = None
  /\ conn' = [conn EXCEPT ![c] = IF connectionCount >= MaxConnections
                                 THEN "rejected" ELSE "spawned"]
  /\ healthStarts' = IF Monitoring /\ ~healthServer
                        /\ connectionCount < MaxConnections
                     THEN healthStarts + 1 ELSE healthStarts
  /\ UNCHANGED <<run, countVars, clientVars, trackVars, late,
                 healthServer, flusher, shutdownVars, up>>

(* The limit is compared with what the handlers have counted so far; the   *)
(* handler of an accepted connection counts itself only once it runs.      *)
Dispatch(c) ==
  /\ accepted = c
  /\ accepted' = None
  /\ IF connectionCount >= MaxConnections
     THEN conn' = [conn EXCEPT ![c] = "rejected"] /\ UNCHANGED wg
     ELSE conn' = [conn EXCEPT ![c] = "spawned"] /\ wg' = wg + 1
  /\ healthStarts' = IF Monitoring /\ ~healthServer /\ wg' # wg
                     THEN healthStarts + 1 ELSE healthStarts
  /\ UNCHANGED <<run, connectionCount, clientVars, trackVars, late,
                 healthServer, flusher, shutdownVars, up>>

(* A startHealthServer goroutine assigns the field. Two of them may have   *)
(* been started by then; the later one fails to listen on the port.        *)
StartHealthServer ==
  /\ healthStarts > 0
  /\ healthStarts' = healthStarts - 1
  /\ healthServer' = TRUE
  /\ UNCHANGED <<conn, acceptVars, countVars, clientVars, trackVars, late,
                 flusher, shutdownVars, up>>

(* Accept fails with "use of closed network connection": Run returns nil.  *)
RunReturns ==
  /\ run = "accepting" /\ accepted = None /\ ~listening
  /\ run' = "returned"
  /\ UNCHANGED <<conn, accepted, countVars, clientVars, trackVars, late, rest>>

(* main returns, and with it ends the process.                             *)
MainReturns ==
  /\ run = "returned"
  /\ up' = FALSE
  /\ UNCHANGED <<conn, acceptVars, countVars, clientVars, trackVars, late,
                 healthVars, flusher, shutdownVars>>

-----------------------------------------------------------------------------
(* handleConnection                                                        *)

Count(c) ==
  /\ Goto(c, "spawned", "counted")
  /\ connectionCount' = connectionCount + 1
  /\ UNCHANGED <<acceptVars, wg, clientVars, trackVars, late, rest>>

(* activeConnections.Store under the time of day in nanoseconds, which two *)
(* handlers may read alike: the second Store replaces the first entry.     *)
Track(c) ==
  /\ Goto(c, "counted", "decoder")
  /\ \E s \in Stamps : /\ id' = [id EXCEPT ![c] = s]
                       /\ active' = [active EXCEPT ![s] = c]
  /\ UNCHANGED <<acceptVars, countVars, clientVars, cancelled, cleanup,
                 cancelling, late, rest>>

(* The frame stream handshake, or its error or deadline.                   *)
NewDecoder(c) ==
  /\ \/ Goto(c, "decoder", "untrack")
     \/ c \notin gone /\ Goto(c, "decoder", "loop")
  /\ UNCHANGED <<acceptVars, countVars, clientVars, trackVars, late, rest>>

SelectOnlyContext(c) ==
  /\ Goto(c, "loop", IF c \in cancelled THEN "untrack" ELSE "reading")
  /\ UNCHANGED <<acceptVars, countVars, clientVars, trackVars, late, rest>>

(* The select at the head of the loop.                                     *)
Select(c) ==
  /\ Goto(c, "loop", IF shutdownChan \/ c \in cancelled THEN "untrack"
                                                         ELSE "reading")
  /\ UNCHANGED <<acceptVars, countVars, clientVars, trackVars, late, rest>>

DecodeNoDeadline(c) ==
  /\ c \notin gone
  /\ \/ Goto(c, "reading", "untrack") /\ UNCHANGED frames
     \/ /\ frames[c] < MaxMessages
        /\ Goto(c, "reading", "processing")
        /\ frames' = [frames EXCEPT ![c] = @ + 1]
  /\ UNCHANGED <<acceptVars, countVars, gone, trackVars, late, rest>>

(* Decode: a frame, or end of stream, error or the read deadline.          *)
Decode(c) ==
  /\ \/ Goto(c, "reading", "untrack") /\ UNCHANGED frames
     \/ /\ c \notin gone /\ frames[c] < MaxMessages
        /\ Goto(c, "reading", "processing")
        /\ frames' = [frames EXCEPT ![c] = @ + 1]
  /\ UNCHANGED <<acceptVars, countVars, gone, trackVars, late, rest>>

(* Unmarshal and ProcessMessage: an event, or none and back to the select. *)
ProcessMessage(c) ==
  /\ \E to \in {"adding", "loop"} : Goto(c, "processing", to)
  /\ UNCHANGED <<acceptVars, countVars, clientVars, trackVars, late, rest>>

(* AddEvent returns, with an error or without; it was called at "adding".  *)
AddEvent(c) ==
  /\ Goto(c, "adding", "loop")
  /\ late' = IF shutdownChan THEN [late EXCEPT ![c] = @ + 1] ELSE late
  /\ UNCHANGED <<acceptVars, countVars, clientVars, trackVars, rest>>

(* The deferred calls, last one first: Delete, of whatever the ID stands   *)
(* for by now, and cancel ...                                              *)
Untrack(c) ==
  /\ Goto(c, "untrack", "finishing")
  /\ active' = [active EXCEPT ![id[c]] = None]
  /\ cancelled' = cancelled \cup {c}
  /\ UNCHANGED <<acceptVars, countVars, clientVars, id, cleanup, cancelling,
                 late, rest>>

(* ... conn.Close, after which the client sends no more, and wg.Done ...   *)
Finish(c) ==
  /\ Goto(c, "finishing", "leaving")
  /\ wg' = wg - 1
  /\ gone' = gone \cup {c}
  /\ UNCHANGED <<acceptVars, connectionCount, frames, trackVars, late, rest>>

(* ... and the count.                                                      *)
Leave(c) ==
  /\ Goto(c, "leaving", "done")
  /\ connectionCount' = connectionCount - 1
  /\ UNCHANGED <<acceptVars, wg, clientVars, trackVars, late, rest>>

-----------------------------------------------------------------------------
(* cleanupInactiveConnections                                              *)

InMap(c) == \E s \in Stamps : active[s] = c

(* Range comes to a connection without a frame for ten minutes: how long   *)
(* one of them has been held up, in AddEvent or in a read, is a choice.    *)
CleanupFinds(c) ==
  /\ cleanup = None /\ InMap(c)
  /\ cleanup' = c
  /\ UNCHANGED <<conn, acceptVars, countVars, clientVars, id, active,
                 cancelled, cancelling, late, rest>>

CleanupDeletesFirst(c) ==
  /\ cleanup = c /\ ~cancelling
  /\ active' = [active EXCEPT ![id[c]] = None]
  /\ cancelling' = TRUE
  /\ UNCHANGED <<conn, acceptVars, countVars, clientVars, id, cancelled,
                 cleanup, late, rest>>

CleanupCancels(c) ==
  /\ cleanup = c /\ ~cancelling
  /\ cancelled' = cancelled \cup {c}
  /\ cancelling' = TRUE
  /\ UNCHANGED <<conn, acceptVars, countVars, clientVars, id, active, cleanup,
                 late, rest>>

(* Delete(key): the entry that is there now.                               *)
CleanupDeletes(c) ==
  /\ cleanup = c /\ cancelling
  /\ active' = [active EXCEPT ![id[c]] = None]
  /\ cleanup' = None /\ cancelling' = FALSE
  /\ UNCHANGED <<conn, acceptVars, countVars, clientVars, id, cancelled, late,
                 rest>>

-----------------------------------------------------------------------------
(* The flush ticker's goroutine                                            *)

FlusherStep(from, to) ==
  /\ flusher = from /\ flusher' = to
  /\ UNCHANGED <<conn, acceptVars, countVars, clientVars, trackVars, late,
                 healthVars, shutdownVars, up>>

Tick       == FlusherStep("ticking", "flushing")
Flushed    == FlusherStep("flushing", "ticking")
FlusherEnd == shutdownChan /\ FlusherStep("ticking", "stopped")

-----------------------------------------------------------------------------
(* The shutdown goroutine                                                  *)

ShutdownStep(from, to) ==
  /\ shutdown = from /\ shutdown' = to
  /\ UNCHANGED <<conn, acceptVars, countVars, clientVars, trackVars, late,
                 healthVars, flusher>>

Signal ==
  /\ ShutdownStep("waiting", "signalled")
  /\ UNCHANGED <<shutdownChan, listening, timedOut, writerClosed, up>>

CloseShutdownChan ==
  /\ ShutdownStep("signalled", "chanClosed")
  /\ shutdownChan' = TRUE
  /\ UNCHANGED <<listening, timedOut, writerClosed, up>>

CloseListener ==
  /\ ShutdownStep("chanClosed", "waitingForHandlers")
  /\ listening' = FALSE
  /\ UNCHANGED <<shutdownChan, timedOut, writerClosed, up>>

(* wg.Wait returns.                                                        *)
HandlersDone ==
  /\ wg = 0
  /\ ShutdownStep("waitingForHandlers", "closingWriter")
  /\ UNCHANGED <<shutdownChan, listening, timedOut, writerClosed, up>>

(* Thirty seconds have passed.                                             *)
WaitTimeout ==
  /\ ShutdownStep("waitingForHandlers", "closingWriter")
  /\ timedOut' = TRUE
  /\ UNCHANGED <<shutdownChan, listening, writerClosed, up>>

CloseWriter ==
  /\ ShutdownStep("closingWriter", "closed")
  /\ writerClosed' = TRUE
  /\ UNCHANGED <<shutdownChan, listening, timedOut, up>>

(* os.Exit(0)                                                              *)
Exit ==
  /\ ShutdownStep("closed", "closed")
  /\ up' = FALSE
  /\ UNCHANGED <<shutdownChan, listening, timedOut, writerClosed>>

-----------------------------------------------------------------------------
Handler(c) ==
  \/ Count(c) \/ Track(c) \/ NewDecoder(c) \/ Select(c) \/ Decode(c)
  \/ ProcessMessage(c) \/ AddEvent(c) \/ Untrack(c) \/ Finish(c) \/ Leave(c)

Cleanup(c) ==
  CleanupFinds(c) \/ CleanupCancels(c) \/ CleanupDeletes(c)

ShutdownGoroutine ==
  \/ Signal \/ CloseShutdownChan \/ CloseListener \/ HandlersDone
  \/ WaitTimeout \/ CloseWriter \/ Exit

Next ==
  /\ up
  /\ \/ \E c \in Clients : Connect(c) \/ ClientLeaves(c)
     \/ \E c \in Clients : Accept(c) \/ Dispatch(c)
     \/ StartHealthServer \/ RunReturns \/ MainReturns
     \/ \E c \in Clients : Handler(c)
     \/ \E c \in Clients : Cleanup(c)
     \/ Tick \/ Flushed \/ FlusherEnd
     \/ ShutdownGoroutine

Spec == Init /\ [][Next]_vars

-----------------------------------------------------------------------------
(* What the service promises                                               *)

(* Unless the wait timed out, no handler is adding an event once the       *)
(* writer is being closed: close(shutdownChan) comes before wg.Wait, so a  *)
(* handler that starts after the wait still finds the channel closed       *)
(* (service.go:173-195, 257, 321-324).                                     *)
NoAddAfterClose ==
  shutdown \in {"closingWriter", "closed"} /\ ~timedOut
    => \A c \in Clients : conn[c] \notin {"reading", "processing", "adding"}

(* After the shutdown signal a connection adds at most the one event whose *)
(* frame it was waiting for: the select comes before every frame           *)
(* (service.go:320-330).                                                   *)
AtMostOneLateEvent == \A c \in Clients : late[c] <= 1

(* A handler at work is in activeConnections or its context is cancelled:  *)
(* cleanup never forgets a connection that nobody will end, though it      *)
(* looks, cancels and deletes while handlers come and go (296, 407-416).   *)
(* Only a handler that read the same nanosecond may have taken its entry.  *)
SharesID(c) == \E d \in Clients \ {c} : id[d] = id[c]

TrackedOrCancelled ==
  \A c \in Clients :
    conn[c] \in Tracked =>
      id[c] \in Stamps /\ (active[id[c]] = c \/ c \in cancelled \/ SharesID(c))

(* Liveness: the slot of a client that sends no more comes back: its read  *)
(* deadline ends the loop (service.go:332-345, 266-270).                   *)
SlotsComeBack ==
  \A c \in Clients : c \in gone /\ conn[c] \in Counted ~> conn[c] = "done" \/ ~up

-----------------------------------------------------------------------------
(* The inductive invariant behind the safety properties                    *)

Group   == {c \in Clients : conn[c] \in InGroup}
Slots   == {c \in Clients : conn[c] \in Counted}
AtFrame == {"reading", "processing", "adding"}

(* The two counters are the sizes of the sets they stand for.              *)
Counting ==
  /\ IsFiniteSet(Group) /\ wg = Cardinality(Group)
  /\ IsFiniteSet(Slots) /\ connectionCount = Cardinality(Slots)

(* The accept loop holds a connection that has no handler yet.             *)
AcceptedWaits == accepted # None => conn[accepted] = "backlog"

(* The channel is closed before anything that follows it.                  *)
ChanFirst == shutdown \notin {"waiting", "signalled"} => shutdownChan

(* A late event is the connection's last: it gets to no other frame.       *)
LateIsLast ==
  \A c \in Clients : late[c] > 0 => shutdownChan /\ conn[c] \notin AtFrame

CancelFirst == cancelling => cleanup \in cancelled

(* A connection has no ID before it is tracked, and keeps it then.         *)
IDFromTracking ==
  \A c \in Clients :
    id[c] # None => conn[c] \in Tracked \cup {"finishing", "leaving", "done"}

IInv ==
  /\ TypeOK
  /\ Counting /\ AcceptedWaits
  /\ ChanFirst /\ NoAddAfterClose
  /\ LateIsLast /\ AtMostOneLateEvent
  /\ CancelFirst /\ IDFromTracking /\ TrackedOrCancelled

-----------------------------------------------------------------------------
(* What the comments say and the code does not do                          *)

(* config.go:38, "Maximum number of concurrent connections".               *)
ConnectionLimit ==
  Cardinality({c \in Clients : conn[c] \in InGroup}) <= MaxConnections

(* service.go:178-192, "Wait for active connections to finish (with        *)
(* timeout)", "Close output writer": the process that was told to shut     *)
(* down does not end before that is done.                                  *)
GracefulShutdown == ~up => writerClosed
=============================================================================
