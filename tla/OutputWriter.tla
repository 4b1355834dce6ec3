---------------------------- MODULE OutputWriter ----------------------------
(***************************************************************************)
(* What an output writer promises its callers, whatever its medium (the    *)
(* Writer interface of output/output.go and the error results of its       *)
(* methods): an event handed to AddEvent stays with the writer until it    *)
(* has left through an output, or until an output failed for it.           *)
(* This is the abstract specification the concrete writers implement.      *)
(***************************************************************************)
CONSTANT Events

VARIABLES
  added,         (* events handed to AddEvent                              *)
  held,          (* events the writer still has in memory                  *)
  out,           (* events that reached an output at least once            *)
  excused        (* events an output was tried for and failed              *)

vars == <<added, held, out, excused>>

TypeOK ==
  /\ added \subseteq Events
  /\ held \subseteq added
  /\ out \subseteq added
  /\ excused \subseteq added

Init == added = {} /\ held = {} /\ out = {} /\ excused = {}

AddEvent(e) ==
  /\ e \notin added
  /\ added' = added \cup {e}
  /\ held' = held \cup {e}
  /\ UNCHANGED <<out, excused>>

(* Any amount of output, repeated or failed, and the release of events     *)
(* that are accounted for.                                                 *)
Output ==
  /\ out' \in SUBSET added /\ out \subseteq out'
  /\ excused' \in SUBSET added /\ excused \subseteq excused'
  /\ held' \in SUBSET held /\ held \ held' \subseteq out' \cup excused'
  /\ UNCHANGED added

Next ==
  \/ \E e \in Events : AddEvent(e)
  \/ Output

Spec == Init /\ [][Next]_vars

(* An event the writer no longer holds was output, or its output failed.   *)
Accounted == added \ held \subseteq out \cup excused
=============================================================================
