------------------------------ MODULE EventFeed ------------------------------
(***************************************************************************)
(* What the event bus promises to those who listen and to those who        *)
(* publish, without its lock, its map, its channels or its loops.          *)
(*                                                                         *)
(* An event is offered to the feeds that were open when its publication    *)
(* began and that asked for it: once each, between the begin and the end   *)
(* of the publication, in any order.  A feed refuses an offer only while   *)
(* Cap events wait in it.  So a feed never repeats an event, never shows   *)
(* one that was published before it opened or that it did not ask for, and *)
(* keeps the order of two events when one was published after the other.   *)
(***************************************************************************)
EXTENDS Naturals, Sequences

CONSTANTS
  Feeds,    \* the listeners
  Events,   \* the occurrences of events
  Cap       \* how many events wait in a feed before it refuses

VARIABLES
  begun,    \* events whose publication has begun
  ended,    \* events whose publication is over
  owed,     \* pairs <<e, f>>: e has still to be offered to f
  phase,    \* phase[f] \in {"none", "open", "shut"}
  wanted,   \* wanted[f]: the events f asked for
  stream,   \* stream[f]: the events f took, oldest first
  waiting   \* waiting[f]: how many of them nobody has read

vars == <<begun, ended, owed, phase, wanted, stream, waiting>>

Init ==
  /\ begun = {}
  /\ ended = {}
  /\ owed = {}
  /\ phase = [f \in Feeds |-> "none"]
  /\ wanted \in [Feeds -> SUBSET Events]
  /\ stream = [f \in Feeds |-> <<>>]
  /\ waiting = [f \in Feeds |-> 0]

Begin(e) ==
  /\ e \notin begun
  /\ begun' = begun \cup {e}
  /\ owed' = owed \cup {<<e, f>> : f \in {g \in Feeds : phase[g] = "open" /\ e \in wanted[g]}}
  /\ UNCHANGED <<ended, phase, wanted, stream, waiting>>

End(e) ==
  /\ e \in begun \ ended
  /\ \A f \in Feeds : <<e, f>> \notin owed
  /\ ended' = ended \cup {e}
  /\ UNCHANGED <<begun, owed, phase, wanted, stream, waiting>>

Take(e, f) ==
  /\ <<e, f>> \in owed
  /\ waiting[f] < Cap
  /\ owed' = owed \ {<<e, f>>}
  /\ stream' = [stream EXCEPT ![f] = Append(@, e)]
  /\ waiting' = [waiting EXCEPT ![f] = @ + 1]
  /\ UNCHANGED <<begun, ended, phase, wanted>>

Refuse(e, f) ==
  /\ <<e, f>> \in owed
  /\ waiting[f] = Cap
  /\ owed' = owed \ {<<e, f>>}
  /\ UNCHANGED <<begun, ended, phase, wanted, stream, waiting>>

Read(f) ==
  /\ waiting[f] > 0
  /\ waiting' = [waiting EXCEPT ![f] = @ - 1]
  /\ UNCHANGED <<begun, ended, owed, phase, wanted, stream>>

Open(f) ==
  /\ phase[f] = "none"
  /\ phase' = [phase EXCEPT ![f] = "open"]
  /\ UNCHANGED <<begun, ended, owed, wanted, stream, waiting>>

Shut(f) ==
  /\ phase[f] = "open"
  /\ \A e \in Events : <<e, f>> \notin owed
  /\ phase' = [phase EXCEPT ![f] = "shut"]
  /\ UNCHANGED <<begun, ended, owed, wanted, stream, waiting>>

Next ==
  \/ \E e \in Events : Begin(e) \/ End(e) \/ \E f \in Feeds : Take(e, f) \/ Refuse(e, f)
  \/ \E f \in Feeds : Read(f) \/ Open(f) \/ Shut(f)

Spec == Init /\ [][Next]_vars
=============================================================================
