-------------------------------- MODULE Turn --------------------------------
(***************************************************************************)
(* The loop that StreamCompletion and StreamMessage have in common: events *)
(* are taken from the stream one by one, the frames one gives rise to are  *)
(* written one by one, and any write may fail, the client being gone, which*)
(* ends the turn where it stands.                                          *)
(***************************************************************************)
EXTENDS Completion

CONSTANT MaxEvents   \* bound: events a turn may have
ASSUME MaxEventsAssumption == MaxEvents \in Nat

VARIABLES
    events,    \* history: the events taken from the stream
    sawTool,
    usage,     \* 0: no usage
    phase,     \* "reading", "closing" (the last frames are due), "over"
    todo,      \* frames the code at hand has still to write
    out        \* the frames the client was sent

TurnInit ==
    /\ events = <<>> /\ sawTool = FALSE /\ usage = 0
    /\ phase = "reading" /\ out = <<>>

\* The loop takes its next event: first, then what next() returns.
Takes(e) ==
    /\ phase = "reading" /\ todo = <<>> /\ Len(events) < MaxEvents
    /\ e \in IF events = <<>> THEN FirstEvents ELSE EventsAt(Len(events) + 1)
    /\ events' = Append(events, e)

\* An event of no other type is passed over.
OnOther ==
    \E e \in EventsAt(Len(events) + 1) :
        /\ e.type = "start" /\ Takes(e)
        /\ UNCHANGED <<sawTool, usage, phase, todo, out>>

\* next() reports the end of the stream: the last frames are written.
Ends(frames) ==
    /\ phase = "reading" /\ todo = <<>> /\ events # <<>>
    /\ todo' = frames /\ phase' = "closing"
    /\ UNCHANGED <<events, sawTool, usage, out>>

Emit ==
    /\ todo # <<>>
    /\ out' = Append(out, Head(todo)) /\ todo' = Tail(todo)
    /\ phase' = IF phase = "closing" /\ Len(todo) = 1 THEN "over" ELSE phase
    /\ UNCHANGED <<events, sawTool, usage>>

EmitFails ==
    /\ todo # <<>>
    /\ todo' = <<>> /\ phase' = "over"
    /\ UNCHANGED <<events, sawTool, usage, out>>

\* The client has read the stream to the end of its last frame, of that kind.
ReadTo(frame) == \E i \in DOMAIN out : out[i].frame = frame
=============================================================================
