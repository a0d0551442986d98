------------------------------ MODULE EventBus ------------------------------
(***************************************************************************)
(* The event bus of one run (core/events.py) and the streams read from it  *)
(* (event_stream in api/sse.py, replay_events in api/v1/chat.py).          *)
(*                                                                         *)
(* An event is its sequence number.  Every reader has the bounded queue    *)
(* the bus fills, and the bounded queue its own pump fills from that; the  *)
(* event a blocked pump holds counts as in the second.  The publisher is   *)
(* whoever runs the agent: it publishes, closes, and discards at the end.  *)
(***************************************************************************)
EXTENDS Integers, Sequences, SequencesExt, Lists

CONSTANTS
    Readers,
    ReplaySize,     \* REPLAY_BUFFER_SIZE
    QueueSize,      \* SUBSCRIBER_QUEUE_SIZE
    StreamSize,     \* the second queue and the event the pump holds
    MaxEvents,      \* bound: events of the run
    MaxConnects     \* bound: connections of a reader

ASSUME BusAssumption ==
    /\ {ReplaySize, QueueSize, StreamSize} \subseteq Nat \ {0}
    /\ {MaxEvents, MaxConnects} \subseteq Nat

VARIABLES
    sent,       \* the channel's last sequence number
    replay,     \* its replay buffer
    phase,      \* "open", "closed", "discarded"
    reading,    \* per reader: "away", "reading", "fresh" (on a new channel), "ended"
    subscribed, \* per reader: the queue the bus fills
    streamed,   \* per reader: the queue its response is written from
    got,        \* per reader: what its client has received, over all connections
    connects,
    gap,        \* history: readers an event was dropped for, or not replayed to
    deaf        \* history: readers whose end marker was not put

busVars == <<sent, replay, phase, reading, subscribed, streamed, got, connects, gap, deaf>>

EndMark == 0

LastGot(r) == IF got[r] = <<>> THEN 0 ELSE Last(got[r])

BusInit ==
    /\ sent = 0 /\ replay = <<>> /\ phase = "open"
    /\ reading = [r \in Readers |-> "away"]
    /\ subscribed = [r \in Readers |-> <<>>]
    /\ streamed = [r \in Readers |-> <<>>]
    /\ got = [r \in Readers |-> <<>>]
    /\ connects = [r \in Readers |-> 0]
    /\ gap = {} /\ deaf = {}

-----------------------------------------------------------------------------
\* The readers the channel knows: one that left was taken off it.
Subscribers == {r \in Readers : reading[r] = "reading"}

\* A full queue loses its oldest event.
Put(queue, event) ==
    IF Len(queue) < QueueSize THEN Append(queue, event) ELSE Append(Tail(queue), event)

Publish ==
    /\ phase = "open" /\ sent < MaxEvents
    /\ sent' = sent + 1
    /\ replay' = IF Len(replay) < ReplaySize THEN Append(replay, sent + 1)
                 ELSE Append(Tail(replay), sent + 1)
    /\ subscribed' = [r \in Readers |-> IF r \in Subscribers THEN Put(subscribed[r], sent + 1)
                                        ELSE subscribed[r]]
    /\ gap' = gap \cup {r \in Subscribers : Len(subscribed[r]) = QueueSize}
    /\ UNCHANGED <<phase, reading, streamed, got, connects, deaf>>

\* A fault: closing tells nobody.
CloseSilently ==
    /\ phase = "open"
    /\ phase' = "closed"
    /\ UNCHANGED <<sent, replay, reading, subscribed, streamed, got, connects, gap, deaf>>

\* The end marker is put where there is room, and nowhere else.
CloseRun ==
    /\ phase = "open"
    /\ phase' = "closed"
    /\ LET told == {r \in Subscribers : Len(subscribed[r]) < QueueSize}
       IN  /\ subscribed' = [r \in Readers |-> IF r \in told THEN Append(subscribed[r], EndMark)
                                               ELSE subscribed[r]]
           /\ deaf' = deaf \cup (Subscribers \ told)
    /\ UNCHANGED <<sent, replay, reading, streamed, got, connects, gap>>

\* The channel is forgotten; who reads from it goes on.
DiscardRun ==
    /\ phase = "closed"
    /\ phase' = "discarded"
    /\ UNCHANGED <<sent, replay, reading, subscribed, streamed, got, connects, gap, deaf>>

-----------------------------------------------------------------------------
\* A fault: the event the client has already is sent once more.
MissedFrom(after) == Kept(replay, {e \in Nat : e >= after})

\* What the buffer holds of what a client has not seen.
Missed(after) == Kept(replay, {e \in Nat : e > after})

\* subscribe: as much of it as the queue takes, the oldest first.  On a closed run
\* the end marker needs a place too; without one the subscription raises, and the
\* response ends at once.
Connect(r) ==
    /\ reading[r] \in {"away", "ended"} /\ connects[r] < MaxConnects
    /\ phase # "discarded"
    /\ LET missed == Missed(LastGot(r))
           taken == SubSeq(missed, 1, IF Len(missed) < QueueSize THEN Len(missed) ELSE QueueSize)
           full == phase = "closed" /\ Len(taken) = QueueSize
       IN  /\ subscribed' = [subscribed EXCEPT ![r] =
                                IF full THEN <<>>
                                ELSE IF phase = "closed" THEN Append(taken, EndMark) ELSE taken]
           /\ streamed' = [streamed EXCEPT ![r] = IF full THEN <<EndMark>> ELSE <<>>]
           /\ gap' = IF full \/ taken # [n \in 1..(sent - LastGot(r)) |-> LastGot(r) + n]
                     THEN gap \cup {r} ELSE gap
    /\ reading' = [reading EXCEPT ![r] = "reading"]
    /\ connects' = [connects EXCEPT ![r] = @ + 1]
    /\ deaf' = deaf \ {r}
    /\ UNCHANGED <<sent, replay, phase, got>>

\* A run that was discarded gets a new channel, empty and open.
ConnectLate(r) ==
    /\ reading[r] \in {"away", "ended"} /\ connects[r] < MaxConnects
    /\ phase = "discarded"
    /\ reading' = [reading EXCEPT ![r] = "fresh"]
    /\ connects' = [connects EXCEPT ![r] = @ + 1]
    /\ UNCHANGED <<sent, replay, phase, subscribed, streamed, got, gap, deaf>>

\* The pump of event_stream; it waits while the second queue is full.
Pump(r) ==
    /\ subscribed[r] # <<>> /\ Len(streamed[r]) < StreamSize
    /\ streamed' = [streamed EXCEPT ![r] = Append(@, Head(subscribed[r]))]
    /\ subscribed' = [subscribed EXCEPT ![r] = Tail(@)]
    /\ UNCHANGED <<sent, replay, phase, reading, got, connects, gap, deaf>>

Deliver(r) ==
    /\ streamed[r] # <<>>
    /\ streamed' = [streamed EXCEPT ![r] = Tail(@)]
    /\ IF Head(streamed[r]) = EndMark
       THEN reading' = [reading EXCEPT ![r] = "ended"] /\ UNCHANGED got
       ELSE got' = [got EXCEPT ![r] = Append(@, Head(streamed[r]))] /\ UNCHANGED reading
    /\ UNCHANGED <<sent, replay, phase, subscribed, connects, gap, deaf>>

\* The client is gone: the pump is cancelled and both queues with it.
Disconnect(r) ==
    /\ reading[r] \in {"reading", "fresh"}
    /\ reading' = [reading EXCEPT ![r] = "away"]
    /\ subscribed' = [subscribed EXCEPT ![r] = <<>>]
    /\ streamed' = [streamed EXCEPT ![r] = <<>>]
    /\ UNCHANGED <<sent, replay, phase, got, connects, gap, deaf>>

BusNext ==
    \/ Publish \/ CloseRun \/ DiscardRun
    \/ \E r \in Readers : Connect(r) \/ ConnectLate(r) \/ Pump(r) \/ Deliver(r) \/ Disconnect(r)

BusSpec == BusInit /\ [][BusNext]_busVars

\* The pump is a task of its own, and a client reads what arrives.
BusFairness == \A r \in Readers : WF_busVars(Pump(r)) /\ WF_busVars(Deliver(r))

-----------------------------------------------------------------------------
(***************************************************************************)
(* Properties.                                                             *)
(***************************************************************************)

UpTo(n) == [k \in 1..n |-> k]

Events(queue) == Kept(queue, Nat \ {EndMark})

BusTypeOK ==
    /\ sent \in 0..MaxEvents /\ phase \in {"open", "closed", "discarded"}
    /\ reading \in [Readers -> {"away", "reading", "fresh", "ended"}]
    /\ \A r \in Readers : Len(subscribed[r]) <= QueueSize /\ Len(streamed[r]) <= StreamSize

\* What a client has been sent is in order and without repeats, over any number of
\* reconnections; and unless its queue overflowed or the buffer no longer held what
\* it missed, nothing is missing in front of what is on its way to it, and a stream
\* that ended has shown everything (publish, subscribe, event_stream).
ResumedWithoutLoss ==
    /\ BusTypeOK
    /\ \A r \in Readers :
        LET all == got[r] \o Events(streamed[r] \o subscribed[r])
        IN  /\ \A i, j \in DOMAIN all : i < j => all[i] < all[j]
            /\ r \notin gap =>
                 /\ reading[r] = "reading" => all = UpTo(sent)
                 /\ reading[r] = "ended" => got[r] = UpTo(sent)

\* When a run is closed its readers come to the end of their streams.  Exception: one
\* whose queue was full at that moment, and one that came after the run was discarded.
ReadersAreReleased ==
    \A r \in Readers : (phase = "closed" /\ reading[r] = "reading") ~>
        (reading[r] # "reading" \/ r \in deaf)
=============================================================================
