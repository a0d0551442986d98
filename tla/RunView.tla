------------------------------- MODULE RunView -------------------------------
(***************************************************************************)
(* The chat pages of the web client: the store of the messages on screen   *)
(* (stores/run.ts), the reducer of trace events (lib/replay.ts), the hook  *)
(* that drives a run (hooks/useAgentStream.ts), the two chat pages and the *)
(* archiving of a session, and what the server hands back of a saved       *)
(* conversation (get_conversation).                                        *)
(*                                                                         *)
(* A callback of the browser runs to its next await, so it is one action.  *)
(* An aborted request unwinds in microtasks, before any other callback.    *)
(* A message is an assistant's turn.  A conversation has the name of its   *)
(* first run.                                                              *)
(***************************************************************************)
EXTENDS Lists, SequencesExt

CONSTANTS
    Runs,
    Scripts,    \* the event sequences a run may send, as [kind, what] records
    MaxAhead,   \* bound: events the server is ahead of the page when it is cut off
    MaxMoves,   \* bound: times a person changes the page
    Nowhere     \* no conversation, no run, no page but the new-chat page

\* What the server sends (AgentRunner.run, chat_stream): fragments and citations
\* before the answer, which comes once, and its end or its breaking off last.
InProtocol(s) ==
    /\ s \in Seq(ToSet(s))
    /\ \A i, j \in DOMAIN s :
         /\ s[i].kind = "answer" /\ i < j => s[j].kind \notin {"token", "citation", "answer"}
         /\ s[i].kind \in {"finished", "broken"} => j <= i
    /\ \A i \in DOMAIN s : s[i].kind = "finished" => s[i].what # "cancelled"

ASSUME ScriptsAssumption ==
    /\ \A r \in Runs : \A s \in Scripts[r] : InProtocol(s)
    /\ Nowhere \notin Runs

VARIABLES
    script,     \* per run: what it sends
    stream,     \* per run: "none", "open", "over"
    seen,       \* per run: how many of its events the page has read
    buffer,     \* per run: token fragments not yet on screen
    turns,      \* the messages on screen, [run, view, heard]
    conv,       \* conversationId of the store
    running,    \* its flag
    page,       \* the conversation the address names
    ctl,        \* the run whose request the mounted workspace can abort
    asked,      \* the runs in the order they were sent, [run, conv]
    saved,      \* per run: what was stored, see NotSaved
    later,      \* runs whose document was approved after they ended
    cache,      \* per conversation: the turns the query cache holds, <<>> if none
    archived,
    moves,
    loose,      \* history: runs whose stream went on after the page gave it up
    stopped     \* history: runs the stop button was pressed for

screen == <<turns, conv, running, page, ctl>>
streams == <<script, stream, seen, buffer>>
server == <<asked, saved, later, archived>>
viewVars == <<screen, streams, server, cache, moves, loose, stopped>>

-----------------------------------------------------------------------------
(***************************************************************************)
(* The reducer: applyEvent and the store's methods.                        *)
(***************************************************************************)

EmptyView == [text |-> <<>>, citations |-> {}, trace |-> <<>>, steps |-> <<>>,
              artifacts |-> <<>>, approval |-> "none", limitations |-> <<>>,
              validation |-> "none", policy |-> "none", status |-> "streaming",
              error |-> "none"]

AddNew(list, item) == IF Contains(list, item) THEN list ELSE Append(list, item)

Mark(steps, id, state) ==
    [i \in DOMAIN steps |-> IF steps[i].id = id THEN [steps[i] EXCEPT !.state = state] ELSE steps[i]]

Traced == {"plan", "step_started", "shown", "artifact", "approval", "validation", "broken"}

Reduced(v, e) ==
    CASE e.kind = "plan" ->
            [v EXCEPT !.steps = [i \in DOMAIN e.what |-> [id |-> e.what[i], state |-> "pending"]]]
      [] e.kind = "step_started" -> [v EXCEPT !.steps = Mark(@, e.what, "active")]
      [] e.kind = "step_finished" -> [v EXCEPT !.steps = Mark(@, e.what, "done")]
      [] e.kind = "artifact" -> [v EXCEPT !.artifacts = AddNew(@, e.what)]
      [] e.kind = "approval" -> [v EXCEPT !.approval = e.what]
      [] e.kind = "policy" -> [v EXCEPT !.policy = e.what]
      [] e.kind = "citation" -> [v EXCEPT !.citations = @ \cup {e.what}]
      [] e.kind = "answer" -> [v EXCEPT !.text = <<"final">>, !.citations = e.what]
      [] e.kind = "validation" -> [v EXCEPT !.validation = e.what]
      [] e.kind = "limitation" -> [v EXCEPT !.limitations = AddNew(@, e.what)]
      [] e.kind = "finished" ->
            [v EXCEPT !.status = IF e.what = "failed" THEN "error" ELSE "done"]
      [] OTHER -> v

\* What an event does to a message; most are also listed in its trace.
ApplyEvent(v, e) ==
    IF e.kind \in Traced THEN [Reduced(v, e) EXCEPT !.trace = Append(@, <<e.kind, e.what>>)]
    ELSE Reduced(v, e)

\* What events make of an empty message, one after the other.
Replayed(events) ==
    LET view[i \in 0..Len(events)] ==
            IF i = 0 THEN EmptyView ELSE ApplyEvent(view[i - 1], events[i])
    IN  view[Len(events)]

-----------------------------------------------------------------------------
(***************************************************************************)
(* What is saved of a run and rebuilt from it.                             *)
(***************************************************************************)

NotSaved == [events |-> 0, status |-> "running"]

Sent(r) == SubSeq(script[r], 1, saved[r].events)

HasKind(events, kind) == \E i \in DOMAIN events : events[i].kind = kind

\* The trace: no fragments, and not the event that says the stream broke.
Stored(r) == Kept(Sent(r), {e \in ToSet(Sent(r)) : e.kind \notin {"token", "broken"}})

\* A turn is saved for a run that answered, broke or was cut off.
HasTurn(r) ==
    /\ saved[r] # NotSaved
    /\ HasKind(Sent(r), "answer") \/ HasKind(Sent(r), "broken") \/ saved[r].status = "cancelled"

\* Of a citation everything is stored but the type of its document and the section
\* its passage is part of (add_message, StoredCitation).
AsStored(citations) == {[c EXCEPT !.within = "unsaved"] : c \in citations}

\* hydrateConversation: the trace, then documents that came later, then the
\* text, the citations and the outcome from the records.
Hydrated(r) ==
    LET answers == Kept(Sent(r), {e \in ToSet(Sent(r)) : e.kind = "answer"})
    IN  [Replayed(Stored(r)) EXCEPT
            !.artifacts = IF r \in later THEN AddNew(@, "deferred") ELSE @,
            !.text = IF answers = <<>> THEN <<>> ELSE <<"final">>,
            !.citations = IF answers = <<>> THEN {} ELSE AsStored(Last(answers).what),
            !.status = IF saved[r].status = "cancelled" THEN "interrupted"
                       ELSE IF saved[r].status = "failed" THEN "error" ELSE "done"]

\* What get_conversation returns, as the messages it is turned into.
SavedTurns(c) ==
    LET own == Kept(asked, {a \in ToSet(asked) : a.conv = c /\ HasTurn(a.run)})
    IN  [i \in DOMAIN own |-> [run |-> own[i].run, view |-> Hydrated(own[i].run), heard |-> {}]]

-----------------------------------------------------------------------------
ViewInit ==
    /\ script \in {f \in [Runs -> UNION {Scripts[r] : r \in Runs}] : \A r \in Runs : f[r] \in Scripts[r]}
    /\ stream = [r \in Runs |-> "none"]
    /\ seen = [r \in Runs |-> 0] /\ buffer = [r \in Runs |-> <<>>]
    /\ turns = <<>> /\ conv = Nowhere /\ running = FALSE
    /\ page = Nowhere /\ ctl = Nowhere
    /\ asked = <<>> /\ saved = [r \in Runs |-> NotSaved] /\ later = {}
    /\ cache = [c \in Runs |-> <<>>] /\ archived = {} /\ moves = 0
    /\ loose = {} /\ stopped = {}

\* patchLastMessage: whatever arrives is for the last message, if there is one.
PatchLast(list, by, view) ==
    IF list = <<>> THEN list
    ELSE [list EXCEPT ![Len(list)].view = view, ![Len(list)].heard = @ \cup by]

LastView(list) == IF list = <<>> THEN EmptyView ELSE Last(list).view

\* flush: the fragments that wait go into the text.
Flushed(list, r) ==
    IF buffer[r] = <<>> THEN list
    ELSE PatchLast(list, {r}, [LastView(list) EXCEPT !.text = @ \o buffer[r]])

AskedIn(r) == (CHOOSE a \in ToSet(asked) : a.run = r).conv

\* send: only when nothing runs.  The workspace is shown on the new-chat page, and
\* on a saved one whose conversation is on screen.  An archived one is refused.
Send(r) ==
    /\ ~running /\ stream[r] = "none"
    /\ page = Nowhere \/ page = conv
    /\ conv \notin archived
    /\ turns' = Append(turns, [run |-> r, view |-> EmptyView, heard |-> {}])
    /\ running' = TRUE
    /\ ctl' = r
    /\ stream' = [stream EXCEPT ![r] = "open"]
    /\ asked' = Append(asked, [run |-> r, conv |-> IF conv = Nowhere THEN r ELSE conv])
    /\ UNCHANGED <<conv, page, script, seen, buffer, saved, later, archived, cache, moves, loose, stopped>>

Next1(r) == script[r][seen[r] + 1]

Reading(r) == stream[r] = "open" /\ seen[r] < Len(script[r])

ReceiveToken(r) ==
    /\ Reading(r) /\ Next1(r).kind = "token"
    /\ buffer' = [buffer EXCEPT ![r] = Append(@, "fragment")]
    /\ seen' = [seen EXCEPT ![r] = @ + 1]
    /\ UNCHANGED <<screen, script, stream, server, cache, moves, loose, stopped>>

\* The animation frame.
Flush(r) ==
    /\ buffer[r] # <<>>
    /\ turns' = Flushed(turns, r)
    /\ buffer' = [buffer EXCEPT ![r] = <<>>]
    /\ UNCHANGED <<conv, running, page, ctl, script, stream, seen, server, cache, moves, loose, stopped>>

\* The first event names the conversation, and the new-chat page follows it to its
\* own address: another page, with a workspace of its own.
ReceiveStarted(r) ==
    /\ Reading(r) /\ Next1(r).kind = "started"
    /\ conv' = AskedIn(r)
    /\ seen' = [seen EXCEPT ![r] = @ + 1]
    /\ IF page = Nowhere /\ conv # AskedIn(r)
       THEN page' = AskedIn(r) /\ ctl' = Nowhere
       ELSE UNCHANGED <<page, ctl>>
    /\ UNCHANGED <<turns, running, script, stream, buffer, server, cache, moves, loose, stopped>>

Receive(r) ==
    /\ Reading(r) /\ Next1(r).kind \notin {"token", "started"}
    /\ LET flushing == Next1(r).kind \in {"answer", "finished"}
           list == IF flushing THEN Flushed(turns, r) ELSE turns
       IN  /\ turns' = PatchLast(list, {r}, ApplyEvent(LastView(list), Next1(r)))
           /\ buffer' = IF flushing THEN [buffer EXCEPT ![r] = <<>>] ELSE buffer
    /\ seen' = [seen EXCEPT ![r] = @ + 1]
    /\ UNCHANGED <<conv, running, page, ctl, script, stream, server, cache, moves, loose, stopped>>

\* What the page has read of a run.
Read(r) == SubSeq(script[r], 1, seen[r])

\* The page says of a message that something went wrong with it.
WentWrong(view, status, error) == [view EXCEPT !.status = status, !.error = error]

\* A message that still streams when its request is over.
Ended(view, r) ==
    IF view.status # "streaming" THEN view
    ELSE IF HasKind(Read(r), "finished") THEN [view EXCEPT !.status = "done"]
    ELSE WentWrong(view, "interrupted", "cut")

\* The finally of send.
Unwind(r, list) ==
    /\ LET flushed == Flushed(list, r)
       IN  turns' = PatchLast(flushed, {r}, Ended(LastView(flushed), r))
    /\ buffer' = [buffer EXCEPT ![r] = <<>>]
    /\ stream' = [stream EXCEPT ![r] = "over"]
    /\ running' = FALSE
    /\ ctl' = IF ctl = r THEN Nowhere ELSE ctl
    /\ loose' = loose \cup {q \in Runs \ {r} : stream[q] = "open"}
    /\ UNCHANGED <<conv, page, script, seen, server, cache, moves>>

\* The response ends.
StreamFinishes(r) ==
    /\ stream[r] = "open" /\ seen[r] = Len(script[r])
    /\ Unwind(r, turns)
    /\ UNCHANGED stopped

\* The connection fails, or is silent for so long that the watchdog aborts it.  Either
\* may be after the run has said that it ended; a failure replaces what it said.
ConnectionLost(r) ==
    /\ stream[r] = "open"
    /\ \/ Unwind(r, turns)
       \/ Unwind(r, PatchLast(turns, {r}, WentWrong(LastView(turns), "error", "failed")))
    /\ UNCHANGED stopped

\* The stop button: it aborts the request, if this workspace made it.
Stop ==
    /\ running
    /\ LET of == {r \in Runs : stream[r] = "open"} \ loose
           list == PatchLast(turns, {}, [LastView(turns) EXCEPT !.status = "cancelled"])
       IN  /\ stopped' = stopped \cup of
           /\ IF ctl # Nowhere THEN Unwind(ctl, list)
              ELSE /\ turns' = list /\ running' = FALSE
                   /\ loose' = loose \cup of
                   /\ UNCHANGED <<conv, page, ctl, streams, server, cache, moves>>

-----------------------------------------------------------------------------
\* The server closes the run: all of it, or what it had sent when it was cut.
SaveRun(r) ==
    /\ stream[r] = "over" /\ saved[r] = NotSaved
    /\ \E n \in seen[r]..Len(script[r]) : n <= seen[r] + MaxAhead /\
         saved' = [saved EXCEPT ![r] = [events |-> n, status |->
            IF n < Len(script[r]) THEN "cancelled"
            ELSE IF HasKind(script[r], "broken") THEN "failed" ELSE Last(script[r]).what]]
    /\ UNCHANGED <<screen, streams, asked, later, archived, cache, moves, loose, stopped>>

\* A deferred document of a run that has ended is approved.
ApprovedLater(r) ==
    /\ saved[r] # NotSaved /\ HasKind(Sent(r), "approval") /\ r \notin later
    /\ later' = later \cup {r}
    /\ UNCHANGED <<screen, streams, asked, saved, archived, cache, moves, loose, stopped>>

Moves == moves < MaxMoves /\ moves' = moves + 1

\* A link to a saved conversation.
Visit(c) ==
    /\ Moves
    /\ page # c /\ c \notin archived
    /\ \E i \in 1..Len(asked) : asked[i].conv = c
    /\ page' = c
    /\ ctl' = Nowhere
    /\ UNCHANGED <<turns, conv, running, streams, server, cache, loose, stopped>>

\* A fault: the page loads whatever is running.
LoadWhileRunning ==
    /\ page # Nowhere /\ conv # page /\ page \notin archived
    /\ turns' = SavedTurns(page)
    /\ conv' = page
    /\ UNCHANGED <<running, page, ctl, streams, server, cache, moves, loose, stopped>>

\* The page loads what its address names, from the query cache if it can: nothing
\* that happens to a conversation takes it out of there.
Load ==
    /\ page # Nowhere /\ conv # page /\ ~running /\ page \notin archived
    /\ LET found == IF cache[page] # <<>> THEN cache[page] ELSE SavedTurns(page)
       IN  turns' = found /\ cache' = [cache EXCEPT ![page] = found]
    /\ conv' = page
    /\ UNCHANGED <<running, page, ctl, streams, server, moves, loose, stopped>>

\* The cache drops what no page has used for a while.
Forget(c) ==
    /\ cache[c] # <<>> /\ page # c
    /\ cache' = [cache EXCEPT ![c] = <<>>]
    /\ UNCHANGED <<screen, streams, server, moves, loose, stopped>>

Reset == turns' = <<>> /\ conv' = Nowhere /\ running' = FALSE

\* New: refused while a run streams.
NewChat ==
    /\ Moves
    /\ ~running /\ page # Nowhere
    /\ Reset /\ page' = Nowhere /\ ctl' = Nowhere
    /\ UNCHANGED <<streams, server, cache, loose, stopped>>

\* Archiving the conversation on screen: not refused.
Archive ==
    /\ Moves
    /\ page # Nowhere /\ page \notin archived
    /\ archived' = archived \cup {page}
    /\ Reset /\ page' = Nowhere /\ ctl' = Nowhere
    /\ loose' = loose \cup {r \in Runs : stream[r] = "open"}
    /\ UNCHANGED <<streams, asked, saved, later, cache, stopped>>

ViewNext ==
    \/ \E r \in Runs : \/ Send(r) \/ ReceiveToken(r) \/ Flush(r) \/ ReceiveStarted(r)
                       \/ Receive(r) \/ StreamFinishes(r) \/ ConnectionLost(r)
                       \/ SaveRun(r) \/ ApprovedLater(r) \/ Visit(r) \/ Forget(r)
    \/ Stop \/ Load \/ NewChat \/ Archive

ViewSpec == ViewInit /\ [][ViewNext]_viewVars

-----------------------------------------------------------------------------
(***************************************************************************)
(* Properties.                                                             *)
(***************************************************************************)

ViewTypeOK ==
    /\ stream \in [Runs -> {"none", "open", "over"}]
    /\ \A r \in Runs : seen[r] \in 0..Len(script[r])
    /\ conv \in Runs \cup {Nowhere} /\ page \in Runs \cup {Nowhere}
    /\ ctl \in Runs \cup {Nowhere} /\ running \in BOOLEAN

\* The page believes a run streams exactly while one does, and a message shows
\* nothing of a run but its own.  Exception: a run the page gave up without ending
\* its request, by archiving its conversation or by a stop button that had no hold
\* of it (send, patchLastMessage, SavedChatPage).
OnlyItsOwnRun ==
    /\ running => \E r \in Runs : stream[r] = "open" /\ r \notin loose
    /\ \A r \in Runs : stream[r] = "open" /\ r \notin loose => running
    /\ \A i \in DOMAIN turns : turns[i].heard \subseteq {turns[i].run} \cup loose

\* Up to where it was read, and with the text it then had.
Undisturbed(m) ==
    /\ stream[m.run] = "over" /\ m.heard = {m.run} /\ m.run \notin loose \cup stopped \cup later
    /\ HasTurn(m.run) /\ saved[m.run].events = seen[m.run]

\* A message without its text, citations, status and error.
Shape(v) == [v EXCEPT !.text = <<>>, !.citations = {}, !.status = "any", !.error = "any"]

\* A message that was streamed, and the same one reopened from what was saved, are
\* the same message (applyEvent, hydrateConversation), but for what is not stored of
\* its citations.  Exceptions: a run that was cut off, whose fragments are saved
\* nowhere and which may have got further than was seen; one whose stream broke on the
\* server, which is "interrupted" and lists the error as long as it is on screen, and
\* is an error from then on, which is not listed; and one that ended and whose
\* connection failed after that, which is an error on screen and has the run's own
\* outcome when it is reopened.
ReopenedLooksTheSame ==
    \A i \in DOMAIN turns :
        LET m == turns[i]
            reopened == Hydrated(m.run)
        IN  Undisturbed(m) =>
              IF HasKind(Sent(m.run), "finished")
              THEN LET kept == [m.view EXCEPT !.citations = AsStored(@)]
                   IN  \/ kept = reopened
                       \/ kept = WentWrong(reopened, "error", "failed")
              ELSE IF HasKind(Sent(m.run), "broken")
              THEN Shape(m.view) =
                     [Shape(reopened) EXCEPT !.trace = Append(@, <<"broken", Last(Sent(m.run)).what>>)]
              ELSE Shape(m.view) = Shape(reopened)

\* What is on screen is the run's own, live and reopened.
ViewInv == ViewTypeOK /\ OnlyItsOwnRun /\ ReopenedLooksTheSame

\* The stop button ends the run.
StopEndsTheRun == \A r \in stopped : stream[r] = "over"
=============================================================================
