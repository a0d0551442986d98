------------------------------- MODULE MCChat -------------------------------
(* A run on the server's side, up to the frames its client is sent, and on the
   page's side, from there to the screen.  They share no state: the initial state
   chooses which of them acts (side), and the other stays as it starts. *)
EXTENDS RunStream, MCRunView

VARIABLE side

OnServer(Step) == side = "server" /\ Step /\ UNCHANGED <<side, viewVars>>
OnPage(Step) == side = "page" /\ Step /\ UNCHANGED <<side, vars>>

ServerSteps ==
    \/ OnServer(Open)
    \/ OnServer(Event)
    \/ OnServer(Unanswered)
    \/ OnServer(Synthesise)
    \/ OnServer(AgentFails)
    \/ OnServer(RunFinished)
    \/ OnServer(StreamFails)
    \/ OnServer(PutResumes)
    \/ OnServer(PutsEnd)
    \/ OnServer(Collect)
    \/ OnServer(Deliver)
    \/ OnServer(Disconnect)
    \/ OnServer(CloseRun)
    \/ OnServer(SaveTurn)
    \/ OnServer(RecordFinish)
    \/ OnServer(Refusing)
    \/ OnServer(RefusedTurn)
    \/ OnServer(RefusedClose)
    \/ OnServer(TimePasses)
    \/ OnServer(Crash)
    \/ OnServer(Restart)
    \/ OnServer(OtherBoots)
    \/ OnServer(ReapWrite)

PageSteps ==
    \/ \E r \in Runs :
         \/ OnPage(Send(r))
         \/ OnPage(ReceiveToken(r))
         \/ OnPage(Flush(r))
         \/ OnPage(ReceiveStarted(r))
         \/ OnPage(Receive(r))
         \/ OnPage(StreamFinishes(r))
         \/ OnPage(ConnectionLost(r))
         \/ OnPage(SaveRun(r))
         \/ OnPage(ApprovedLater(r))
         \/ OnPage(Visit(r))
         \/ OnPage(Forget(r))
    \/ OnPage(Stop)
    \/ OnPage(Load)
    \/ OnPage(NewChat)
    \/ OnPage(Archive)

ChatInit == side \in {"server", "page"} /\ Init /\ ViewInit

ChatNext == ServerSteps \/ PageSteps

chat == <<side, vars, viewVars>>

ChatSpec == ChatInit /\ [][ChatNext]_chat /\ Fairness
=============================================================================
