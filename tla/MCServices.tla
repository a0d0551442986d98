----------------------------- MODULE MCServices -----------------------------
(* Bounds for the components that share no state: each is checked on its own. The
   initial state chooses which one acts (part); the others stay as they start. *)
EXTENDS MCPageReading, Routing, ToolCalls, EventBus, AuditChain, Answers,
        Calculation, Chunking, ProviderStream, Artifacts

VARIABLE part

Parts == {"routing", "tools", "bus", "audit", "answers", "calculator",
          "chunker", "provider", "reading", "documents"}

-----------------------------------------------------------------------------
(* Routing: five models of two backends, two runs. *)

CONSTANTS primary, fast, alt, eye, lens, lmstudio, ollama, t1, t2

TheModels == {primary, fast, alt, eye, lens}
TheBackend == [m \in Models |-> IF m \in {alt, eye} THEN ollama ELSE lmstudio]
TheSees == {eye, lens}
TheWindows == [m \in Models |-> IF m \in {alt, eye} THEN 26 ELSE 4]
TheLanes == [reasoning |-> <<primary, fast, alt>>, coding |-> <<primary, fast>>,
             long_ctx |-> <<primary>>, vision |-> <<eye, lens>>, embedding |-> <<>>,
             utility |-> <<fast>>]
TheLaneOrder == <<"reasoning", "coding", "long_ctx", "vision", "embedding", "utility">>
TheBackendOrder == <<lmstudio, ollama>>
TheIntentLane == [plan |-> "reasoning", sufficiency |-> "utility", synthesize |-> "reasoning"]
TheCallers == {t1, t2}

Silent == [l \in DOMAIN Lanes |-> 0]
\* Words about drawings, and without them as much of a question as of a script.
AboutDrawings == [Silent EXCEPT !["vision"] = 50, !["coding"] = 20, !["reasoning"] = 20]

Ask(intent, images, tokens, scores) ==
    [hint |-> "none", images |-> images, intent |-> intent, tokens |-> tokens,
     scores |-> scores, streams |-> intent = "synthesize", insists |-> intent = "plan"]

TheAsks == [t \in Callers |->
    IF t = t1 THEN <<Ask("chat", FALSE, 0, AboutDrawings), Ask("synthesize", FALSE, 8, Silent)>>
    ELSE <<Ask("plan", TRUE, 0, Silent)>>]

\* What the theorems about routing assume of the manifest and of the calls.
ASSUME TheseServe == ManifestServes /\ AsksServe

-----------------------------------------------------------------------------
(* Tool calls, the bus and the audit log. *)

CONSTANTS c1, c2, r1, w1, w2, w3

TheCalls == {c1, c2}
TheReaders == {r1}
TheWriters == {w1, w2, w3}

-----------------------------------------------------------------------------
(* Answers: three passages, one of them not for this person. *)

CONSTANTS k1, k2, k3, ghost

TheChunks == {k1, k2, k3}
TheAllowed == {k1, k2}
ThePassages == [c \in Chunks |-> IF c = k1 THEN {125, 92} ELSE IF c = k2 THEN {92} ELSE {55}]
TheConfidence == [c \in Chunks |-> IF c = k1 THEN 5 ELSE 10]
TheRankings == {<<k1, k2>>, <<k2, k1>>, <<k3, k2>>}
TheResults == {[ok |-> ok, value |-> 55, working |-> {33}, given |-> {125, 77}] : ok \in BOOLEAN}
Para(kind, marks, figures) == [kind |-> kind, marks |-> marks, figures |-> figures]
MarkLists == {<<>>, <<<<"id", k2>>>>, <<<<"at", 1>>>>, <<<<"id", k1>>, <<"at", 2>>>>,
              <<<<"id", ghost>>, <<"at", 3>>>>}
Paras == {Para("claim", m, {125}) : m \in MarkLists}
         \cup {Para("marks", m, {}) : m \in MarkLists \ {<<>>}}
         \cup {Para("declines", <<>>, {77}), Para("turns", <<<<"id", k2>>>>, {92, 33}),
               Para("rule", <<>>, {55})}
Closing == {Para("claim", <<<<"id", k1>>, <<"at", 2>>>>, {92}), Para("claim", <<>>, {55}),
            Para("marks", <<<<"at", 1>>>>, {}), Para("declines", <<>>, {})}
TheDrafts == {<<p>> : p \in Paras} \cup {<<p, q>> : p \in Paras, q \in Closing}

-----------------------------------------------------------------------------
(* The calculator: inspection records of three places, and the calls of a model. *)

Record(place, names, years, numbers) ==
    [place |-> place, names |-> names, years |-> years, numbers |-> numbers]
R1 == Record("CML-4", {"CML-4"}, {2019}, {139})
R2 == Record("CML-4", {"CML-4"}, {2023}, {125})
R3 == Record("CML-40", {"CML-4", "CML-40"}, {2023}, {92})
R4 == Record("CML-7", {"CML-7"}, {2023}, {92})
R5 == Record("CML-4", {"CML-4"}, {2019, 2023}, {139, 125})
TheDocuments == {{R1, R2, R4}, {R1, R3}, {R5}, {R4}, {R2, R4, R5}}

Names(required, optional, aliases) ==
    [required |-> required, known |-> required \cup optional, aliases |-> aliases]
TheParameters == [
    corrosion_rate |-> Names({"initial_thickness", "current_thickness", "interval", "location"},
        {"initial_year", "current_year"},
        [previous_thickness |-> "initial_thickness", years |-> "interval"]),
    remaining_life |-> Names({"current_thickness", "minimum_thickness", "corrosion_rate"}, {},
        [rate |-> "corrosion_rate"]),
    minimum_thickness_shell |-> Names({"design_pressure", "inside_radius", "allowable_stress"},
        {"joint_efficiency"}, [pressure |-> "design_pressure"]),
    mawp_shell |-> Names({"thickness", "inside_radius", "allowable_stress"},
        {"joint_efficiency"}, [radius |-> "inside_radius"]),
    lmtd |-> Names({"delta_t1", "delta_t2"}, {}, [dt1 |-> "delta_t1"]),
    heat_duty |-> Names({"mass_flow", "specific_heat", "delta_t"}, {}, [cp |-> "specific_heat"]),
    orifice_flow |-> Names({"beta", "orifice_diameter", "differential_pressure", "density"},
        {"discharge_coefficient"}, [dp |-> "differential_pressure"])]

Input(name, values) == {<< <<name, v, "fits">> >> : v \in values}
Odd(name, values, form) == {<< <<name, v, form>> >> : v \in values}
Perhaps(name, values) == {<<>>} \cup Input(name, values)
Call(calculation, inputs) == [calculation |-> calculation, inputs |-> inputs]
Corrosions == {Call("corrosion_rate", a \o b \o c \o d \o e \o f \o g) :
    a \in Perhaps("previous_thickness", {139}),
    b \in Input("initial_thickness", {140, 125}) \cup Odd("initial_thickness", {139}, "other"),
    c \in Input("current_thickness", {125, 92}),
    d \in Perhaps("interval", {40, 44, 0}) \cup Odd("interval", {40}, "none"),
    e \in Input("location", {"CML-4", "CML-7"}),
    f \in Perhaps("initial_year", {2019}) \cup Odd("initial_year", {2019}, "other"),
    g \in Perhaps("current_year", {2023, 2019}) \cup Odd("current_year", {2023}, "other")}
Shells(efficiency) == {Call("minimum_thickness_shell", a \o b \o c \o efficiency) :
    a \in Input("pressure", {1, 2, 18}), b \in Input("inside_radius", {50, 75}),
    c \in Input("allowable_stress", {9, 13})}
Others ==
    {Call("remaining_life", a \o b \o r) : r \in Input("rate", {5, 0}),
        a \in Input("current_thickness", {92}), b \in Input("minimum_thickness", {80, 100})}
    \cup {Call("mawp_shell", a \o b \o s) : a \in Input("thickness", {3}), b \in Input("radius", {50}),
        s \in Input("allowable_stress", {9}) \cup Odd("allowable_stress", {9}, "other")}
    \cup {Call("lmtd", a \o b) : a \in Input("dt1", {0, 30}), b \in Input("delta_t2", {30, 60})}
    \cup {Call("heat_duty", a \o b \o c) : a \in Input("mass_flow", {2}), b \in Input("cp", {3}),
        c \in Input("delta_t", {4})}
    \cup {Call("orifice_flow", a \o b \o c \o d) : a \in Input("beta", {5, 10}),
        b \in Input("orifice_diameter", {1}), c \in Input("dp", {2}), d \in Input("density", {3, 0, -3})}
TheGiven == Corrosions \cup Shells(<<>>) \cup Shells(<<<<"joint_efficiency", 7, "fits">>>>)
    \cup Shells(<<<<"joint_efficiency", 7, "other">>>>) \cup Others

-----------------------------------------------------------------------------
(* The chunker: blocks by kind, level of a heading, and words of each part. *)

Block(kind, level, parts) == [kind |-> kind, level |-> level, parts |-> parts]
TheKinds == {Block("heading", 1, <<1>>), Block("heading", 2, <<1>>), Block("footer", 0, <<1>>),
             Block("text", 0, <<1>>), Block("text", 0, <<3>>), Block("text", 0, <<2, 1, 6, 1>>),
             Block("text", 0, <<1, 2, 2, 1>>), Block("table", 0, <<1, 2, 1, 3>>),
             Block("table", 0, <<7>>), Block("table", 0, <<1, 2, 2, 2, 2>>)}

-----------------------------------------------------------------------------
(* The adapters: the lines of two mixed tool calls, text, reasoning and noise. *)

Line(kind, text, thought, reason, fragments, wholes) ==
    [kind |-> kind, text |-> text, reasoning |-> thought, finish |-> reason,
     fragments |-> fragments, calls |-> wholes]
Frag(index, name, arguments) == [index |-> index, name |-> name, arguments |-> arguments]
Noise == {Line(kind, "", "", "", <<>>, <<>>) : kind \in {"noise", "no_choices", "end"}}
Written(reason) == {Line("delta", "t", "r", "", <<>>, <<>>), Line("delta", "u", "", reason, <<>>, <<>>)}
TheLines == [
    openai |-> Noise \cup Written("length") \cup {
        Line("delta", "", "", "", <<Frag(1, "calc", ""), Frag(0, "", "a")>>, <<>>),
        Line("delta", "", "", "tool_calls", <<Frag(1, "", "b"), Frag(0, "", "c")>>, <<>>),
        Line("delta", "", "", "", <<Frag(0, "search", "")>>, <<>>)},
    ollama |-> {l \in Noise : l.kind = "noise"} \cup Written("") \cup {
        Line("delta", "", "", "", <<>>, <<[name |-> "search", arguments |-> <<"q">>]>>),
        Line("end", "u", "", "length", <<>>, <<>>)}]
TheReplies == [d \in Dialects |-> {l \in TheLines[d] : l.kind # "end"}]

-----------------------------------------------------------------------------
(* Generated documents: three passages of two documents, the second within a rounding
   of the threshold. *)

CONSTANTS manual, survey

ThePassagesRead == <<[doc |-> manual, confidence |-> 8000], [doc |-> survey, confidence |-> 8497],
                     [doc |-> manual, confidence |-> 9900]>>

Text(says, marks) == [says |-> says, marks |-> marks]
Worded(line, item) == [item |-> item, text |-> line]
Section(heading, sources, body, bullets, header, rows, leak) ==
    [heading |-> heading, sources |-> sources, body |-> body, bullets |-> bullets,
     header |-> header, rows |-> rows, leak |-> leak]

SectionBodies == {<<>>, <<Worded(Text("a", <<>>), FALSE), Worded(Text("b", <<>>), TRUE),
                         Worded(Text("c", <<>>), TRUE)>>,
                  <<Worded(Text("a", <<2, 4>>), FALSE)>>}
SectionLists == {<<>>, <<Text("d", <<>>), Text("e", <<>>)>>, <<Text("d", <<1>>)>>}
Heads == <<Text("year", <<>>), Text("reading", <<3>>)>>
SectionTables == {<<<<>>, <<>>>>, <<Heads, <<<<Text("f", <<>>), Text("g", <<>>)>>>>>>,
                  <<<<>>, <<<<Text("f", <<>>)>>>>>>, <<<<>>, <<<<Text("f", <<2>>)>>>>>>}
Leaks == {NoLeak, [header |-> Heads, rows |-> <<<<Text("h", <<3>>), Text("i", <<>>)>>>>]}
TheSections == {Section(heading, sources, body, bullets, table[1], table[2], leak) :
    heading \in {Text("findings", <<>>), Text("sources", <<>>), Text("sources", <<9>>)},
    sources \in {{}, {-1, 1, 3}, {7, 120}}, body \in SectionBodies,
    bullets \in SectionLists, table \in SectionTables, leak \in Leaks}
PlainSections == {s \in TheSections : s.heading = Text("findings", <<>>) /\ s.leak = NoLeak /\ s.body # <<>>
                                          /\ s.bullets = <<>> /\ s.sources # {7, 120}}
TheReports == {<<s>> : s \in TheSections} \cup {<<s, t>> : s, t \in PlainSections}

SlideEntry(bullets, rows) == [heading |-> "findings", bullets |-> bullets, rows |-> rows, footnote |-> "from"]
TheDecks == {<<SlideEntry([k \in 1..n |-> k], [k \in 1..m |-> <<k>>]), SlideEntry(<<1>>, <<>>)>> :
                n \in 0..5, m \in 0..4}

TheBooks == {[headers |-> <<"year", "reading">>, rows |-> rows, formulas |-> formulas,
              chart |-> chart, notes |-> notes] :
    rows \in {<<>>, <<<<2019, 139>>, <<2023, 125>>>>, <<<<2019, 139>>, <<2023>>, <<2024, 92, 1>>>>},
    formulas \in {<<>>, <<<<"loss", {2}>>, <<"rate", {1, 2}>>>>}, chart \in {<<>>, <<"rate", "reading">>},
    notes \in {<<>>, <<"n1", "n2">>}}

-----------------------------------------------------------------------------
InRouting(Step) ==
    /\ part = "routing" /\ Step
    /\ UNCHANGED <<part, toolVars, busVars, vars, answerVars, calcVars, chunkVars, providerVars, readVars, artifactVars>>

InTools(Step) ==
    /\ part = "tools" /\ Step
    /\ UNCHANGED <<part, routingVars, busVars, vars, answerVars, calcVars, chunkVars, providerVars, readVars, artifactVars>>

InBus(Step) ==
    /\ part = "bus" /\ Step
    /\ UNCHANGED <<part, routingVars, toolVars, vars, answerVars, calcVars, chunkVars, providerVars, readVars, artifactVars>>

InAudit(Step) ==
    /\ part = "audit" /\ Step
    /\ UNCHANGED <<part, routingVars, toolVars, busVars, answerVars, calcVars, chunkVars, providerVars, readVars, artifactVars>>

InAnswers(Step) ==
    /\ part = "answers" /\ Step
    /\ UNCHANGED <<part, routingVars, toolVars, busVars, vars, calcVars, chunkVars, providerVars, readVars, artifactVars>>

InCalculator(Step) ==
    /\ part = "calculator" /\ Step
    /\ UNCHANGED <<part, routingVars, toolVars, busVars, vars, answerVars, chunkVars, providerVars, readVars, artifactVars>>

InChunker(Step) ==
    /\ part = "chunker" /\ Step
    /\ UNCHANGED <<part, routingVars, toolVars, busVars, vars, answerVars, calcVars, providerVars, readVars, artifactVars>>

InProvider(Step) ==
    /\ part = "provider" /\ Step
    /\ UNCHANGED <<part, routingVars, toolVars, busVars, vars, answerVars, calcVars, chunkVars, readVars, artifactVars>>

InReading(Step) ==
    /\ part = "reading" /\ Step
    /\ UNCHANGED <<part, routingVars, toolVars, busVars, vars, answerVars, calcVars, chunkVars, providerVars, artifactVars>>

InDocuments(Step) ==
    /\ part = "documents" /\ Step
    /\ UNCHANGED <<part, routingVars, toolVars, busVars, vars, answerVars, calcVars, chunkVars, providerVars, readVars>>

RoutingSteps ==
    \/ \E t \in Callers :
         \/ InRouting(Route(t))
         \/ InRouting(Poll(t))
         \/ InRouting(EndProbe(t))
         \/ InRouting(Select(t))
         \/ InRouting(Answered(t))
         \/ InRouting(AskAgain(t))
         \/ InRouting(Unreachable(t))
         \/ InRouting(StreamBreaks(t))
    \/ \E b \in Backends :
         \/ InRouting(Stops(b))
         \/ InRouting(Starts(b))
    \/ InRouting(Tick)

ToolsSteps ==
    \/ \E c \in Calls :
         \/ InTools(Refused(c))
         \/ InTools(Skipped(c))
         \/ InTools(Begin(c))
         \/ InTools(TakeSlot(c))
         \/ InTools(Policy(c))
         \/ InTools(TakeBox(c))
         \/ InTools(TimesOut(c))
         \/ InTools(ToolRaises(c))
         \/ InTools(Leave(c))
         \/ InTools(StartBox(c))
         \/ InTools(StartFails(c))
         \/ InTools(Exits(c))
         \/ InTools(Cleanup(c))
    \/ InTools(Die)
    \/ InTools(Reap)

BusSteps ==
    \/ InBus(Publish)
    \/ InBus(CloseRun)
    \/ InBus(DiscardRun)
    \/ \E r \in Readers :
         \/ InBus(Connect(r))
         \/ InBus(ConnectLate(r))
         \/ InBus(Pump(r))
         \/ InBus(Deliver(r))
         \/ InBus(Disconnect(r))

AuditSteps ==
    \/ \E w \in Writers :
         \/ InAudit(Reserve(w))
         \/ InAudit(AppendRow(w))
         \/ InAudit(Commit(w))
         \/ InAudit(Rollback(w))

AnswersSteps ==
    \/ InAnswers(Search)
    \/ InAnswers(Calculated)
    \/ InAnswers(Synthesise)
    \/ InAnswers(Judge)

CalculatorSteps ==
    \/ InCalculator(Retrieved)
    \/ InCalculator(Called)

ChunkerSteps ==
    \/ \E kind \in Kinds :
         \/ InChunker(Yields(kind))
    \/ InChunker(ChunkDocument)

ProviderSteps ==
    \/ \E kind \in {"stream", "generate"} :
         \/ InProvider(Fails(kind))
    \/ InProvider(Opens)
    \/ InProvider(Closes)
    \/ InProvider(Breaks)
    \/ InProvider(StartEmbedding)
    \/ InProvider(BatchOpenAI)
    \/ InProvider(BatchOllama)
    \/ InProvider(BatchFails)
    \/ InProvider(Joined)
    \/ \E line \in Lines["openai"] :
         \/ InProvider(ReadOpenAI(line))
    \/ \E line \in Lines["ollama"] :
         \/ InProvider(ReadOllama(line))
    \/ \E reply \in Replies["openai"] :
         \/ InProvider(GenerateOpenAI(reply))
    \/ \E reply \in Replies["ollama"] :
         \/ InProvider(GenerateOllama(reply))

ReadingSteps ==
    \/ \E u \in UploadedFiles :
         \/ InReading(Identify(u))
    \/ InReading(Extract)
    \/ InReading(Recognise)
    \/ InReading(PassOver)
    \/ InReading(Reread)
    \/ InReading(RereadFails)
    \/ InReading(PictureFails)
    \/ InReading(Accepted)
    \/ InReading(Finish)

DocumentsSteps ==
    \/ \E input \in Reports, deferred \in BOOLEAN :
         \/ InDocuments(MakeReport(input, deferred))
    \/ \E input \in Decks, deferred \in BOOLEAN :
         \/ InDocuments(MakeDeck(input, deferred))
    \/ \E input \in Books, deferred \in BOOLEAN :
         \/ InDocuments(MakeBook(input, deferred))

Inits ==
    /\ RoutingInit /\ ToolInit /\ BusInit /\ Init
    /\ AnswerInit /\ CalcInit /\ ChunkInit /\ ProviderInit
    /\ ReadInit /\ ArtifactInit

\* One component acts.  The service may have been started without one of its backends.
ServicesInit ==
    /\ part \in Parts /\ Inits
    /\ up = Backends \/ (part = "routing" /\ up = {ollama})
    /\ part = "provider" \/ dialect = "openai"

ServicesNext ==
    \/ RoutingSteps
    \/ ToolsSteps
    \/ BusSteps
    \/ AuditSteps
    \/ AnswersSteps
    \/ CalculatorSteps
    \/ ChunkerSteps
    \/ ProviderSteps
    \/ ReadingSteps
    \/ DocumentsSteps

services == <<part, routingVars, toolVars, busVars, vars, answerVars, calcVars, chunkVars, providerVars, readVars, artifactVars>>

ServicesSpec == ServicesInit /\ [][ServicesNext]_services /\ ToolFairness /\ BusFairness
=============================================================================
