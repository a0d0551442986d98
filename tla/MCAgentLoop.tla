---------------------------- MODULE MCAgentLoop ----------------------------
EXTENDS AgentLoop

CONSTANTS docx, xlsx, calc, none, MaxReply

MCTools == {docx, xlsx, calc}
MCFormats == {docx, xlsx}

MCPreference == <<xlsx, docx>>

\* No document; the verb after its object or too far from it; "produce a report
\* and a workbook"; "write a summary".
MCRequests ==
  {<<"other">>, <<docx, "produce">>, <<"produce", "other", "other", docx>>,
   <<"produce", docx, xlsx>>, <<"produce", "other", "summary">>}

Raw(intent, tool) == [intent |-> intent, tool |-> tool]

MCRawSteps ==
  {Raw("retrieve", none), Raw("retrieve", docx), Raw("tool", calc),
   Raw("synthesize", docx), Raw("tool", none), Raw("synthesize", none),
   Raw("unknown", calc)}

MCReplies ==
  {[form |-> "json", steps |-> s] : s \in BoundedSeq(MCRawSteps, MaxReply)}
    \cup {[form |-> f, steps |-> <<>>] : f \in {"garbled", "odd"}}
=============================================================================
