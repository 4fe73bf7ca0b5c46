----------------------------- MODULE MCTextPath -----------------------------
\* An instance of TextPath for TLC.
EXTENDS TextPath

CONSTANTS m1, m2, f1

\* Both messages are of one fan.  What m1 is taken for may change from POST to
\* POST; m2 is always a question to the LLM.
MCFanOf == [m \in Msgs |-> f1]
MCKinds == [m \in Msgs |-> IF m = m1 THEN {"llm", "text", "news"} ELSE {"llm"}]

\* m1 may be sent twice, m2 once.
RetryFirst == {<<m1, 1>>, <<m1, 2>>, <<m2, 1>>}
=============================================================================
