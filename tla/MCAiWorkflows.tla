--------------------------- MODULE MCAiWorkflows ---------------------------
EXTENDS AiWorkflows

CONSTANTS c1, c2, m1

MCMails == {m1}

MCCalls == {c1, c2} \cup (MCMails \X (1..StepTries))

MCLimit == [w \in Windows |-> IF w = "five_hour" THEN 2 ELSE 3]

\* c1 and c2 are made in these ways, and nobody else calls.
Direct(a, b) ==
    [c \in MCCalls |-> IF c = c1 THEN a ELSE IF c = c2 THEN b ELSE "none"]

\* A message arrives, and its workflow calls.
Email == [c \in MCCalls |-> IF c \in {c1, c2} THEN "none" ELSE "text"]

With(kind, modes, faults) == [kind |-> kind, modes |-> modes, faults |-> faults]

MCCircumstances ==
    { With(Direct("text", "stream"), {"enforce"}, {}),
      With(Direct("stream", "media"), Modes, {}),
      With(Direct("text", "text"), {"enforce"}, {"store", "death"}),
      With(Direct("text", "media"), {"enforce", "log-only"}, {"store", "death"}),
      With(Direct("image", "image"), {"enforce"}, {}),
      With(Direct("image", "none"), Modes, {"store", "death"}),
      With(Email, {"enforce"}, {"send"}),
      With(Email, {"disabled"}, {"death"}),
      With(Email, {"disabled"}, {"store"}) }

SendFails == { With(Email, {"enforce"}, {"send"}) }
=============================================================================
