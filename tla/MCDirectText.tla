---------------------------- MODULE MCDirectText ----------------------------
EXTENDS DirectText

\* One reading for each reason that Judge tells apart.
MCReadings ==
    {[plain |-> p, script |-> s, exact |-> e] :
        p, e \in BOOLEAN, s \in {"korean", "other", "placeholder"}}
=============================================================================
