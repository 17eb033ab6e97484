----------------------------- MODULE MCRunLoop -----------------------------
\* The run loop on small instances.
EXTENDS RunLoop

Full(chain) == [chain |-> chain, diagnosing |-> TRUE, filing |-> TRUE, working |-> TRUE]
Bare(chain) == [chain |-> chain, diagnosing |-> FALSE, filing |-> FALSE, working |-> FALSE]

SomeConfigs ==
  {Full(<<"ok">>), Bare(<<"away", "ok">>), Full(<<"away">>),
   Full(<<"ok", "invalid">>), Full(<<"mismatch">>)}
=============================================================================
