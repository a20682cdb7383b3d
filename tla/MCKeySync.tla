------------------------------ MODULE MCKeySync ------------------------------
EXTENDS KeySync

\* The worker of today, one between the releases that signs its replies but not its key
\* sets, and not as the hub does, and the oldest one.
MCWorkers ==
    {[signs |-> TRUE, etags |-> TRUE, twin |-> TRUE],
     [signs |-> TRUE, etags |-> FALSE, twin |-> FALSE],
     [signs |-> FALSE, etags |-> FALSE, twin |-> TRUE]}
=============================================================================
