--------------------------- MODULE MCValveRuntime ---------------------------
EXTENDS ValveRuntime

\* A closed valve still meters what its cycle delivered; an open one may be read
\* before it has metered anything, with or without a remaining time or a flow.
MCReadings ==
    [watering: {TRUE}, volume: 0..2, remain: {0, 1}, lead: {0, 1}]
    \union [watering: {FALSE}, volume: 0..2, remain: {0}, lead: {0}]

MCOpens ==
    [mode: {"normal"}, duration: {2}, cap: {0, 2}, resume: {FALSE, TRUE}]
    \union [mode: {"washdown"}, duration: {0, 3}, cap: {0, 2}, resume: {FALSE, TRUE}]
    \union [mode: {"tankfill"}, duration: {3}, cap: {2}, resume: {FALSE}]

MCProfiles == {[duration |-> 3, cap |-> 2, autoRestart |-> TRUE],
               [duration |-> 2, cap |-> 0, autoRestart |-> FALSE]}
=============================================================================
