----------------------------- MODULE MCValveHub -----------------------------
EXTENDS ValveHub

\* A washdown that returns to the normal run, and a normal run with a cap.
MCWashdown == [mode |-> "washdown", duration |-> 2, cap |-> 0, resume |-> TRUE]
MCNormal == [mode |-> "normal", duration |-> 2, cap |-> 1, resume |-> FALSE]
MCOpens == {MCWashdown, MCNormal}
MCProfile == [duration |-> 2, cap |-> 1, autoRestart |-> TRUE]

\* The same, short enough to end by the valve's own timer within a second.
MCBriefOpens == {[MCWashdown EXCEPT !.duration = 1]}
MCBriefProfile == [duration |-> 1, cap |-> 1, autoRestart |-> FALSE]
=============================================================================
