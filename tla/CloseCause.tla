----------------------------- MODULE CloseCause -----------------------------
(***************************************************************************)
(* Why the hub closes a valve: CloseCause of daemon/src/close_watch.rs.    *)
(***************************************************************************)

Causes == {"flood", "volume_cap", "manual"}

\* Mutants: an alarm takes over anything, or nothing.
OverridesAll(cause, other) == cause = "flood"
OverridesNone(cause, other) == FALSE

\* Only an alarm takes a close over, and never another alarm's.
Overrides(cause, other) == cause = "flood" /\ other # "flood"

\* The end reason a close marks on the run it shuts.
EndReasonOf(cause) == IF cause = "flood" THEN "flood_shutoff" ELSE cause
=============================================================================
