--------------------------- MODULE LinktapRuntime ---------------------------
(***************************************************************************)
(* One valve's track in daemon/src/linktap_runtime.rs and what each call   *)
(* on the runtime does to it, as operators: ValveRuntime drives one track  *)
(* through any sequence of calls, ValveHub through the hub's own tasks.    *)
(***************************************************************************)
EXTENDS Cycle

CONSTANT NoOpen     \* no reopen is owed

Pending == [duration: Nat, cap: Nat,
            why: {"washdown handover", "washdown resume", "auto-restart"}]

Track == [state: Run \union {Idle}, ledger: Ledger, pending: Pending \union {NoOpen}]

ASSUME RuntimeAssumption == NoOpen \notin Pending

NewTrack == [state |-> Idle, ledger |-> [day |-> 0, volume |-> 0], pending |-> NoOpen]

\* Both reopens and the handover return the valve to its own profile.
NormalRun(profile, why) == [duration |-> profile.duration, cap |-> profile.cap, why |-> why]

\* The reopen owed after a run that a reading has just closed; the explicit
\* instruction on the run is asked before the standing switch of the profile.
OwedAfter(run, reason, profile, pending) ==
    IF ShouldResumeNormal(run, reason) THEN NormalRun(profile, "washdown resume")
    ELSE IF ShouldAutoRestart(run, reason, profile) THEN NormalRun(profile, "auto-restart")
    ELSE pending

Observe(track, at, day, profile, seen) ==
    LET next   == NextState(track.state, at, profile, seen)
        closed == Metered(track.state, seen)
        handOver == next # Idle /\ ShouldHandOver(next, at, seen)
    IN  IF Closes(track.state, seen)
        THEN [state   |-> Idle,
              ledger  |-> ApplyToLedger(track.ledger, day, closed),
              pending |-> OwedAfter(closed, EndReason(closed, at), profile, track.pending)]
        ELSE [track EXCEPT
                !.state   = IF handOver THEN [next EXCEPT !.handover = TRUE] ELSE next,
                !.pending = IF handOver THEN NormalRun(profile, "washdown handover") ELSE @]

\* note_hub_open: the two outlawed shapes leave the track alone.
NoteHubOpen(track, at, mode, duration, cap, resume) ==
    IF MayStart(mode, cap)
    THEN [track EXCEPT !.state = StartHubCycle(at, mode, duration, cap, resume)]
    ELSE track

NoteStop(track, reason) ==
    IF track.state = Idle THEN track ELSE [track EXCEPT !.state.stop = reason]

\* Whether giving a close up releases its mark: only on a run that has a cap.
Releases(track) ==
    /\ track.state # Idle
    /\ track.state.mode # "washdown"
    /\ track.state.cap > 0
    /\ track.state.stop # NoStop

NoteStopAbandoned(track) ==
    IF Releases(track) THEN [track EXCEPT !.state.stop = NoStop] ELSE track

\* Mutant: a reopen taken stays owed.
TakeKeepingOpen(track) == track

TakePendingOpen(track) == [track EXCEPT !.pending = NoOpen]
=============================================================================
