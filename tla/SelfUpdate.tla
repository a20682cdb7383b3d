------------------------------ MODULE SelfUpdate ------------------------------
(***************************************************************************)
(* The hub installs its own releases (daemon/src/self_update.rs,           *)
(* update_gate.rs and their callers in hub_server.rs): asked by the app,   *)
(* by a command of the cloud or by the weekly check, it fetches the latest *)
(* release, swaps it in, puts it on probation and restarts into it; a      *)
(* version that does not report to the cloud in time is rolled back.  The  *)
(* process may die between any two steps; what is on disk stays.           *)
(***************************************************************************)
EXTENDS Naturals

CONSTANTS
    LastVersion,    \* bound: releases
    Bad,            \* the versions that start here but never reach the cloud
    Updaters,       \* calls of perform_update that may overlap
    Commands,       \* ids of the self_update commands the cloud queues
    NoCommand,      \* an update nobody at the cloud asked for
    None,           \* no version: no file, no process, no offer
    NoTrial,        \* no probation marker
    MaxCrashes,     \* bound: times the process dies
    MaxSlow         \* bound: deadlines a good version misses

Versions == 1..LastVersion
Trial == [from: Versions, to: Versions, due: BOOLEAN]

ASSUME UpdateAssumption ==
    /\ LastVersion \in Nat \ {0}
    /\ Bad \subseteq Versions
    /\ NoCommand \notin Commands
    /\ None \notin Versions
    /\ NoTrial \notin Trial

VARIABLES
    latest,     \* the release that releases/latest names
    file,       \* on disk: the binary, and beside it .new, .prev and one moved aside
    marker,     \* on disk: update.probation
    skip,       \* on disk: update.skip
    running,    \* the version that runs
    reported,   \* it has had an answer of the cloud since it started
    offer,      \* rt.update_available
    task,       \* the updates under way
    guard,      \* where probation_loop is in a rollback
    queue,      \* the cloud's: commands not yet acknowledged
    handled,    \* handled_cmds
    owed,       \* pending_acks
    crashes, slow,
    \* history
    commanded,  \* commands the cloud has queued so far
    undone,     \* the versions rolled back
    overlapped, \* two updates, or an update and a rollback, have been under way at once
    botched     \* a rename has failed

disk == <<file, marker, skip>>
memory == <<running, reported, offer, task, guard, handled, owed>>
bounds == <<crashes, slow>>
history == <<commanded, undone, overlapped, botched>>
vars == <<latest, disk, memory, queue, bounds, history>>

Idle == [at |-> "idle", kind |-> "none", got |-> None, command |-> NoCommand]

Init ==
    /\ latest = 1
    /\ file = [bin |-> 1, new |-> None, prev |-> None, aside |-> None]
    /\ marker = NoTrial
    /\ skip = {}
    /\ running = 1
    /\ reported = FALSE
    /\ offer = None
    /\ task = [u \in Updaters |-> Idle]
    /\ guard = "look"
    /\ queue = {}
    /\ handled = {}
    /\ owed = {}
    /\ crashes = 0 /\ slow = 0
    /\ commanded = {}
    /\ undone = {}
    /\ overlapped = FALSE
    /\ botched = FALSE

Up == running # None
InService == Up /\ running \notin Bad

-----------------------------------------------------------------------------
(* The world: releases and commands *)

Release ==
    /\ latest < LastVersion
    /\ latest' = latest + 1
    /\ UNCHANGED <<disk, memory, queue, bounds, history>>

CloudCommands(c) ==
    /\ c \notin commanded
    /\ commanded' = commanded \union {c}
    /\ queue' = queue \union {c}
    /\ UNCHANGED <<latest, disk, memory, bounds, undone, overlapped, botched>>

-----------------------------------------------------------------------------
(* Reports to the cloud and their answers *)

\* Any delivered batch.
Report ==
    /\ InService
    /\ reported' = TRUE
    /\ UNCHANGED <<latest, disk, running, offer, task, guard, handled, owed, queue, bounds, history>>

\* Mutant: the acknowledgements of a check-in that failed are forgotten.
OwedNoMore(answered) == {}

\* The acknowledgements of a check-in are put back when no answer comes.
OwedAfter(answered) == IF answered THEN {} ELSE owed

Acknowledge(arrives, answered) ==
    /\ InService
    /\ owed # {}
    /\ answered => arrives
    /\ queue' = IF arrives THEN queue \ owed ELSE queue
    /\ owed' = OwedAfter(answered)
    /\ reported' = (reported \/ answered)
    /\ UNCHANGED <<latest, disk, running, offer, task, guard, handled, bounds, history>>

-----------------------------------------------------------------------------
(* Who asks for an update *)

Begin(u, kind, c) ==
    /\ task[u].at = "idle"
    /\ task' = [task EXCEPT ![u] = [at |-> "fetch", kind |-> kind, got |-> None, command |-> c]]
    /\ overlapped' = (overlapped \/ guard # "look" \/ \E other \in Updaters \ {u} : task[other].at # "idle")

AppAsks(u) ==
    /\ Up
    /\ Begin(u, "app", NoCommand)
    /\ UNCHANGED <<latest, disk, running, reported, offer, guard, handled, owed, queue,
                   bounds, commanded, undone, botched>>

\* An answer carries what is still queued; a command is run once by a process.
CloudAsks(u, c) ==
    /\ InService
    /\ c \in queue \ handled
    /\ handled' = handled \union {c}
    /\ reported' = TRUE
    /\ Begin(u, "command", c)
    /\ UNCHANGED <<latest, disk, running, offer, guard, owed, queue,
                   bounds, commanded, undone, botched>>

\* update_check_loop: what the check offers is newer and not in the skip list; with
\* no answer the offer stays as it was.
Offered == IF latest > running /\ latest \notin skip THEN latest ELSE None

Check ==
    /\ Up
    /\ offer' = Offered
    /\ UNCHANGED <<latest, disk, running, reported, task, guard, handled, owed, queue, bounds, history>>

\* may_update_known: the owner's policy has come with an answer, and the offer was not
\* rolled back here.  The hour, an alarm, a cycle or a close may refuse at any time, and
\* an update refused is asked for at the next check.
MayUpdateKnown == reported /\ offer \notin skip

CheckInstalls(u) ==
    /\ Up
    /\ \A other \in Updaters : task[other].kind # "auto"
    /\ offer # None
    /\ MayUpdateKnown
    /\ Begin(u, "auto", NoCommand)
    /\ UNCHANGED <<latest, disk, running, reported, offer, guard, handled, owed, queue,
                   bounds, commanded, undone, botched>>

-----------------------------------------------------------------------------
(* perform_update.  Each call names the files by the path of the executable it  *)
(* read when it began: calls that overlap work on the same files.              *)

Goto(u, step) == task' = [task EXCEPT ![u].at = step]

\* Up to date, or failed: a command is acknowledged either way.
End(u) ==
    /\ task' = [task EXCEPT ![u] = Idle]
    /\ owed' = IF task[u].kind = "command" THEN owed \union {task[u].command} ELSE owed

\* The release at the time of the download, whatever was offered.
Fetch(u) ==
    /\ task[u].at = "fetch"
    /\ \/ task' = [task EXCEPT ![u].got = latest, ![u].at = "stage"] /\ UNCHANGED owed
       \/ End(u)
    /\ UNCHANGED <<latest, disk, running, reported, offer, guard, handled, queue, bounds, history>>

\* Written, run once for its version, and dropped unless it is newer.
Stage(u) ==
    /\ task[u].at = "stage"
    /\ \/ /\ task[u].got > running
          /\ file' = [file EXCEPT !.new = task[u].got]
          /\ Goto(u, "backup")
          /\ UNCHANGED owed
       \/ /\ file' = [file EXCEPT !.new = None]
          /\ End(u)
    /\ UNCHANGED <<latest, marker, skip, running, reported, offer, guard, handled, queue, bounds, history>>

\* The old .prev goes, the binary becomes .prev.  A rename may fail, and does when its
\* file is gone; the rename that undoes it succeeds when its file is there.
Backup(u) ==
    /\ task[u].at = "backup"
    /\ \/ /\ file.bin # None
          /\ file' = [file EXCEPT !.prev = file.bin, !.bin = None]
          /\ Goto(u, "install")
          /\ UNCHANGED <<owed, botched>>
       \/ /\ file' = [file EXCEPT !.prev = None, !.new = None]
          /\ botched' = TRUE
          /\ End(u)
    /\ UNCHANGED <<latest, marker, skip, running, reported, offer, guard, handled, queue, bounds,
                   commanded, undone, overlapped>>

PutBack == IF file.prev # None THEN [file EXCEPT !.bin = file.prev, !.prev = None] ELSE file

\* .new becomes the binary, or .prev comes back.
Install(u) ==
    /\ task[u].at = "install"
    /\ \/ /\ file.new # None
          /\ file' = [file EXCEPT !.bin = file.new, !.new = None]
          /\ Goto(u, "arm")
          /\ UNCHANGED <<owed, botched>>
       \/ /\ file' = PutBack
          /\ botched' = TRUE
          /\ End(u)
    /\ UNCHANGED <<latest, marker, skip, running, reported, offer, guard, handled, queue,
                   bounds, commanded, undone, overlapped>>

\* arm_probation; the hub restarts half a second later.
\* Mutant: the marker names the new version as the one to go back to.
TrialOfItself(u) == [from |-> task[u].got, to |-> task[u].got, due |-> FALSE]

TrialOf(u) == [from |-> running, to |-> task[u].got, due |-> FALSE]

Arm(u) ==
    /\ task[u].at = "arm"
    /\ marker' = TrialOf(u)
    /\ Goto(u, "leave")
    /\ UNCHANGED <<latest, file, skip, running, reported, offer, guard, handled, owed, queue,
                   bounds, commanded, undone, overlapped, botched>>

\* The process is gone, and with it all it had in memory.
Gone ==
    /\ running' = None
    /\ reported' = FALSE
    /\ offer' = None
    /\ task' = [u \in Updaters |-> Idle]
    /\ guard' = "look"
    /\ handled' = {}
    /\ owed' = {}

Leave(u) ==
    /\ task[u].at = "leave"
    /\ Gone
    /\ UNCHANGED <<latest, disk, queue, bounds, history>>

Crash ==
    /\ Up
    /\ crashes < MaxCrashes
    /\ crashes' = crashes + 1
    /\ Gone
    /\ UNCHANGED <<latest, disk, queue, slow, history>>

\* The supervisor starts what lies at the path of the binary.
Start ==
    /\ ~Up
    /\ file.bin # None
    /\ running' = file.bin
    /\ UNCHANGED <<latest, disk, reported, offer, task, guard, handled, owed, queue,
                   bounds, commanded, undone, overlapped, botched>>

-----------------------------------------------------------------------------
(* Probation *)

\* Ten minutes pass; a version that reaches the cloud seldom needs them.
DeadlinePasses ==
    /\ marker # NoTrial
    /\ ~marker.due
    /\ running \in Bad \/ slow < MaxSlow
    /\ slow' = IF running \in Bad THEN slow ELSE slow + 1
    /\ marker' = [marker EXCEPT !.due = TRUE]
    /\ UNCHANGED <<latest, file, skip, memory, queue, crashes, history>>

\* probation_step
Confirm == running = marker.to /\ reported
Stale == running # marker.to

\* Mutant: a version that does not report is waited for.
RollBackReported == running = marker.to /\ reported /\ marker.due

RollBack == running = marker.to /\ ~reported /\ marker.due

\* Mutant: a version rolled back is not remembered.
SkipAsBefore(v) == skip

SkipWith(v) == skip \union {v}

Look ==
    /\ Up
    /\ guard = "look"
    /\ marker # NoTrial
    /\ \/ /\ Confirm \/ Stale
          /\ marker' = NoTrial
          /\ UNCHANGED <<skip, guard, overlapped>>
       \/ /\ RollBack
          /\ skip' = SkipWith(marker.to)
          /\ guard' = "aside"
          /\ overlapped' = (overlapped \/ \E u \in Updaters : task[u].at # "idle")
          /\ UNCHANGED marker
    /\ UNCHANGED <<latest, file, running, reported, offer, task, handled, owed, queue, bounds,
                   commanded, undone, botched>>

\* restore_previous: the binary is moved aside and .prev takes its place, or the
\* binary comes back; a rollback that fails is not tried again.
RollbackFails ==
    /\ marker' = NoTrial
    /\ guard' = "look"
    /\ botched' = TRUE
    /\ UNCHANGED undone

Aside ==
    /\ guard = "aside"
    /\ \/ /\ file.prev # None /\ file.bin # None
          /\ file' = [file EXCEPT !.aside = file.bin, !.bin = None]
          /\ guard' = "restore"
          /\ UNCHANGED <<marker, undone, botched>>
       \/ /\ RollbackFails
          /\ UNCHANGED file
    /\ UNCHANGED <<latest, skip, running, reported, offer, task, handled, owed, queue, bounds,
                   commanded, overlapped>>

Restore ==
    /\ guard = "restore"
    /\ \/ /\ file.prev # None
          /\ file' = [file EXCEPT !.bin = file.prev, !.prev = None, !.aside = None]
          /\ undone' = undone \union {running}
          /\ guard' = "clear"
          /\ UNCHANGED <<marker, botched>>
       \/ /\ file' = [file EXCEPT !.bin = file.aside, !.aside = None]
          /\ RollbackFails
    /\ UNCHANGED <<latest, skip, running, reported, offer, task, handled, owed, queue, bounds,
                   commanded, overlapped>>

Clear ==
    /\ guard = "clear"
    /\ marker' = NoTrial
    /\ guard' = "exit"
    /\ UNCHANGED <<latest, file, skip, running, reported, offer, task, handled, owed, queue, bounds, history>>

Exit ==
    /\ guard = "exit"
    /\ Gone
    /\ UNCHANGED <<latest, disk, queue, bounds, history>>

-----------------------------------------------------------------------------

Update(u) == Fetch(u) \/ Stage(u) \/ Backup(u) \/ Install(u) \/ Arm(u) \/ Leave(u)
Watch == Look \/ Aside \/ Restore \/ Clear \/ Exit

Next ==
    \/ Release
    \/ \E c \in Commands : CloudCommands(c)
    \/ Report
    \/ \E arrives, answered \in BOOLEAN : Acknowledge(arrives, answered)
    \/ Check
    \/ \E u \in Updaters :
          \/ AppAsks(u) \/ CheckInstalls(u) \/ Update(u)
          \/ \E c \in Commands : CloudAsks(u, c)
    \/ Crash
    \/ Start
    \/ DeadlinePasses
    \/ Watch

Spec == Init /\ [][Next]_vars

\* The process runs, the supervisor restarts it, deadlines pass, and an answer of
\* the cloud comes again and again; an update asked for by the cloud waits for no other.
FairSpec ==
    /\ Spec
    /\ WF_vars(Report) /\ WF_vars(Start) /\ WF_vars(DeadlinePasses) /\ WF_vars(Watch)
    /\ SF_vars(Acknowledge(TRUE, TRUE))
    /\ \A u \in Updaters : WF_vars(Update(u))
    /\ \A c \in Commands : SF_vars(\E u \in Updaters : CloudAsks(u, c))

-----------------------------------------------------------------------------
(* Properties *)

Task == [at: {"idle", "fetch", "stage", "backup", "install", "arm", "leave"},
         kind: {"none", "app", "command", "auto"},
         got: Versions \union {None}, command: Commands \union {NoCommand}]

Files == [bin: Versions \union {None}, new: Versions \union {None},
          prev: Versions \union {None}, aside: Versions \union {None}]

TypeOK ==
    /\ latest \in Versions
    /\ file \in Files
    /\ marker \in Trial \union {NoTrial}
    /\ skip \subseteq Versions
    /\ running \in Versions \union {None}
    /\ reported \in BOOLEAN
    /\ offer \in Versions \union {None}
    /\ task \in [Updaters -> Task]
    /\ guard \in {"look", "aside", "restore", "clear", "exit"}
    /\ queue \subseteq Commands /\ handled \subseteq Commands /\ owed \subseteq Commands
    /\ crashes \in Nat /\ slow \in Nat
    /\ commanded \subseteq Commands
    /\ undone \subseteq Versions
    /\ overlapped \in BOOLEAN /\ botched \in BOOLEAN

\* A version on trial can be undone: while it runs, .prev is the version the marker says
\* to go back to, unless another update is past its backup, a rollback of its own is
\* under way, or a rename of an earlier attempt has failed (it takes .prev with it).
TrialCanBeUndone ==
    /\ ~overlapped /\ ~botched
    /\ marker # NoTrial /\ marker.to = running
    /\ guard \in {"look", "aside"}
    /\ \A u \in Updaters : task[u].at \notin {"install", "arm"}
    => file.prev = marker.from

\* "A rollback without this is a LOOP": the automatic path never brings back a version that was
\* rolled back here, whoever installed it the first time, unless another update runs into it.
\* (An install that fails puts back what runs, which a command may have brought back.)
UndoneStaysOut ==
    [][\A u \in Updaters :
          Install(u) /\ task[u].kind = "auto" /\ ~overlapped
          => file'.bin \notin undone \ {running}]_vars

\* "Better a failed update than no binary at all": when no update and no rollback is
\* under way, the binary lies where the supervisor expects it.
BinaryInPlace == Up /\ guard = "look" /\ (\A u \in Updaters : task[u].at = "idle") => file.bin # None

\* So it is with one update at a time, whatever fails.
FailureKeepsBinary == ~overlapped => BinaryInPlace

\* What lies on disk can be started (FailureKeepsBinary), and undone (TrialCanBeUndone).
SelfUpdateInv == TypeOK /\ TrialCanBeUndone /\ FailureKeepsBinary

\* Nothing lies at the path the supervisor starts: the process died between two renames.
Bricked == ~Up /\ file.bin = None

\* A version that cannot reach the cloud is undone, if its trial is recorded, no two
\* updates ran into each other, and no rename fails.
BadIsUndone ==
    \A v \in Bad :
        running = v /\ marker # NoTrial /\ marker.to = v
        ~> file.bin \notin {v, None} \/ Bricked \/ overlapped \/ botched

\* A command of the cloud is acknowledged in the end, through lost check-ins, crashes
\* and rollbacks, once the release and the installed version are good ones.
EveryCommandSettles ==
    <>[](latest \notin Bad /\ file.bin \notin Bad \union {None})
    => \A c \in Commands : c \in queue ~> c \notin queue

\* A bad version is undone, and every command comes to an end.
UpdatesSettle == BadIsUndone /\ EveryCommandSettles

=============================================================================
