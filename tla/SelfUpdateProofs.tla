-------------------------- MODULE SelfUpdateProofs --------------------------
(***************************************************************************)
(* Proofs about SelfUpdate, for any releases, any of them bad, any number  *)
(* of updates, commands, crashes and deadlines missed: what lies on disk   *)
(* can be started and undone, and the automatic path brings nothing back   *)
(* that was undone, while no two updates have run into each other.         *)
(***************************************************************************)
EXTENDS SelfUpdate, TLAPS

Maybe == Versions \union {None}
Busy(u) == task[u].at # "idle"
At(u, steps) == task[u].at \in steps

\* A command that is run has a name to be acknowledged by.
CommandNamed == \A u \in Updaters : task[u].kind = "command" => task[u].command \in Commands

\* What has been released so far bounds every version the hub knows of.
Known(v) == v # None => v <= latest

VersionsKnown ==
    /\ Known(running) /\ Known(file.bin) /\ Known(file.new) /\ Known(file.prev) /\ Known(file.aside)
    /\ marker # NoTrial => marker.from < marker.to /\ marker.to <= latest
    /\ undone \subseteq skip /\ \A v \in undone : v <= latest
    /\ guard \in {"aside", "restore"} => running \in skip

\* An offer is newer than what runs and than all that was undone.
OfferIsNew ==
    offer # None => running < offer /\ offer <= latest /\ \A v \in undone : v < offer

\* A process that is gone has left nothing in memory.
Awake == ~Up => guard = "look" /\ offer = None /\ \A u \in Updaters : ~Busy(u)

\* An update past its download holds a release, and past its check one that is newer.
Ahead ==
    \A u \in Updaters :
        /\ At(u, {"stage", "backup", "install", "arm", "leave"}) =>
              task[u].got \in Versions /\ task[u].got <= latest
        /\ At(u, {"backup", "install", "arm", "leave"}) => running < task[u].got

Alone ==
    /\ \A u, v \in Updaters : Busy(u) /\ Busy(v) => u = v
    /\ guard # "look" => \A u \in Updaters : ~Busy(u)

\* Where the version that runs lies at each step of an update and of a rollback.
FilesFollow ==
    /\ Up /\ guard \in {"look", "aside"} /\ (\A u \in Updaters : ~At(u, {"install", "arm", "leave"}))
          => file.bin = running
    /\ \A u \in Updaters :
          /\ At(u, {"backup", "install"}) => file.new = task[u].got
          /\ At(u, {"install"}) => file.bin = None /\ file.prev = running
          /\ At(u, {"arm", "leave"}) => file.bin = task[u].got
    /\ guard = "restore" => file.bin = None /\ file.aside = running
    /\ guard \in {"clear", "exit"} => file.bin # None

\* An automatic update is after a version newer than all that was undone.
AutoIsNew ==
    \A u \in Updaters : task[u].kind = "auto" =>
        /\ At(u, {"fetch"}) => \A v \in undone : v < latest
        /\ At(u, {"stage", "backup", "install", "arm", "leave"}) => \A v \in undone : v < task[u].got

\* An update is never after a version older than the one on trial, and ends with its own there.
TrialIsOld ==
    \A u \in Updaters : marker # NoTrial =>
        /\ At(u, {"stage", "backup", "install", "arm", "leave"}) => marker.to <= task[u].got
        /\ At(u, {"leave"}) => marker.to = task[u].got

\* The marker tells what .prev is, for the version it tries; a marker ahead of the binary
\* is of a rollback that has been done, and names what lies there.
MarkerTells ==
    /\ file.bin # None /\ marker # NoTrial =>
          /\ marker.to = file.bin => file.prev = marker.from
          /\ marker.to > file.bin => file.bin = marker.from
    /\ \A u \in Updaters :
          /\ At(u, {"install"}) /\ marker # NoTrial /\ marker.to = task[u].got => marker.from = running
          /\ At(u, {"arm", "leave"}) => file.prev = running
    /\ guard \in {"aside", "restore"} =>
          marker # NoTrial /\ marker.to = running /\ file.prev = marker.from

Undisturbed == ~overlapped => Alone /\ FilesFollow /\ AutoIsNew /\ TrialIsOld
Undoable == ~overlapped /\ ~botched => MarkerTells

IInv == TypeOK /\ CommandNamed /\ VersionsKnown /\ OfferIsNew /\ Awake /\ Ahead /\ Undisturbed /\ Undoable

-----------------------------------------------------------------------------
(* What the steps do to the files and to the tasks *)

Lies(f, bin, new, prev, aside) ==
    f \in Files /\ f.bin = bin /\ f.new = new /\ f.prev = prev /\ f.aside = aside

Backed(f) == [f EXCEPT !.prev = f.bin, !.bin = None]
Dropped(f) == [f EXCEPT !.prev = None, !.new = None]
Swapped(f) == [f EXCEPT !.bin = f.new, !.new = None]
Returned(f) == [f EXCEPT !.bin = f.prev, !.prev = None]
SetAside(f) == [f EXCEPT !.aside = f.bin, !.bin = None]
Recovered(f) == [f EXCEPT !.bin = f.aside, !.aside = None]
Restored(f) == [f EXCEPT !.bin = f.prev, !.prev = None, !.aside = None]

LEMMA BackedLies == ASSUME NEW f \in Files PROVE Lies(Backed(f), None, f.new, f.bin, f.aside)
<1> DEFINE g == [f EXCEPT !.prev = f.bin]
<1>1. Lies(g, f.bin, f.new, f.bin, f.aside)
  BY DEF Files, Lies
<1>2. Backed(f) = [g EXCEPT !.bin = None]
  BY DEF Backed
<1> HIDE DEF g
<1> QED
  BY <1>1, <1>2 DEF Lies, Files

LEMMA DroppedLies == ASSUME NEW f \in Files PROVE Lies(Dropped(f), f.bin, None, None, f.aside)
<1> DEFINE g == [f EXCEPT !.prev = None]
<1>1. Lies(g, f.bin, f.new, None, f.aside)
  BY DEF Files, Lies
<1>2. Dropped(f) = [g EXCEPT !.new = None]
  BY DEF Dropped
<1> HIDE DEF g
<1> QED
  BY <1>1, <1>2 DEF Lies, Files

LEMMA SwappedLies == ASSUME NEW f \in Files PROVE Lies(Swapped(f), f.new, None, f.prev, f.aside)
<1> DEFINE g == [f EXCEPT !.bin = f.new]
<1>1. Lies(g, f.new, f.new, f.prev, f.aside)
  BY DEF Files, Lies
<1>2. Swapped(f) = [g EXCEPT !.new = None]
  BY DEF Swapped
<1> HIDE DEF g
<1> QED
  BY <1>1, <1>2 DEF Lies, Files

LEMMA ReturnedLies == ASSUME NEW f \in Files PROVE Lies(Returned(f), f.prev, f.new, None, f.aside)
<1> DEFINE g == [f EXCEPT !.bin = f.prev]
<1>1. Lies(g, f.prev, f.new, f.prev, f.aside)
  BY DEF Files, Lies
<1>2. Returned(f) = [g EXCEPT !.prev = None]
  BY DEF Returned
<1> HIDE DEF g
<1> QED
  BY <1>1, <1>2 DEF Lies, Files

LEMMA SetAsideLies == ASSUME NEW f \in Files PROVE Lies(SetAside(f), None, f.new, f.prev, f.bin)
<1> DEFINE g == [f EXCEPT !.aside = f.bin]
<1>1. Lies(g, f.bin, f.new, f.prev, f.bin)
  BY DEF Files, Lies
<1>2. SetAside(f) = [g EXCEPT !.bin = None]
  BY DEF SetAside
<1> HIDE DEF g
<1> QED
  BY <1>1, <1>2 DEF Lies, Files

LEMMA RecoveredLies == ASSUME NEW f \in Files PROVE Lies(Recovered(f), f.aside, f.new, f.prev, None)
<1> DEFINE g == [f EXCEPT !.bin = f.aside]
<1>1. Lies(g, f.aside, f.new, f.prev, f.aside)
  BY DEF Files, Lies
<1>2. Recovered(f) = [g EXCEPT !.aside = None]
  BY DEF Recovered
<1> HIDE DEF g
<1> QED
  BY <1>1, <1>2 DEF Lies, Files

LEMMA RestoredLies == ASSUME NEW f \in Files PROVE Lies(Restored(f), f.prev, f.new, None, None)
<1> DEFINE g == Returned(f)
<1>1. Lies(g, f.prev, f.new, None, f.aside)
  BY ReturnedLies
<1>2. Restored(f) = [g EXCEPT !.aside = None]
  BY DEF Restored, Returned
<1> HIDE DEF g
<1> QED
  BY <1>1, <1>2 DEF Lies, Files

Tasks == [Updaters -> Task]
OthersStay(u) == \A w \in Updaters \ {u} : task'[w] = task[w]

LEMMA GotoMoves ==
    ASSUME task \in Tasks, NEW u \in Updaters,
           NEW step \in {"fetch", "stage", "backup", "install", "arm", "leave"}, Goto(u, step)
    PROVE  /\ task' \in Tasks /\ OthersStay(u) /\ task'[u].at = step
           /\ task'[u].kind = task[u].kind /\ task'[u].got = task[u].got
           /\ task'[u].command = task[u].command
<1>1. task[u] \in Task
  BY DEF Tasks
<1> DEFINE r == [task[u] EXCEPT !.at = step]
<1>2. /\ r \in Task /\ r.at = step /\ r.kind = task[u].kind /\ r.got = task[u].got
      /\ r.command = task[u].command
  BY <1>1 DEF Task
<1>3. task' = [task EXCEPT ![u] = r]
  BY DEF Goto
<1> HIDE DEF r
<1> QED
  BY <1>2, <1>3 DEF Tasks, OthersStay

LEMMA IdleType == Idle \in Task /\ Idle.at = "idle" /\ Idle.kind = "none"
  BY DEF Idle, Task

LEMMA EndMoves ==
    ASSUME task \in Tasks, NEW u \in Updaters, End(u), owed \subseteq Commands,
           task[u].kind = "command" => task[u].command \in Commands
    PROVE  /\ task' \in Tasks /\ OthersStay(u) /\ task'[u].at = "idle" /\ task'[u].kind = "none"
           /\ owed' \subseteq Commands
  BY IdleType DEF End, Tasks, OthersStay

LEMMA FetchMoves ==
    ASSUME task \in Tasks, NEW u \in Updaters, NEW v \in Versions,
           task' = [task EXCEPT ![u].got = v, ![u].at = "stage"]
    PROVE  /\ task' \in Tasks /\ OthersStay(u)
           /\ task'[u].at = "stage" /\ task'[u].kind = task[u].kind /\ task'[u].got = v
           /\ task'[u].command = task[u].command
<1>1. task[u] \in Task
  BY DEF Tasks
<1> DEFINE r == [task[u] EXCEPT !.got = v]
           s == [r EXCEPT !.at = "stage"]
<1>2. r \in Task /\ r.kind = task[u].kind /\ r.got = v /\ r.command = task[u].command
  BY <1>1 DEF Task
<1>3. task' = [task EXCEPT ![u] = s]
  OBVIOUS
<1> HIDE DEF r
<1>4. /\ s \in Task /\ s.at = "stage" /\ s.kind = task[u].kind /\ s.got = v
      /\ s.command = task[u].command
  BY <1>2 DEF Task
<1> HIDE DEF s
<1> QED
  BY <1>3, <1>4 DEF Tasks, OthersStay

-----------------------------------------------------------------------------
(* The steps keep the invariant *)

LEMMA Initially == Init => IInv
<1> SUFFICES ASSUME Init PROVE IInv
  OBVIOUS
<1>1. /\ latest = 1 /\ running = 1 /\ offer = None /\ guard = "look" /\ marker = NoTrial
      /\ skip = {} /\ undone = {} /\ queue = {} /\ handled = {} /\ owed = {} /\ commanded = {}
      /\ reported = FALSE /\ overlapped = FALSE /\ botched = FALSE /\ crashes = 0 /\ slow = 0
  BY DEF Init
<1>2. 1 \in Versions /\ None \notin Versions
  BY UpdateAssumption DEF Versions
<1>3. file \in Files /\ file.bin = 1 /\ file.new = None /\ file.prev = None /\ file.aside = None
  BY <1>2 DEF Init, Files
<1>4. task \in Tasks /\ \A u \in Updaters : task[u].at = "idle" /\ task[u].kind = "none"
  BY IdleType DEF Init, Tasks
<1>5. TypeOK
  BY <1>1, <1>2, <1>3, <1>4 DEF TypeOK, Tasks
<1>6. CommandNamed /\ Awake /\ Ahead /\ OfferIsNew
  BY <1>1, <1>2, <1>4 DEF CommandNamed, Awake, Up, Busy, Ahead, At, OfferIsNew
<1>7. VersionsKnown
  BY <1>1, <1>3 DEF VersionsKnown, Known
<1>8. Alone /\ FilesFollow /\ AutoIsNew /\ TrialIsOld /\ MarkerTells
  BY <1>1, <1>3, <1>4 DEF Alone, FilesFollow, AutoIsNew, TrialIsOld, MarkerTells, Busy, At
<1> QED
  BY <1>5, <1>6, <1>7, <1>8 DEF IInv, Undisturbed, Undoable

\* What neither the disk nor the updates see.
LEMMA QuietKeeps ==
    ASSUME IInv, TypeOK',
           UNCHANGED <<latest, disk, running, offer, task, guard, undone, overlapped, botched>>
    PROVE  IInv'
<1>1. CommandNamed' /\ VersionsKnown' /\ OfferIsNew' /\ Awake' /\ Ahead'
  BY DEF IInv, CommandNamed, VersionsKnown, Known, OfferIsNew, Awake, Up, Busy, Ahead, At, disk
<1>2. Undisturbed'
  BY DEF IInv, Undisturbed, Alone, FilesFollow, AutoIsNew, TrialIsOld, Up, Busy, At, disk
<1>3. Undoable'
  BY DEF IInv, Undoable, MarkerTells, At, disk
<1> QED
  BY <1>1, <1>2, <1>3 DEF IInv

LEMMA ReleaseKeeps == ASSUME IInv, Release PROVE IInv'
<1>1. latest \in Nat /\ latest' = latest + 1 /\ latest' \in Versions
  BY UpdateAssumption DEF IInv, TypeOK, Release, Versions
<1>2. UNCHANGED <<disk, memory, queue, bounds, history>>
  BY DEF Release
<1>3. TypeOK'
  BY <1>1, <1>2 DEF IInv, TypeOK, disk, memory, bounds, history
<1>v. Versions \subseteq Nat
  BY UpdateAssumption DEF Versions
<1>k. \A v \in Versions : v <= latest => v <= latest'
  BY <1>1, <1>v
<1>4. VersionsKnown'
  <2>1. \A v \in Versions \union {None} : Known(v) => Known(v)'
    BY <1>k DEF Known
  <2>2. {running, file.bin, file.new, file.prev, file.aside} \subseteq Versions \union {None}
    BY DEF IInv, TypeOK, Files
  <2>3. Known(running)' /\ Known(file.bin)' /\ Known(file.new)' /\ Known(file.prev)' /\ Known(file.aside)'
    BY <1>2, <2>1, <2>2 DEF IInv, VersionsKnown, Known, disk, memory
  <2>4. marker # NoTrial => marker.to \in Versions
    BY DEF IInv, TypeOK, Trial
  <2>5. undone \subseteq Versions
    BY DEF IInv, TypeOK
  <2> QED
    BY <1>2, <1>k, <2>3, <2>4, <2>5 DEF IInv, VersionsKnown, disk, memory, history
<1>o. offer # None => offer \in Versions
  BY DEF IInv, TypeOK
<1>5. CommandNamed' /\ OfferIsNew' /\ Awake'
  BY <1>2, <1>k, <1>o DEF IInv, CommandNamed, OfferIsNew, Awake, Up, Busy, memory, history
<1>a. Ahead'
  BY <1>2, <1>k DEF IInv, Ahead, At, memory
<1>6. Undisturbed'
  <2>1. \A v \in undone : v <= latest /\ v \in Nat
    BY <1>v DEF IInv, VersionsKnown, TypeOK
  <2>2. AutoIsNew => AutoIsNew'
    BY <1>1, <1>2, <2>1 DEF AutoIsNew, At, memory, history
  <2> QED
    BY <1>2, <2>2 DEF IInv, Undisturbed, Alone, FilesFollow, TrialIsOld, Up, Busy, At, disk, memory, history
<1>7. Undoable'
  BY <1>2 DEF IInv, Undoable, MarkerTells, At, disk, memory, history
<1> QED
  BY <1>3, <1>4, <1>5, <1>a, <1>6, <1>7 DEF IInv

LEMMA CheckKeeps == ASSUME IInv, Check PROVE IInv'
<1>1. UNCHANGED <<latest, disk, running, task, guard, undone, overlapped, botched>> /\ offer' = Offered /\ Up
  BY DEF Check, history
<1>v. Versions \subseteq Nat /\ None \notin Versions
  BY UpdateAssumption DEF Versions
<1>2. TypeOK'
  BY <1>1 DEF IInv, TypeOK, Check, Offered, disk, bounds, history
<1>3. OfferIsNew'
  <2>1. ASSUME offer' # None PROVE offer' = latest /\ running < latest /\ latest \notin undone
    BY <1>1, <2>1 DEF Offered, IInv, VersionsKnown
  <2>2. \A v \in undone : v \in Nat /\ v <= latest
    BY <1>v DEF IInv, TypeOK, VersionsKnown
  <2>3. latest \in Nat
    BY <1>v DEF IInv, TypeOK
  <2>4. ASSUME offer' # None PROVE \A v \in undone : v < latest
    BY <2>1, <2>2, <2>3, <2>4
  <2> QED
    BY <1>1, <2>1, <2>3, <2>4 DEF OfferIsNew
<1>4. CommandNamed' /\ VersionsKnown' /\ Awake' /\ Ahead'
  BY <1>1 DEF IInv, CommandNamed, VersionsKnown, Known, Awake, Up, Busy, Ahead, At, disk
<1>5. Undisturbed'
  BY <1>1 DEF IInv, Undisturbed, Alone, FilesFollow, AutoIsNew, TrialIsOld, Up, Busy, At, disk
<1>6. Undoable'
  BY <1>1 DEF IInv, Undoable, MarkerTells, At, disk
<1> QED
  BY <1>2, <1>3, <1>4, <1>5, <1>6 DEF IInv

\* An update begins: alone, unless it says so.
LEMMA BeginKeeps ==
    ASSUME IInv, TypeOK', NEW u \in Updaters, NEW kind \in {"app", "command", "auto"},
           NEW c \in Commands \union {NoCommand}, Begin(u, kind, c), Up,
           kind = "command" => c \in Commands, kind = "auto" => offer # None,
           UNCHANGED <<latest, disk, running, offer, guard, undone, botched>>
    PROVE  IInv'
<1>1. /\ OthersStay(u) /\ task[u].at = "idle"
      /\ task'[u].at = "fetch" /\ task'[u].kind = kind /\ task'[u].command = c
  BY DEF Begin, IInv, TypeOK, OthersStay
<1>2. CommandNamed' /\ VersionsKnown' /\ OfferIsNew' /\ Awake'
  BY <1>1 DEF IInv, CommandNamed, VersionsKnown, Known, OfferIsNew, Awake, Up, disk, OthersStay
<1>3. Ahead'
  BY <1>1 DEF IInv, Ahead, At, OthersStay
<1>4. ASSUME ~overlapped'
      PROVE  ~overlapped /\ guard = "look" /\ \A w \in Updaters \ {u} : task[w].at = "idle"
  BY <1>4 DEF Begin
<1>5. Undisturbed'
  <2> SUFFICES ASSUME ~overlapped' PROVE Alone' /\ FilesFollow' /\ AutoIsNew' /\ TrialIsOld'
    BY DEF Undisturbed
  <2>1. \A w \in Updaters : task'[w].at = IF w = u THEN "fetch" ELSE "idle"
    BY <1>1, <1>4 DEF OthersStay
  <2>2. Alone'
    BY <1>4, <2>1 DEF Alone, Busy
  <2>3. FilesFollow'
    BY <1>1, <1>4, <2>1 DEF IInv, Undisturbed, FilesFollow, At, Up, disk
  <2>4. TrialIsOld'
    BY <2>1 DEF TrialIsOld, At
  <2>5. kind = "auto" => \A v \in undone : v < latest
    <3>1. Versions \subseteq Nat /\ None \notin Versions
      BY UpdateAssumption DEF Versions
    <3> QED
      BY <3>1 DEF IInv, TypeOK, OfferIsNew
  <2>6. AutoIsNew'
    BY <1>1, <2>1, <2>5 DEF AutoIsNew, At
  <2> QED
    BY <2>2, <2>3, <2>4, <2>6
<1>6. Undoable'
  BY <1>1, <1>4 DEF IInv, Undoable, MarkerTells, At, disk, OthersStay
<1> QED
  BY <1>2, <1>3, <1>5, <1>6 DEF IInv

LEMMA GoneKeeps ==
    ASSUME IInv, Gone, UNCHANGED <<latest, disk, undone, overlapped, botched>>,
           UNCHANGED <<queue, slow, commanded>>, crashes' \in Nat
    PROVE  IInv'
<1>1. /\ running' = None /\ offer' = None /\ guard' = "look" /\ reported' = FALSE
      /\ handled' = {} /\ owed' = {} /\ task' = [u \in Updaters |-> Idle]
  BY DEF Gone
<1>2. \A u \in Updaters : task'[u].at = "idle" /\ task'[u].kind = "none"
  BY <1>1, IdleType
<1>3. task' \in Tasks
  BY <1>1, IdleType DEF Tasks
<1>4. TypeOK'
  BY <1>1, <1>3 DEF IInv, TypeOK, disk, Tasks
<1>5. CommandNamed' /\ VersionsKnown' /\ OfferIsNew' /\ Awake' /\ Ahead'
  BY <1>1, <1>2 DEF IInv, CommandNamed, VersionsKnown, Known, OfferIsNew, Awake, Busy, Ahead, At, disk
<1>6. Undisturbed'
  BY <1>1, <1>2 DEF Undisturbed, Alone, FilesFollow, AutoIsNew, TrialIsOld, Up, Busy, At
<1>7. Undoable'
  BY <1>1, <1>2 DEF IInv, Undoable, MarkerTells, At, disk
<1> QED
  BY <1>4, <1>5, <1>6, <1>7 DEF IInv

LEMMA StartKeeps == ASSUME IInv, Start PROVE IInv'
<1>1. /\ ~Up /\ file.bin # None /\ running' = file.bin
      /\ UNCHANGED <<latest, disk, offer, task, guard, undone, overlapped, botched>>
  BY DEF Start
<1>2. guard = "look" /\ offer = None /\ \A u \in Updaters : task[u].at = "idle"
  BY <1>1 DEF IInv, Awake, Busy
<1>3. TypeOK'
  BY <1>1 DEF IInv, TypeOK, Files, Start, disk, bounds
<1>4. CommandNamed' /\ VersionsKnown' /\ OfferIsNew' /\ Awake' /\ Ahead'
  BY <1>1, <1>2 DEF IInv, CommandNamed, VersionsKnown, Known, OfferIsNew, Awake, Up, Busy, Ahead, At, disk
<1>5. Undisturbed'
  BY <1>1, <1>2 DEF IInv, Undisturbed, Alone, FilesFollow, AutoIsNew, TrialIsOld, Busy, At, disk
<1>6. Undoable'
  BY <1>1, <1>2 DEF IInv, Undoable, MarkerTells, At, disk
<1> QED
  BY <1>3, <1>4, <1>5, <1>6 DEF IInv

LEMMA DeadlineKeeps == ASSUME IInv, DeadlinePasses PROVE IInv'
<1>1. /\ marker # NoTrial /\ marker' = [marker EXCEPT !.due = TRUE]
      /\ UNCHANGED <<latest, file, skip, memory, history>>
  BY DEF DeadlinePasses
<1>2. marker' \in Trial /\ marker'.from = marker.from /\ marker'.to = marker.to /\ marker' # NoTrial
  BY <1>1, UpdateAssumption DEF IInv, TypeOK, Trial
<1>3. TypeOK'
  BY <1>1, <1>2 DEF IInv, TypeOK, DeadlinePasses, memory, history
<1>4. CommandNamed' /\ VersionsKnown' /\ OfferIsNew' /\ Awake' /\ Ahead'
  BY <1>1, <1>2 DEF IInv, CommandNamed, VersionsKnown, Known, OfferIsNew, Awake, Up, Busy, Ahead, At, memory, history
<1>5. Undisturbed'
  BY <1>1, <1>2 DEF IInv, Undisturbed, Alone, FilesFollow, AutoIsNew, TrialIsOld, Up, Busy, At, memory, history
<1>6. Undoable'
  BY <1>1, <1>2 DEF IInv, Undoable, MarkerTells, At, memory, history
<1> QED
  BY <1>3, <1>4, <1>5, <1>6 DEF IInv
-----------------------------------------------------------------------------
(* perform_update *)

LEMMA SoleUpdate ==
    ASSUME IInv, NEW u \in Updaters, Busy(u)
    PROVE  /\ Up /\ running \in Versions
           /\ ~overlapped => guard = "look" /\ \A w \in Updaters \ {u} : task[w].at = "idle"
<1>1. Up
  BY DEF IInv, Awake
<1>2. running \in Versions
  BY <1>1 DEF Up, IInv, TypeOK
<1> QED
  BY <1>1, <1>2 DEF IInv, Undisturbed, Alone, Busy

\* An update ends, having put the files in order.
LEMMA EndKeeps ==
    ASSUME IInv, NEW u \in Updaters, Busy(u), End(u), file' \in Files,
           Known(file'.bin), Known(file'.new), Known(file'.prev), Known(file'.aside),
           UNCHANGED <<latest, marker, skip, running, reported, offer, guard, handled, queue, bounds,
                       commanded, undone, overlapped>>,
           botched' \in BOOLEAN, botched => botched',
           ~overlapped => file'.bin = running,
           ~overlapped /\ ~botched' => file'.bin = file.bin /\ file'.prev = file.prev
    PROVE  IInv'
<1>1. /\ task' \in Tasks /\ OthersStay(u) /\ task'[u].at = "idle" /\ task'[u].kind = "none"
      /\ owed' \subseteq Commands
  BY EndMoves DEF IInv, TypeOK, CommandNamed, Tasks
<1>2. TypeOK'
  BY <1>1 DEF IInv, TypeOK, Tasks, bounds
<1>3. CommandNamed' /\ Awake' /\ Ahead'
  BY <1>1 DEF IInv, CommandNamed, Awake, Up, Busy, Ahead, At, OthersStay
<1>4. VersionsKnown' /\ OfferIsNew'
  BY DEF IInv, VersionsKnown, Known, OfferIsNew
<1>5. ASSUME ~overlapped
      PROVE  Up /\ guard = "look" /\ \A w \in Updaters : task'[w].at = "idle" /\ task'[w].at = "idle"
  BY <1>1, <1>5, SoleUpdate DEF OthersStay
<1>6. Undisturbed'
  <2> SUFFICES ASSUME ~overlapped PROVE Alone' /\ FilesFollow' /\ AutoIsNew' /\ TrialIsOld'
    BY DEF Undisturbed
  <2> QED
    BY <1>5 DEF Alone, FilesFollow, AutoIsNew, TrialIsOld, Busy, At
<1>7. Undoable'
  <2> SUFFICES ASSUME ~overlapped, ~botched' PROVE MarkerTells'
    BY DEF Undoable
  <2> QED
    BY <1>5 DEF IInv, Undoable, MarkerTells, At
<1> QED
  BY <1>2, <1>3, <1>4, <1>6, <1>7 DEF IInv

LEMMA FetchKeeps == ASSUME IInv, NEW u \in Updaters, Fetch(u) PROVE IInv'
<1>1. /\ task[u].at = "fetch" /\ Busy(u)
      /\ UNCHANGED <<latest, disk, running, reported, offer, guard, handled, queue, bounds, history>>
  BY DEF Fetch, Busy
<1>s. /\ Up /\ running \in Versions
      /\ ~overlapped => guard = "look" /\ \A w \in Updaters \ {u} : task[w].at = "idle"
  BY <1>1, SoleUpdate
<1>2. CASE End(u)
  <2>1. ~overlapped => file.bin = running
    <3>1. ~overlapped => \A w \in Updaters : ~At(w, {"install", "arm", "leave"})
      BY <1>1, <1>s DEF At
    <3> QED
      BY <1>s, <3>1 DEF IInv, Undisturbed, FilesFollow
  <2>2. /\ file' \in Files /\ botched' \in BOOLEAN
        /\ Known(file'.bin) /\ Known(file'.new) /\ Known(file'.prev) /\ Known(file'.aside)
    BY <1>1 DEF IInv, TypeOK, VersionsKnown, disk, history
  <2> QED
    BY <1>1, <1>2, <2>1, <2>2, EndKeeps DEF disk, history
<1>3. CASE task' = [task EXCEPT ![u].got = latest, ![u].at = "stage"] /\ UNCHANGED owed
  <2>1. latest \in Versions /\ latest \in Nat
    BY UpdateAssumption DEF IInv, TypeOK, Versions
  <2>2. /\ task' \in Tasks /\ OthersStay(u)
        /\ task'[u].at = "stage" /\ task'[u].kind = task[u].kind /\ task'[u].got = latest
        /\ task'[u].command = task[u].command
    BY <1>3, <2>1, FetchMoves DEF IInv, TypeOK, Tasks
  <2>3. TypeOK'
    BY <1>1, <1>3, <2>2 DEF IInv, TypeOK, Tasks, disk, bounds, history
  <2>4. CommandNamed' /\ VersionsKnown' /\ OfferIsNew' /\ Awake'
    BY <1>1, <1>s, <2>2 DEF IInv, CommandNamed, VersionsKnown, Known, OfferIsNew, Awake, Up, disk, history, OthersStay
  <2>5. Ahead'
    BY <1>1, <2>1, <2>2 DEF IInv, Ahead, At, OthersStay
  <2>6. Undisturbed'
    <3> SUFFICES ASSUME ~overlapped PROVE Alone' /\ FilesFollow' /\ AutoIsNew' /\ TrialIsOld'
      BY <1>1 DEF Undisturbed, history
    <3>1. \A w \in Updaters : task'[w].at = IF w = u THEN "stage" ELSE "idle"
      BY <1>s, <2>2 DEF OthersStay
    <3>2. Alone'
      BY <1>1, <1>s, <3>1 DEF Alone, Busy
    <3>3. file.bin = running
      <4>1. \A w \in Updaters : ~At(w, {"install", "arm", "leave"})
        BY <1>1, <1>s DEF At
      <4> QED
        BY <1>s, <4>1 DEF IInv, Undisturbed, FilesFollow
    <3>4. FilesFollow'
      BY <1>1, <1>s, <3>1, <3>3 DEF FilesFollow, At, disk
    <3>5. AutoIsNew'
      BY <1>1, <2>2, <3>1 DEF IInv, Undisturbed, AutoIsNew, At, history
    <3>6. TrialIsOld'
      BY <1>1, <2>2, <3>1 DEF IInv, VersionsKnown, TrialIsOld, At, disk
    <3> QED
      BY <3>2, <3>4, <3>5, <3>6
  <2>7. Undoable'
    BY <1>1, <2>2 DEF IInv, Undoable, MarkerTells, At, OthersStay, disk, history
  <2> QED
    BY <2>3, <2>4, <2>5, <2>6, <2>7 DEF IInv
<1> QED
  BY <1>2, <1>3 DEF Fetch

\* The files of an update that goes on: what it needs to know of the others.
LEMMA StageKeeps == ASSUME IInv, NEW u \in Updaters, Stage(u) PROVE IInv'
<1>1. /\ task[u].at = "stage" /\ Busy(u) /\ file \in Files /\ None \in Maybe
      /\ UNCHANGED <<latest, marker, skip, running, reported, offer, guard, handled, queue, bounds, history>>
  BY DEF IInv, TypeOK, Stage, Busy, Maybe
<1>s. /\ Up /\ running \in Versions
      /\ ~overlapped => guard = "look" /\ \A w \in Updaters \ {u} : task[w].at = "idle"
  BY <1>1, SoleUpdate
<1>b. ~overlapped => file.bin = running
  <2>1. ~overlapped => \A w \in Updaters : ~At(w, {"install", "arm", "leave"})
    BY <1>1, <1>s DEF At
  <2> QED
    BY <1>s, <2>1 DEF IInv, Undisturbed, FilesFollow
<1>2. CASE file' = [file EXCEPT !.new = None] /\ End(u)
  <2>1. Lies(file', file.bin, None, file.prev, file.aside)
    BY <1>1, <1>2 DEF Lies, Files
  <2>2. Known(file'.bin) /\ Known(file'.new) /\ Known(file'.prev) /\ Known(file'.aside)
    BY <2>1 DEF IInv, VersionsKnown, Lies, Known
  <2>3. botched' \in BOOLEAN
    BY <1>1 DEF IInv, TypeOK, history
  <2> QED
    BY <1>1, <1>2, <1>b, <2>1, <2>2, <2>3, EndKeeps DEF Lies, history
<1>3. CASE /\ task[u].got > running /\ file' = [file EXCEPT !.new = task[u].got]
           /\ Goto(u, "backup") /\ UNCHANGED owed
  <2>1. task[u].got \in Versions /\ task[u].got <= latest
    BY <1>1 DEF IInv, Ahead, At
  <2>2. Lies(file', file.bin, task[u].got, file.prev, file.aside)
    BY <1>1, <1>3, <2>1 DEF Lies, Files
  <2>3. /\ task' \in Tasks /\ OthersStay(u) /\ task'[u].at = "backup"
        /\ task'[u].kind = task[u].kind /\ task'[u].got = task[u].got
        /\ task'[u].command = task[u].command
    BY <1>3, GotoMoves DEF IInv, TypeOK, Tasks
  <2>4. TypeOK'
    BY <1>1, <1>3, <2>2, <2>3 DEF IInv, TypeOK, Tasks, Lies, bounds, history
  <2>5. CommandNamed' /\ VersionsKnown' /\ OfferIsNew' /\ Awake'
    BY <1>1, <1>s, <2>1, <2>2, <2>3
    DEF IInv, CommandNamed, VersionsKnown, Known, OfferIsNew, Awake, Up, Lies, history, OthersStay
  <2>6. Ahead'
    <3>1. running < task[u].got
      BY <1>3, <1>s, <2>1, UpdateAssumption DEF Versions
    <3> QED
      BY <1>1, <2>1, <2>3, <3>1 DEF IInv, Ahead, At, OthersStay
  <2>7. Undisturbed'
    <3> SUFFICES ASSUME ~overlapped PROVE Alone' /\ FilesFollow' /\ AutoIsNew' /\ TrialIsOld'
      BY <1>1 DEF Undisturbed, history
    <3>1. \A w \in Updaters : task'[w].at = IF w = u THEN "backup" ELSE "idle"
      BY <1>s, <2>3 DEF OthersStay
    <3>2. Alone'
      BY <1>1, <1>s, <3>1 DEF Alone, Busy
    <3>3. FilesFollow'
      BY <1>1, <1>s, <1>b, <2>2, <2>3, <3>1 DEF FilesFollow, At, Lies
    <3>4. AutoIsNew'
      BY <1>1, <2>3, <3>1 DEF IInv, Undisturbed, AutoIsNew, At, history
    <3>5. TrialIsOld'
      BY <1>1, <2>3, <3>1 DEF IInv, Undisturbed, TrialIsOld, At
    <3> QED
      BY <3>2, <3>3, <3>4, <3>5
  <2>8. Undoable'
    BY <1>1, <2>2, <2>3 DEF IInv, Undoable, MarkerTells, At, OthersStay, Lies, history
  <2> QED
    BY <2>4, <2>5, <2>6, <2>7, <2>8 DEF IInv
<1> QED
  BY <1>2, <1>3 DEF Stage
LEMMA BackupKeeps == ASSUME IInv, NEW u \in Updaters, Backup(u) PROVE IInv'
<1>1. /\ task[u].at = "backup" /\ Busy(u) /\ file \in Files
      /\ task[u].got \in Versions /\ task[u].got <= latest /\ running < task[u].got
      /\ UNCHANGED <<latest, marker, skip, running, reported, offer, guard, handled, queue, bounds,
                     commanded, undone, overlapped>>
  BY DEF IInv, TypeOK, Backup, Busy, Ahead, At
<1>s. /\ Up /\ running \in Versions
      /\ ~overlapped => guard = "look" /\ \A w \in Updaters \ {u} : task[w].at = "idle"
  BY <1>1, SoleUpdate
<1>b. ~overlapped => file.bin = running /\ file.new = task[u].got
  <2>1. ~overlapped => \A w \in Updaters : ~At(w, {"install", "arm", "leave"})
    BY <1>1, <1>s DEF At
  <2> QED
    BY <1>1, <1>s, <2>1 DEF IInv, Undisturbed, FilesFollow, At
<1>2. CASE file' = Dropped(file) /\ botched' = TRUE /\ End(u)
  <2>1. Lies(file', file.bin, None, None, file.aside)
    BY <1>1, <1>2, DroppedLies
  <2>2. Known(file'.bin) /\ Known(file'.new) /\ Known(file'.prev) /\ Known(file'.aside)
    BY <2>1 DEF IInv, VersionsKnown, Lies, Known
  <2> QED
    BY <1>1, <1>2, <1>b, <2>1, <2>2, EndKeeps DEF Lies
<1>3. CASE /\ file.bin # None /\ file' = Backed(file) /\ Goto(u, "install")
           /\ UNCHANGED <<owed, botched>>
  <2>2. Lies(file', None, file.new, file.bin, file.aside)
    BY <1>1, <1>3, BackedLies
  <2>3. /\ task' \in Tasks /\ OthersStay(u) /\ task'[u].at = "install"
        /\ task'[u].kind = task[u].kind /\ task'[u].got = task[u].got
        /\ task'[u].command = task[u].command
    BY <1>3, GotoMoves DEF IInv, TypeOK, Tasks
  <2>4. TypeOK'
    BY <1>1, <1>3, <2>2, <2>3 DEF IInv, TypeOK, Tasks, Lies, bounds
  <2>5. CommandNamed' /\ VersionsKnown' /\ OfferIsNew' /\ Awake'
    BY <1>1, <1>s, <2>2, <2>3
    DEF IInv, CommandNamed, VersionsKnown, Known, OfferIsNew, Awake, Up, Lies, OthersStay
  <2>6. Ahead'
    BY <1>1, <2>3 DEF IInv, Ahead, At, OthersStay
  <2>w. ~overlapped => \A w \in Updaters : task'[w].at = IF w = u THEN "install" ELSE "idle"
    BY <1>s, <2>3 DEF OthersStay
  <2>7. Undisturbed'
    <3> SUFFICES ASSUME ~overlapped PROVE Alone' /\ FilesFollow' /\ AutoIsNew' /\ TrialIsOld'
      BY <1>1 DEF Undisturbed
    <3>1. \A w \in Updaters : task'[w].at = IF w = u THEN "install" ELSE "idle"
      BY <2>w
    <3>2. Alone'
      BY <1>1, <1>s, <3>1 DEF Alone, Busy
    <3>3. FilesFollow'
      BY <1>1, <1>s, <1>b, <2>2, <2>3, <3>1 DEF FilesFollow, At, Lies
    <3>4. AutoIsNew'
      BY <1>1, <2>3, <3>1 DEF IInv, Undisturbed, AutoIsNew, At
    <3>5. TrialIsOld'
      BY <1>1, <2>3, <3>1 DEF IInv, Undisturbed, TrialIsOld, At
    <3> QED
      BY <3>2, <3>3, <3>4, <3>5
  <2>8. Undoable'
    <3> SUFFICES ASSUME ~overlapped, ~botched PROVE MarkerTells'
      BY <1>1, <1>3 DEF Undoable
    <3>1. MarkerTells /\ file.bin = running /\ guard = "look"
      BY <1>b, <1>s DEF IInv, Undoable
    <3>2. marker # NoTrial /\ marker.to = task[u].got => marker.from = running
      BY <1>1, <1>3, <3>1 DEF MarkerTells
    <3> QED
      BY <1>1, <2>2, <2>3, <2>w, <3>1, <3>2 DEF MarkerTells, At, Lies
  <2> QED
    BY <2>4, <2>5, <2>6, <2>7, <2>8 DEF IInv
<1> QED
  BY <1>2, <1>3 DEF Backup, Backed, Dropped

LEMMA InstallKeeps == ASSUME IInv, NEW u \in Updaters, Install(u) PROVE IInv'
<1>1. /\ task[u].at = "install" /\ Busy(u) /\ file \in Files
      /\ task[u].got \in Versions /\ task[u].got <= latest /\ running < task[u].got
      /\ UNCHANGED <<latest, marker, skip, running, reported, offer, guard, handled, queue, bounds,
                     commanded, undone, overlapped>>
  BY DEF IInv, TypeOK, Install, Busy, Ahead, At
<1>s. /\ Up /\ running \in Versions
      /\ ~overlapped => guard = "look" /\ \A w \in Updaters \ {u} : task[w].at = "idle"
  BY <1>1, SoleUpdate
<1>n. None \notin Versions
  BY UpdateAssumption
<1>b. ~overlapped => file.bin = None /\ file.prev = running /\ file.new = task[u].got
  BY <1>1 DEF IInv, Undisturbed, FilesFollow, At
<1>2. CASE file' = PutBack /\ botched' = TRUE /\ End(u)
  <2>1. \/ file.prev # None /\ Lies(file', file.prev, file.new, None, file.aside)
        \/ file.prev = None /\ file' = file
    BY <1>1, <1>2, ReturnedLies DEF PutBack, Returned
  <2>2. /\ file' \in Files
        /\ Known(file'.bin) /\ Known(file'.new) /\ Known(file'.prev) /\ Known(file'.aside)
    BY <1>1, <2>1 DEF IInv, VersionsKnown, Lies, Known
  <2>3. ~overlapped => file'.bin = running
    BY <1>b, <1>s, <1>n, <2>1 DEF Lies
  <2> QED
    BY <1>1, <1>2, <2>2, <2>3, EndKeeps
<1>3. CASE /\ file.new # None /\ file' = Swapped(file) /\ Goto(u, "arm")
           /\ UNCHANGED <<owed, botched>>
  <2>2. Lies(file', file.new, None, file.prev, file.aside)
    BY <1>1, <1>3, SwappedLies
  <2>3. /\ task' \in Tasks /\ OthersStay(u) /\ task'[u].at = "arm"
        /\ task'[u].kind = task[u].kind /\ task'[u].got = task[u].got
        /\ task'[u].command = task[u].command
    BY <1>3, GotoMoves DEF IInv, TypeOK, Tasks
  <2>4. TypeOK'
    BY <1>1, <1>3, <2>2, <2>3 DEF IInv, TypeOK, Tasks, Lies, bounds
  <2>5. CommandNamed' /\ VersionsKnown' /\ OfferIsNew' /\ Awake'
    BY <1>1, <1>s, <2>2, <2>3
    DEF IInv, CommandNamed, VersionsKnown, Known, OfferIsNew, Awake, Up, Lies, OthersStay
  <2>6. Ahead'
    BY <1>1, <2>3 DEF IInv, Ahead, At, OthersStay
  <2>w. ~overlapped => \A w \in Updaters : task'[w].at = IF w = u THEN "arm" ELSE "idle"
    BY <1>s, <2>3 DEF OthersStay
  <2>7. Undisturbed'
    <3> SUFFICES ASSUME ~overlapped PROVE Alone' /\ FilesFollow' /\ AutoIsNew' /\ TrialIsOld'
      BY <1>1 DEF Undisturbed
    <3>1. \A w \in Updaters : task'[w].at = IF w = u THEN "arm" ELSE "idle"
      BY <2>w
    <3>2. Alone'
      BY <1>1, <1>s, <3>1 DEF Alone, Busy
    <3>3. FilesFollow'
      BY <1>1, <1>s, <1>b, <2>2, <2>3, <3>1 DEF FilesFollow, At, Lies
    <3>4. AutoIsNew'
      BY <1>1, <2>3, <3>1 DEF IInv, Undisturbed, AutoIsNew, At
    <3>5. TrialIsOld'
      BY <1>1, <2>3, <3>1 DEF IInv, Undisturbed, TrialIsOld, At
    <3> QED
      BY <3>2, <3>3, <3>4, <3>5
  <2>8. Undoable'
    <3> SUFFICES ASSUME ~overlapped, ~botched PROVE MarkerTells'
      BY <1>1, <1>3 DEF Undoable
    <3>1. MarkerTells /\ guard = "look" /\ file'.bin = task[u].got /\ file'.prev = running
      BY <1>b, <1>s, <2>2 DEF IInv, Undoable, Lies
    <3>2. marker # NoTrial /\ marker.to = task[u].got => marker.from = running
      BY <1>1, <3>1 DEF MarkerTells, At
    <3>3. marker # NoTrial => marker.to <= task[u].got /\ marker.to \in Nat /\ task[u].got \in Nat
      BY <1>1 DEF IInv, Undisturbed, TrialIsOld, At, TypeOK, Trial, Versions
    <3>4. marker # NoTrial => ~(marker.to > task[u].got)
      BY <3>3
    <3> QED
      BY <1>1, <2>3, <2>w, <3>1, <3>2, <3>4 DEF MarkerTells, At
  <2> QED
    BY <2>4, <2>5, <2>6, <2>7, <2>8 DEF IInv
<1> QED
  BY <1>2, <1>3 DEF Install, Swapped

LEMMA ArmKeeps == ASSUME IInv, NEW u \in Updaters, Arm(u) PROVE IInv'
<1>1. /\ task[u].at = "arm" /\ Busy(u)
      /\ task[u].got \in Versions /\ task[u].got <= latest /\ running < task[u].got
      /\ marker' = TrialOf(u) /\ Goto(u, "leave")
      /\ UNCHANGED <<latest, file, skip, running, reported, offer, guard, handled, owed, queue,
                     bounds, commanded, undone, overlapped, botched>>
  BY DEF IInv, Arm, Busy, Ahead, At
<1>s. /\ Up /\ running \in Versions
      /\ ~overlapped => guard = "look" /\ \A w \in Updaters \ {u} : task[w].at = "idle"
  BY <1>1, SoleUpdate
<1>2. /\ marker' \in Trial /\ marker' # NoTrial /\ marker'.from = running
      /\ marker'.to = task[u].got
  <2>1. marker' = [from |-> running, to |-> task[u].got, due |-> FALSE]
    BY <1>1 DEF TrialOf
  <2>2. marker' \in Trial
    BY <1>1, <1>s, <2>1 DEF Trial
  <2> QED
    BY <2>1, <2>2, UpdateAssumption
<1>3. /\ task' \in Tasks /\ OthersStay(u) /\ task'[u].at = "leave"
      /\ task'[u].kind = task[u].kind /\ task'[u].got = task[u].got
      /\ task'[u].command = task[u].command
  BY <1>1, GotoMoves DEF IInv, TypeOK, Tasks
<1>4. TypeOK'
  BY <1>1, <1>2, <1>3 DEF IInv, TypeOK, Tasks, bounds
<1>v. marker'.from < marker'.to /\ marker'.to <= latest
  BY <1>1, <1>2
<1>5. CommandNamed' /\ VersionsKnown' /\ OfferIsNew' /\ Awake'
  <2>1. CommandNamed' /\ OfferIsNew' /\ Awake'
    BY <1>1, <1>s, <1>3 DEF IInv, CommandNamed, OfferIsNew, Awake, Up, OthersStay
  <2>2. VersionsKnown'
    BY <1>1, <1>v DEF IInv, VersionsKnown, Known
  <2> QED
    BY <2>1, <2>2
<1>6. Ahead'
  BY <1>1, <1>3 DEF IInv, Ahead, At, OthersStay
<1>w. ~overlapped => \A w \in Updaters : task'[w].at = IF w = u THEN "leave" ELSE "idle"
  BY <1>s, <1>3 DEF OthersStay
<1>7. Undisturbed'
  <2> SUFFICES ASSUME ~overlapped PROVE Alone' /\ FilesFollow' /\ AutoIsNew' /\ TrialIsOld'
    BY <1>1 DEF Undisturbed
  <2>2. Alone'
    BY <1>1, <1>s, <1>w DEF Alone, Busy
  <2>3. file.bin = task[u].got
    BY <1>1 DEF IInv, Undisturbed, FilesFollow, At
  <2>4. FilesFollow'
    BY <1>1, <1>s, <1>3, <1>w, <2>3 DEF FilesFollow, At
  <2>5. AutoIsNew'
    BY <1>1, <1>3, <1>w DEF IInv, Undisturbed, AutoIsNew, At
  <2>6. task[u].got <= task[u].got
    BY <1>1 DEF Versions
  <2>7. TrialIsOld'
    BY <1>2, <1>3, <1>w, <2>6 DEF TrialIsOld, At
  <2> QED
    BY <2>2, <2>4, <2>5, <2>7
<1>8. Undoable'
  <2> SUFFICES ASSUME ~overlapped, ~botched PROVE MarkerTells'
    BY <1>1 DEF Undoable
  <2>1. file.bin = task[u].got /\ file.prev = running
    BY <1>1 DEF IInv, Undisturbed, Undoable, FilesFollow, MarkerTells, At
  <2>2. ~(task[u].got > task[u].got)
    BY <1>1 DEF Versions
  <2> QED
    BY <1>1, <1>2, <1>s, <1>w, <2>1, <2>2 DEF MarkerTells, At
<1> QED
  BY <1>4, <1>5, <1>6, <1>7, <1>8 DEF IInv
-----------------------------------------------------------------------------
(* probation_loop *)

LEMMA LookKeeps == ASSUME IInv, Look PROVE IInv'
<1>1. /\ Up /\ guard = "look" /\ marker # NoTrial /\ running \in Versions /\ marker \in Trial
      /\ UNCHANGED <<latest, file, running, reported, offer, task, handled, owed, queue, bounds,
                     commanded, undone, botched>>
  BY DEF IInv, TypeOK, Look, Up
<1>2. CASE marker' = NoTrial /\ UNCHANGED <<skip, guard, overlapped>>
  <2>1. TypeOK'
    BY <1>1, <1>2 DEF IInv, TypeOK, bounds
  <2>2. CommandNamed' /\ VersionsKnown' /\ OfferIsNew' /\ Awake' /\ Ahead'
    BY <1>1, <1>2 DEF IInv, CommandNamed, VersionsKnown, Known, OfferIsNew, Awake, Up, Busy, Ahead, At
  <2>3. Undisturbed'
    BY <1>1, <1>2 DEF IInv, Undisturbed, Alone, FilesFollow, AutoIsNew, TrialIsOld, Up, Busy, At
  <2>4. Undoable'
    BY <1>1, <1>2 DEF IInv, Undoable, MarkerTells, At
  <2> QED
    BY <2>1, <2>2, <2>3, <2>4 DEF IInv
<1>3. CASE /\ RollBack /\ skip' = SkipWith(marker.to) /\ guard' = "aside" /\ UNCHANGED marker
           /\ overlapped' = (overlapped \/ \E u \in Updaters : task[u].at # "idle")
  <2>1. running = marker.to /\ skip' = skip \union {running}
    BY <1>3 DEF RollBack, SkipWith
  <2>2. ~overlapped' => ~overlapped /\ \A u \in Updaters : task[u].at = "idle"
    BY <1>3
  <2>3. overlapped' \in BOOLEAN
    BY <1>3 DEF IInv, TypeOK
  <2>4. TypeOK'
    BY <1>1, <1>3, <2>1, <2>3 DEF IInv, TypeOK, bounds
  <2>5. CommandNamed' /\ VersionsKnown' /\ OfferIsNew' /\ Awake' /\ Ahead'
    BY <1>1, <1>3, <2>1
    DEF IInv, CommandNamed, VersionsKnown, Known, OfferIsNew, Awake, Up, Busy, Ahead, At
  <2>6. ~overlapped' => file.bin = running
    BY <1>1, <2>2 DEF IInv, Undisturbed, FilesFollow, At
  <2>7. Undisturbed'
    BY <1>1, <1>3, <2>2, <2>6 DEF Undisturbed, Alone, FilesFollow, AutoIsNew, TrialIsOld, Up, Busy, At
  <2>8. Undoable'
    <3> SUFFICES ASSUME ~overlapped', ~botched PROVE MarkerTells'
      BY <1>1 DEF Undoable
    <3>1. MarkerTells /\ file.bin = running /\ running # None
      BY <1>1, <2>2, <2>6 DEF IInv, Undoable, Up
    <3>2. file.prev = marker.from
      BY <1>1, <2>1, <3>1 DEF MarkerTells
    <3> QED
      BY <1>1, <1>3, <2>1, <2>2, <3>1, <3>2 DEF MarkerTells, At
  <2> QED
    BY <2>4, <2>5, <2>7, <2>8 DEF IInv
<1> QED
  BY <1>2, <1>3 DEF Look

\* A rollback that fails with the binary in its place.
LEMMA FailKeeps ==
    ASSUME IInv, RollbackFails, guard \in {"aside", "restore"}, file' \in Files,
           Known(file'.bin), Known(file'.new), Known(file'.prev), Known(file'.aside),
           ~overlapped => file'.bin = running,
           UNCHANGED <<latest, skip, running, reported, offer, task, handled, owed, queue, bounds,
                       commanded, overlapped>>
    PROVE  IInv'
<1>1. marker' = NoTrial /\ guard' = "look" /\ botched' = TRUE /\ undone' = undone
  BY DEF RollbackFails
<1>2. TypeOK'
  BY <1>1 DEF IInv, TypeOK, bounds
<1>3. CommandNamed' /\ VersionsKnown' /\ OfferIsNew' /\ Awake' /\ Ahead'
  BY <1>1 DEF IInv, CommandNamed, VersionsKnown, Known, OfferIsNew, Awake, Up, Busy, Ahead, At
<1>4. Undisturbed'
  <2> SUFFICES ASSUME ~overlapped PROVE Alone' /\ FilesFollow' /\ AutoIsNew' /\ TrialIsOld'
    BY DEF Undisturbed
  <2>1. \A u \in Updaters : task'[u].at = "idle"
    BY DEF IInv, Undisturbed, Alone, Busy
  <2> QED
    BY <1>1, <2>1 DEF Alone, FilesFollow, AutoIsNew, TrialIsOld, Busy, At
<1>5. Undoable'
  BY <1>1 DEF Undoable
<1> QED
  BY <1>2, <1>3, <1>4, <1>5 DEF IInv

LEMMA AsideKeeps == ASSUME IInv, Aside PROVE IInv'
<1>1. /\ guard = "aside" /\ file \in Files /\ Up
      /\ UNCHANGED <<latest, skip, running, reported, offer, task, handled, owed, queue, bounds,
                     commanded, overlapped>>
  BY DEF IInv, TypeOK, Aside, Awake
<1>2. ~overlapped => file.bin = running /\ \A u \in Updaters : task[u].at = "idle"
  <2>1. ~overlapped => \A u \in Updaters : task[u].at = "idle"
    BY <1>1 DEF IInv, Undisturbed, Alone, Busy
  <2> QED
    BY <1>1, <2>1 DEF IInv, Undisturbed, FilesFollow, At
<1>3. CASE RollbackFails /\ UNCHANGED file
  BY <1>1, <1>2, <1>3, FailKeeps DEF IInv, VersionsKnown, Known
<1>4. CASE /\ file' = SetAside(file) /\ guard' = "restore" /\ UNCHANGED <<marker, undone, botched>>
  <2>1. Lies(file', None, file.new, file.prev, file.bin)
    BY <1>1, <1>4, SetAsideLies
  <2>2. TypeOK'
    BY <1>1, <1>4, <2>1 DEF IInv, TypeOK, Lies, bounds
  <2>3. CommandNamed' /\ VersionsKnown' /\ OfferIsNew' /\ Awake' /\ Ahead'
    BY <1>1, <1>4, <2>1
    DEF IInv, CommandNamed, VersionsKnown, Known, OfferIsNew, Awake, Up, Busy, Ahead, At, Lies
  <2>4. Undisturbed'
    BY <1>1, <1>2, <1>4, <2>1 DEF Undisturbed, Alone, FilesFollow, AutoIsNew, TrialIsOld, Up, Busy, At, Lies
  <2>5. Undoable'
    BY <1>1, <1>2, <1>4, <2>1 DEF IInv, Undoable, MarkerTells, At, Lies
  <2> QED
    BY <2>2, <2>3, <2>4, <2>5 DEF IInv
<1> QED
  BY <1>3, <1>4 DEF Aside, SetAside

LEMMA RestoreKeeps == ASSUME IInv, Restore PROVE IInv'
<1>1. /\ guard = "restore" /\ file \in Files /\ Up /\ running \in Versions
      /\ UNCHANGED <<latest, skip, running, reported, offer, task, handled, owed, queue, bounds,
                     commanded, overlapped>>
  BY DEF IInv, TypeOK, Restore, Awake, Up
<1>2. ~overlapped => /\ file.bin = None /\ file.aside = running
                     /\ \A u \in Updaters : task[u].at = "idle"
  BY <1>1 DEF IInv, Undisturbed, Alone, FilesFollow, Busy
<1>3. CASE file' = Recovered(file) /\ RollbackFails
  <2>1. Lies(file', file.aside, file.new, file.prev, None)
    BY <1>1, <1>3, RecoveredLies
  <2> QED
    BY <1>1, <1>2, <1>3, <2>1, FailKeeps DEF IInv, VersionsKnown, Known, Lies
<1>4. CASE /\ file.prev # None /\ file' = Restored(file) /\ undone' = undone \union {running}
           /\ guard' = "clear" /\ UNCHANGED <<marker, botched>>
  <2>1. Lies(file', file.prev, file.new, None, None)
    BY <1>1, <1>4, RestoredLies
  <2>2. TypeOK'
    BY <1>1, <1>4, <2>1 DEF IInv, TypeOK, Lies, bounds
  <2>3. CommandNamed' /\ OfferIsNew' /\ Awake' /\ Ahead'
    BY <1>1, <1>4 DEF IInv, CommandNamed, OfferIsNew, Awake, Up, Busy, Ahead, At
  <2>4. running <= latest /\ running \in skip
    BY <1>1 DEF IInv, VersionsKnown, Known, Up
  <2>5. VersionsKnown'
    BY <1>1, <1>4, <2>1, <2>4 DEF IInv, VersionsKnown, Known, Lies
  <2>6. Undisturbed'
    BY <1>1, <1>2, <1>4, <2>1 DEF Undisturbed, Alone, FilesFollow, AutoIsNew, TrialIsOld, Up, Busy, At, Lies
  <2>7. Undoable'
    <3> SUFFICES ASSUME ~overlapped, ~botched PROVE MarkerTells'
      BY <1>1, <1>4 DEF Undoable
    <3>1. marker # NoTrial /\ file.prev = marker.from /\ marker.from < marker.to
      BY <1>1 DEF IInv, Undoable, MarkerTells, VersionsKnown
    <3>2. marker.from \in Nat /\ marker.to \in Nat
      BY <3>1 DEF IInv, TypeOK, Trial, Versions
    <3>3. file'.bin = marker.from /\ marker.to # marker.from
      BY <2>1, <3>1, <3>2 DEF Lies
    <3> QED
      BY <1>1, <1>2, <1>4, <3>3 DEF MarkerTells, At
  <2> QED
    BY <2>2, <2>3, <2>5, <2>6, <2>7 DEF IInv
<1> QED
  BY <1>3, <1>4 DEF Restore, Restored, Recovered

LEMMA ClearKeeps == ASSUME IInv, Clear PROVE IInv'
<1>1. /\ guard = "clear" /\ marker' = NoTrial /\ guard' = "exit"
      /\ UNCHANGED <<latest, file, skip, running, reported, offer, task, handled, owed, queue, bounds, history>>
  BY DEF Clear
<1>2. TypeOK'
  BY <1>1 DEF IInv, TypeOK, bounds, history
<1>3. CommandNamed' /\ VersionsKnown' /\ OfferIsNew' /\ Awake' /\ Ahead'
  BY <1>1 DEF IInv, CommandNamed, VersionsKnown, Known, OfferIsNew, Awake, Up, Busy, Ahead, At, history
<1>4. Undisturbed'
  BY <1>1 DEF IInv, Undisturbed, Alone, FilesFollow, AutoIsNew, TrialIsOld, Up, Busy, At, history
<1>5. Undoable'
  BY <1>1 DEF IInv, Undoable, MarkerTells, At, history
<1> QED
  BY <1>2, <1>3, <1>4, <1>5 DEF IInv
-----------------------------------------------------------------------------

LEMMA Step == IInv /\ [Next]_vars => IInv'
<1> SUFFICES ASSUME IInv, [Next]_vars PROVE IInv'
  OBVIOUS
<1>t. task \in Tasks /\ \A u \in Updaters : task[u] \in Task
  BY DEF IInv, TypeOK, Tasks
<1>1. CASE Release
  BY <1>1, ReleaseKeeps
<1>2. CASE \E c \in Commands : CloudCommands(c)
  <2>1. TypeOK' /\ UNCHANGED <<latest, disk, running, offer, task, guard, undone, overlapped, botched>>
    BY <1>2 DEF IInv, TypeOK, CloudCommands, disk, memory, bounds
  <2> QED
    BY <2>1, QuietKeeps
<1>3. CASE Report
  <2>1. TypeOK' /\ UNCHANGED <<latest, disk, running, offer, task, guard, undone, overlapped, botched>>
    BY <1>3 DEF IInv, TypeOK, Report, disk, bounds, history
  <2> QED
    BY <2>1, QuietKeeps
<1>4. CASE \E arrives, answered \in BOOLEAN : Acknowledge(arrives, answered)
  <2>1. PICK arrives \in BOOLEAN, answered \in BOOLEAN : Acknowledge(arrives, answered)
    BY <1>4
  <2>2. reported' \in BOOLEAN
    BY <2>1 DEF Acknowledge
  <2>3. queue' \subseteq Commands /\ owed' \subseteq Commands
    BY <2>1 DEF IInv, TypeOK, Acknowledge, OwedAfter
  <2>4. UNCHANGED <<latest, disk, running, offer, task, guard, handled, bounds, history>>
    BY <2>1 DEF Acknowledge
  <2>5. TypeOK'
    BY <2>2, <2>3, <2>4 DEF IInv, TypeOK, disk, bounds, history
  <2> QED
    BY <2>4, <2>5, QuietKeeps DEF history
<1>5. CASE Check
  BY <1>5, CheckKeeps
<1>6. ASSUME NEW u \in Updaters, NEW kind \in {"app", "command", "auto"},
             NEW c \in Commands \union {NoCommand}, Begin(u, kind, c)
      PROVE  task' \in Tasks /\ overlapped' \in BOOLEAN
  <2>1. [at |-> "fetch", kind |-> kind, got |-> None, command |-> c] \in Task
    BY DEF Task
  <2>2. overlapped' \in BOOLEAN
    BY <1>6 DEF Begin
  <2> QED
    BY <1>6, <1>t, <2>1, <2>2 DEF Begin, Tasks
<1>7. ASSUME NEW u \in Updaters, AppAsks(u) PROVE IInv'
  <2>1. /\ Begin(u, "app", NoCommand) /\ Up
        /\ UNCHANGED <<latest, disk, running, reported, offer, guard, handled, owed, queue,
                       bounds, commanded, undone, botched>>
    BY <1>7 DEF AppAsks
  <2>2. task' \in Tasks /\ overlapped' \in BOOLEAN
    BY <1>6, <2>1
  <2>3. TypeOK'
    BY <2>1, <2>2 DEF IInv, TypeOK, Tasks, disk, bounds
  <2> QED
    BY <2>1, <2>3, BeginKeeps
<1>8. ASSUME NEW u \in Updaters, CheckInstalls(u) PROVE IInv'
  <2>1. /\ Begin(u, "auto", NoCommand) /\ Up /\ offer # None
        /\ UNCHANGED <<latest, disk, running, reported, offer, guard, handled, owed, queue,
                       bounds, commanded, undone, botched>>
    BY <1>8 DEF CheckInstalls
  <2>2. task' \in Tasks /\ overlapped' \in BOOLEAN
    BY <1>6, <2>1
  <2>3. TypeOK'
    BY <2>1, <2>2 DEF IInv, TypeOK, Tasks, disk, bounds
  <2> QED
    BY <2>1, <2>3, BeginKeeps
<1>9. ASSUME NEW u \in Updaters, NEW c \in Commands, CloudAsks(u, c) PROVE IInv'
  <2>1. /\ Begin(u, "command", c) /\ Up /\ handled' = handled \union {c} /\ reported' = TRUE
        /\ UNCHANGED <<latest, disk, running, offer, guard, owed, queue,
                       bounds, commanded, undone, botched>>
    BY <1>9 DEF CloudAsks, InService
  <2>2. task' \in Tasks /\ overlapped' \in BOOLEAN
    BY <1>6, <2>1
  <2>3. TypeOK'
    BY <2>1, <2>2 DEF IInv, TypeOK, Tasks, disk, bounds
  <2> QED
    BY <2>1, <2>3, BeginKeeps
<1>10. ASSUME NEW u \in Updaters, Update(u) PROVE IInv'
  <2>1. CASE Fetch(u) \/ Stage(u) \/ Backup(u) \/ Install(u) \/ Arm(u)
    BY <2>1, FetchKeeps, StageKeeps, BackupKeeps, InstallKeeps, ArmKeeps
  <2>2. CASE Leave(u)
    BY <2>2, GoneKeeps DEF Leave, IInv, TypeOK, bounds, history
  <2> QED
    BY <1>10, <2>1, <2>2 DEF Update
<1>11. CASE Crash
  BY <1>11, GoneKeeps DEF Crash, IInv, TypeOK, history
<1>12. CASE Start
  BY <1>12, StartKeeps
<1>13. CASE DeadlinePasses
  BY <1>13, DeadlineKeeps
<1>14. CASE Watch
  <2>1. CASE Look \/ Aside \/ Restore \/ Clear
    BY <2>1, LookKeeps, AsideKeeps, RestoreKeeps, ClearKeeps
  <2>2. CASE Exit
    BY <2>2, GoneKeeps DEF Exit, IInv, TypeOK, bounds, history
  <2> QED
    BY <1>14, <2>1, <2>2 DEF Watch
<1>15. CASE UNCHANGED vars
  <2>1. TypeOK' /\ UNCHANGED <<latest, disk, running, offer, task, guard, undone, overlapped, botched>>
    BY <1>15 DEF IInv, TypeOK, vars, disk, memory, bounds, history
  <2> QED
    BY <2>1, QuietKeeps
<1> QED
  BY <1>1, <1>2, <1>3, <1>4, <1>5, <1>7, <1>8, <1>9, <1>10, <1>11, <1>12, <1>13, <1>14, <1>15 DEF Next

\* While no two updates run into each other, and whatever fails or crashes, the binary lies where
\* the supervisor looks for it whenever nothing is under way, and a version on trial has behind it
\* the one to go back to (perform_update, restore_previous, arm_probation, probation_loop).
THEOREM InstalledCanBeUndone == Spec => []SelfUpdateInv
<1>1. IInv => SelfUpdateInv
  <2> SUFFICES ASSUME IInv PROVE TrialCanBeUndone /\ FailureKeepsBinary
    BY DEF IInv, SelfUpdateInv
  <2>n. None \notin Versions
    BY UpdateAssumption
  <2>1. FailureKeepsBinary
    <3> SUFFICES ASSUME ~overlapped, Up, guard = "look", \A u \in Updaters : task[u].at = "idle"
                 PROVE  file.bin # None
      BY DEF FailureKeepsBinary, BinaryInPlace
    <3>1. file.bin = running
      BY DEF IInv, Undisturbed, FilesFollow, At
    <3> QED
      BY <3>1 DEF Up
  <2>2. TrialCanBeUndone
    <3> SUFFICES ASSUME ~overlapped, ~botched, marker # NoTrial, marker.to = running,
                        guard \in {"look", "aside"},
                        \A u \in Updaters : task[u].at \notin {"install", "arm"}
                 PROVE  file.prev = marker.from
      BY DEF TrialCanBeUndone
    <3>1. running \in Versions /\ Up
      BY <2>n DEF IInv, TypeOK, Trial, Up
    <3>2. CASE \E u \in Updaters : task[u].at = "leave"
      <4>1. PICK u \in Updaters : task[u].at = "leave"
        BY <3>2
      <4>2. marker.to = task[u].got /\ running < task[u].got
        BY <4>1 DEF IInv, Undisturbed, TrialIsOld, Ahead, At
      <4>3. ~(running < running)
        BY <3>1 DEF Versions
      <4> QED
        BY <4>2, <4>3
    <3>3. CASE \A u \in Updaters : task[u].at # "leave"
      <4>1. file.bin = running
        BY <3>1, <3>3 DEF IInv, Undisturbed, FilesFollow, At
      <4> QED
        BY <3>1, <4>1, <2>n DEF IInv, Undoable, MarkerTells
    <3> QED
      BY <3>2, <3>3
  <2> QED
    BY <2>1, <2>2
<1> QED
  BY <1>1, Initially, Step, PTL DEF Spec

\* The automatic path brings back nothing that was rolled back here, whatever a command or the
\* app has installed since, and whatever is released between the offer and the download
\* (update_check_loop, may_update_known, skip_version).
THEOREM UndoneIsNotOffered == Spec => UndoneStaysOut
<1>1. ASSUME IInv, NEW u \in Updaters, Install(u), task[u].kind = "auto", ~overlapped
      PROVE  file'.bin \notin undone \ {running}
  <2>1. /\ task[u].at = "install" /\ file \in Files /\ None \notin Versions
        /\ task[u].got \in Versions /\ undone \subseteq Versions
    BY <1>1, UpdateAssumption DEF IInv, TypeOK, Install, Ahead, At
  <2>2. file.new = task[u].got /\ file.bin = None /\ file.prev = running
    BY <1>1, <2>1 DEF IInv, Undisturbed, FilesFollow, At
  <2>3. \A v \in undone : v < task[u].got
    BY <1>1, <2>1 DEF IInv, Undisturbed, AutoIsNew, At
  <2>4. task[u].got \notin undone
    <3>1. ~(task[u].got < task[u].got)
      BY <2>1 DEF Versions
    <3> QED
      BY <2>3, <3>1
  <2>5. CASE file' = Swapped(file)
    BY <2>1, <2>2, <2>4, <2>5, SwappedLies DEF Lies
  <2>6. CASE file' = PutBack
    BY <2>1, <2>2, <2>6, ReturnedLies DEF PutBack, Returned, Lies
  <2> QED
    BY <1>1, <2>5, <2>6 DEF Install, Swapped
<1>2. IInv /\ [Next]_vars
      => [\A u \in Updaters : Install(u) /\ task[u].kind = "auto" /\ ~overlapped
            => file'.bin \notin undone \ {running}]_vars
  BY <1>1
<1> QED
  BY <1>2, Initially, Step, PTL DEF Spec, UndoneStaysOut
=============================================================================
