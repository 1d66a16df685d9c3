-------------------------- MODULE FileEventStarter --------------------------
(***************************************************************************)
(* The file_event starter (src/starters/file_event.go): every poller scans *)
(* the input folder, starts one goroutine per matching file (at most Slots *)
(* at a time), waits for all of them, removes the lock files it still      *)
(* finds, and sleeps.  A goroutine creates <path>.lock, reads the file,    *)
(* calls the route, moves the file to the output folder and removes the    *)
(* lock.  Several instances (starters of one process or of several) may    *)
(* poll the same folder; the lock files are all they share.                *)
(*                                                                         *)
(* A file is a path, its content a version number.  All failures (a crash, *)
(* an I/O error, a handler error) draw on one budget, MaxFaults.           *)
(***************************************************************************)
EXTENDS Naturals, FiniteSets

CONSTANTS
  Instances,        \* starters polling the same input folder
  Files,            \* paths a producer writes, below the input folder
  SubFiles,         \* those inside a subfolder of the input folder
  Matching,         \* those whose name passes the filename filters
  BaseName,         \* the last element of each path, its name when moved
  Slots,            \* capacity of the semaphore (4 in the code)
  CheckSubfolders,  \* property checkSubfolders
  ProcessExisting,  \* property processExistingOnStartup
  HasOutput,        \* property outputFolder is set
  Producer,         \* how paths are reused: "once", "fresh" or "rewrite"
  MaxVersion,       \* bound on the versions written to one path
  MaxFaults         \* bound on the failures of a behaviour

ASSUME ConfigAssumption ==
  /\ IsFiniteSet(Files)
  /\ SubFiles \subseteq Files
  /\ Matching \subseteq Files
  /\ Slots \in Nat \ {0}
  /\ CheckSubfolders \in BOOLEAN
  /\ ProcessExisting \in BOOLEAN
  /\ HasOutput \in BOOLEAN
  /\ Producer \in {"once", "fresh", "rewrite"}
  /\ MaxVersion \in Nat \ {0}
  /\ MaxFaults \in Nat

VARIABLES
  version,    \* the last version written to each path, 0 for none
  present,    \* paths that exist in the input folder
  locks,      \* paths whose lock file exists
  archive,    \* the output folder: <<path, version>> moved there
  phase,      \* where each instance's poll loop is
  todo,       \* directory entries the current scan has still to visit
  below,      \* the current scan has still to enter the subfolder
  doomed,     \* lock files cleanStaleLocks has listed and not removed yet
  job,        \* where the goroutine of each instance and path is
  held,       \* the version that goroutine has read, 0 before and after
  stopped,    \* Stop has closed the done channel
  delivered,  \* history: <<path, version>> the handler accepted
  strayed,    \* history: accepted, but then not moved because of a failure
  faults      \* failures so far

folder == <<version, present, locks, archive>>
loop   == <<phase, todo, below, doomed>>
work   == <<job, held>>
ghosts == <<delivered, strayed>>
vars   == <<folder, loop, work, stopped, ghosts, faults>>

Versions == 1..MaxVersion
Items    == Files \X Versions
Entries  == {"file", "lock"} \X Files
Phases   == {"boot", "walk", "clean", "sleep", "stopped", "down"}
Steps    == {"none", "waiting", "queued", "locked", "read", "handled", "release"}
Polling  == {"boot", "walk", "clean", "sleep"}

\* Paths of the goroutines that hold a slot, and the walk waiting for one.
Busy(i)    == {f \in Files : job[i][f] \notin {"none", "waiting"}}
Blocked(i) == \E f \in Files : job[i][f] = "waiting"

Visiting(i, e) == phase[i] = "walk" /\ e \in todo[i] /\ ~Blocked(i)

Fault   == faults < MaxFaults /\ faults' = faults + 1
NoFault == UNCHANGED faults

\* What os.ReadDir returns for the input folder, or for its subfolder.
Listing(paths) == ({"file"} \X (present \cap paths)) \cup
                  ({"lock"} \X (locks \cap paths))

TopFiles == Files \ SubFiles

Exists(e) == IF e[1] = "file" THEN e[2] \in present ELSE e[2] \in locks

GoTo(i, f, step) == job' = [job EXCEPT ![i][f] = step]
-----------------------------------------------------------------------------
Init ==
  /\ version = [f \in Files |-> 0]
  /\ present = {}
  /\ locks = {}
  /\ archive = {}
  /\ phase = [i \in Instances |-> "boot"]
  /\ todo = [i \in Instances |-> {}]
  /\ below = [i \in Instances |-> FALSE]
  /\ doomed = [i \in Instances |-> {}]
  /\ job = [i \in Instances |-> [f \in Files |-> "none"]]
  /\ held = [i \in Instances |-> [f \in Files |-> 0]]
  /\ stopped = [i \in Instances |-> FALSE]
  /\ delivered = {}
  /\ strayed = {}
  /\ faults = 0

\* A producer outside the program puts a file in the folder.
Write(f) ==
  /\ version[f] < MaxVersion
  /\ CASE Producer = "once"    -> version[f] = 0
       [] Producer = "fresh"   -> f \notin present
       [] Producer = "rewrite" -> TRUE
  /\ version' = [version EXCEPT ![f] = @ + 1]
  /\ present' = present \cup {f}
  /\ UNCHANGED <<locks, archive, loop, work, stopped, ghosts, faults>>
-----------------------------------------------------------------------------
(* The poll loop.                                                          *)

\* poll reaches scanExisting, which lists the input folder.  When the
\* listing fails the walk is empty.  A poller asleep since before Stop may
\* still scan: select picks either ready case.
ScanExisting(i) ==
  /\ \/ phase[i] = "sleep"
     \/ phase[i] = "boot" /\ (ProcessExisting \/ ~stopped[i])
  /\ phase' = [phase EXCEPT ![i] = "walk"]
  /\ \/ /\ NoFault
        /\ todo' = [todo EXCEPT ![i] = Listing(TopFiles)]
        /\ below' = [below EXCEPT ![i] = CheckSubfolders]
     \/ /\ Fault
        /\ UNCHANGED <<todo, below>>
  /\ UNCHANGED <<folder, doomed, work, stopped, ghosts>>

\* filepath.Walk descends into the subfolder, or reports that it cannot.
EnterSubfolder(i) ==
  /\ phase[i] = "walk" /\ below[i] /\ ~Blocked(i)
  /\ below' = [below EXCEPT ![i] = FALSE]
  /\ \/ /\ NoFault
        /\ todo' = [todo EXCEPT ![i] = @ \cup Listing(SubFiles)]
     \/ /\ Fault
        /\ UNCHANGED todo
  /\ UNCHANGED <<folder, phase, doomed, work, stopped, ghosts>>

\* The walk reaches an entry that is gone (or cannot be accessed).  Walk
\* skips it; the ReadDir loop returns the error and visits nothing more.  (On
\* Windows the entry keeps what the listing said of it: there the loop goes
\* on to the goroutine, which finds no file to read.)
VisitGone(i, e) ==
  /\ Visiting(i, e)
  /\ \/ ~Exists(e) /\ NoFault
     \/ Exists(e) /\ Fault
  /\ todo' = [todo EXCEPT ![i] = IF CheckSubfolders THEN @ \ {e} ELSE {}]
  /\ UNCHANGED <<folder, phase, below, doomed, work, stopped, ghosts>>

\* Lock files and files the filters reject are passed over.
VisitSkip(i, e) ==
  /\ Visiting(i, e)
  /\ Exists(e)
  /\ e[1] = "lock" \/ e[2] \notin Matching
  /\ todo' = [todo EXCEPT ![i] = @ \ {e}]
  /\ UNCHANGED <<folder, phase, below, doomed, work, stopped, ghosts, faults>>

\* A matching file blocks the walk until a slot of the semaphore is free,
VisitMatch(i, f) ==
  /\ Visiting(i, <<"file", f>>)
  /\ f \in present \cap Matching
  /\ todo' = [todo EXCEPT ![i] = @ \ {<<"file", f>>}]
  /\ GoTo(i, f, "waiting")
  /\ UNCHANGED <<folder, phase, below, doomed, held, stopped, ghosts, faults>>

\* Mutant: the walk does not wait for the semaphore.
TakeSlotUnguarded(i, f) ==
  /\ job[i][f] = "waiting"
  /\ GoTo(i, f, "queued")
  /\ UNCHANGED <<folder, loop, held, stopped, ghosts, faults>>

\* and then gets a goroutine of its own.
TakeSlot(i, f) ==
  /\ job[i][f] = "waiting"
  /\ Cardinality(Busy(i)) < Slots
  /\ GoTo(i, f, "queued")
  /\ UNCHANGED <<folder, loop, held, stopped, ghosts, faults>>

\* Mutant: the clean-up starts without wg.Wait.
JoinWithoutWait(i) ==
  /\ phase[i] = "walk" /\ todo[i] = {} /\ ~below[i]
  /\ phase' = [phase EXCEPT ![i] = "clean"]
  /\ doomed' = [doomed EXCEPT ![i] = locks \cap TopFiles]
  /\ UNCHANGED <<folder, todo, below, work, stopped, ghosts, faults>>

\* wg.Wait returns and cleanStaleLocks lists the input folder again.
Join(i) ==
  /\ phase[i] = "walk" /\ todo[i] = {} /\ ~below[i]
  /\ \A f \in Files : job[i][f] = "none"
  /\ \/ /\ NoFault
        /\ phase' = [phase EXCEPT ![i] = "clean"]
        /\ doomed' = [doomed EXCEPT ![i] = locks \cap TopFiles]
     \/ /\ Fault
        /\ phase' = [phase EXCEPT ![i] = IF stopped[i] THEN "stopped" ELSE "sleep"]
        /\ UNCHANGED doomed
  /\ UNCHANGED <<folder, todo, below, work, stopped, ghosts>>

\* Mutant: the name is not joined with the folder and nothing is removed.
CleanWrongPath(i, f) ==
  /\ phase[i] = "clean" /\ f \in doomed[i]
  /\ doomed' = [doomed EXCEPT ![i] = @ \ {f}]
  /\ UNCHANGED <<folder, phase, todo, below, work, stopped, ghosts, faults>>

CleanStaleLocks(i, f) ==
  /\ phase[i] = "clean" /\ f \in doomed[i]
  /\ doomed' = [doomed EXCEPT ![i] = @ \ {f}]
  /\ \/ NoFault /\ locks' = locks \ {f}
     \/ Fault /\ UNCHANGED locks
  /\ UNCHANGED <<version, present, archive, phase, todo, below, work,
                 stopped, ghosts>>

\* Mutant: the end of a scan does not look at done.
EndScanIgnoringDone(i) ==
  /\ phase[i] = "clean" /\ doomed[i] = {}
  /\ phase' = [phase EXCEPT ![i] = "sleep"]
  /\ UNCHANGED <<folder, todo, below, doomed, work, stopped, ghosts, faults>>

\* The scan ends.  When done is closed already, select returns at once.
EndScan(i) ==
  /\ phase[i] = "clean" /\ doomed[i] = {}
  /\ phase' = [phase EXCEPT ![i] = IF stopped[i] THEN "stopped" ELSE "sleep"]
  /\ UNCHANGED <<folder, todo, below, doomed, work, stopped, ghosts, faults>>

\* done is closed while the poller waits for the polling interval.
Exit(i) ==
  /\ \/ phase[i] = "sleep"
     \/ phase[i] = "boot" /\ ~ProcessExisting
  /\ stopped[i]
  /\ phase' = [phase EXCEPT ![i] = "stopped"]
  /\ UNCHANGED <<folder, todo, below, doomed, work, stopped, ghosts, faults>>
-----------------------------------------------------------------------------
(* The goroutine of one file.                                              *)

\* Mutant: a goroutine waits for a lock file that exists.
AcquireLockWaiting(i, f) ==
  /\ job[i][f] = "queued" /\ f \notin locks
  /\ locks' = locks \cup {f}
  /\ GoTo(i, f, "locked")
  /\ UNCHANGED <<version, present, archive, loop, held, stopped, ghosts, faults>>

\* Creates the lock file exclusively.  When it exists the file is skipped.
AcquireLock(i, f) ==
  /\ job[i][f] = "queued"
  /\ \/ /\ f \notin locks
        /\ NoFault
        /\ locks' = locks \cup {f}
        /\ GoTo(i, f, "locked")
     \/ /\ \/ f \in locks /\ NoFault
           \/ f \notin locks /\ Fault
        /\ UNCHANGED locks
        /\ GoTo(i, f, "none")
  /\ UNCHANGED <<version, present, archive, loop, held, stopped, ghosts>>

ReadFile(i, f) ==
  /\ job[i][f] = "locked"
  /\ \/ /\ f \in present
        /\ NoFault
        /\ held' = [held EXCEPT ![i][f] = version[f]]
        /\ GoTo(i, f, "read")
     \/ /\ \/ f \notin present /\ NoFault
           \/ f \in present /\ Fault
        /\ UNCHANGED held
        /\ GoTo(i, f, "release")
  /\ UNCHANGED <<folder, loop, stopped, ghosts>>

\* Mutant: an error of the route is logged and the file is moved all the same.
HandleIgnoringError(i, f) ==
  /\ job[i][f] = "read"
  /\ \/ NoFault /\ delivered' = delivered \cup {<<f, held[i][f]>>}
     \/ Fault /\ UNCHANGED delivered
  /\ GoTo(i, f, IF HasOutput THEN "handled" ELSE "release")
  /\ UNCHANGED <<folder, loop, held, stopped, strayed>>

\* The route runs on what was read.  An error leaves the file in place.
Handle(i, f) ==
  /\ job[i][f] = "read"
  /\ \/ /\ NoFault
        /\ delivered' = delivered \cup {<<f, held[i][f]>>}
        /\ strayed' = strayed \ {<<f, held[i][f]>>}
        /\ GoTo(i, f, IF HasOutput THEN "handled" ELSE "release")
     \/ /\ Fault
        /\ UNCHANGED ghosts
        /\ GoTo(i, f, "release")
  /\ UNCHANGED <<folder, loop, held, stopped>>

\* Mutant: the file is copied to the output folder.
MoveFileCopying(i, f) ==
  /\ job[i][f] = "handled"
  /\ archive' = IF f \in present THEN archive \cup {<<f, version[f]>>} ELSE archive
  /\ GoTo(i, f, "release")
  /\ UNCHANGED <<version, present, locks, loop, held, stopped, ghosts, faults>>

\* Mutant: a failed move removes the source.
MoveFileLosing(i, f) ==
  /\ job[i][f] = "handled"
  /\ present' = present \ {f}
  /\ \/ /\ f \in present /\ NoFault
        /\ archive' = archive \cup {<<f, version[f]>>}
     \/ f \notin present /\ NoFault /\ UNCHANGED archive
     \/ f \in present /\ Fault /\ UNCHANGED archive
  /\ GoTo(i, f, "release")
  /\ UNCHANGED <<version, locks, loop, held, stopped, ghosts>>

\* os.Rename moves whatever the path holds now and replaces a file of the
\* same name in the output folder.
MoveFile(i, f) ==
  /\ job[i][f] = "handled"
  /\ \/ /\ f \in present
        /\ NoFault
        /\ present' = present \ {f}
        /\ archive' = {x \in archive : BaseName[x[1]] # BaseName[f]}
                        \cup {<<f, version[f]>>}
        /\ UNCHANGED strayed
     \/ /\ f \notin present
        /\ NoFault
        /\ UNCHANGED <<present, archive, strayed>>
     \/ /\ f \in present
        /\ Fault
        /\ strayed' = strayed \cup {<<f, held[i][f]>>}
        /\ UNCHANGED <<present, archive>>
  /\ GoTo(i, f, "release")
  /\ UNCHANGED <<version, locks, loop, held, stopped, delivered>>

\* Removes the lock file, whoever created it, and returns the slot.
ReleaseLock(i, f) ==
  /\ job[i][f] = "release"
  /\ \/ NoFault /\ locks' = locks \ {f}
     \/ Fault /\ UNCHANGED locks
  /\ GoTo(i, f, "none")
  /\ held' = [held EXCEPT ![i][f] = 0]
  /\ UNCHANGED <<version, present, archive, loop, stopped, ghosts>>
-----------------------------------------------------------------------------
(* The process around the starter.                                         *)

Stop(i) ==
  /\ phase[i] # "down" /\ ~stopped[i]
  /\ stopped' = [stopped EXCEPT ![i] = TRUE]
  /\ UNCHANGED <<folder, loop, work, ghosts, faults>>

\* The process dies: its goroutines vanish, its lock files stay.
Crash(i) ==
  /\ phase[i] # "down"
  /\ Fault
  /\ phase' = [phase EXCEPT ![i] = "down"]
  /\ todo' = [todo EXCEPT ![i] = {}]
  /\ below' = [below EXCEPT ![i] = FALSE]
  /\ doomed' = [doomed EXCEPT ![i] = {}]
  /\ job' = [job EXCEPT ![i] = [f \in Files |-> "none"]]
  /\ strayed' = strayed \cup
       {<<f, held[i][f]>> : f \in {g \in Files : job[i][g] = "handled"}}
  /\ held' = [held EXCEPT ![i] = [f \in Files |-> 0]]
  /\ UNCHANGED <<folder, stopped, delivered>>

Restart(i) ==
  /\ phase[i] = "down"
  /\ phase' = [phase EXCEPT ![i] = "boot"]
  /\ stopped' = [stopped EXCEPT ![i] = FALSE]
  /\ UNCHANGED <<folder, todo, below, doomed, work, ghosts, faults>>
-----------------------------------------------------------------------------
\* The goroutine that runs poll.
Poller(i) ==
  \/ ScanExisting(i)
  \/ EnterSubfolder(i)
  \/ \E e \in todo[i] : VisitGone(i, e) \/ VisitSkip(i, e)
  \/ \E f \in Files : VisitMatch(i, f) \/ TakeSlot(i, f)
  \/ Join(i)
  \/ \E f \in doomed[i] : CleanStaleLocks(i, f)
  \/ EndScan(i)
  \/ Exit(i)

\* The goroutine that runs processFile.
Worker(i, f) ==
  \/ AcquireLock(i, f)
  \/ ReadFile(i, f)
  \/ Handle(i, f)
  \/ MoveFile(i, f)
  \/ ReleaseLock(i, f)

Next ==
  \/ \E f \in Files : Write(f)
  \/ \E i \in Instances :
       \/ Poller(i)
       \/ \E f \in Files : Worker(i, f)
       \/ Stop(i)
       \/ Crash(i)
       \/ Restart(i)

Spec == Init /\ [][Next]_vars

\* The Go scheduler runs every goroutine that can run, and every handler
\* call returns.
Fairness == \A i \in Instances :
              /\ WF_vars(Poller(i))
              /\ \A f \in Files : WF_vars(Worker(i, f))

FairSpec == Spec /\ Fairness
-----------------------------------------------------------------------------
(* What the starter should guarantee.                                      *)

Typed ==
  /\ version \in [Files -> 0..MaxVersion]
  /\ present \subseteq Files
  /\ locks \subseteq Files
  /\ archive \subseteq Items
  /\ phase \in [Instances -> Phases]
  /\ todo \in [Instances -> SUBSET Entries]
  /\ below \in [Instances -> BOOLEAN]
  /\ doomed \in [Instances -> SUBSET TopFiles]
  /\ job \in [Instances -> [Files -> Steps]]
  /\ held \in [Instances -> [Files -> 0..MaxVersion]]
  /\ stopped \in [Instances -> BOOLEAN]
  /\ delivered \subseteq Items
  /\ strayed \subseteq Items
  /\ faults \in 0..MaxFaults

\* What exists, and what a goroutine has read, is a version.
Contents ==
  /\ \A f \in present : version[f] \in Versions
  /\ \A i \in Instances, f \in Files :
       job[i][f] \in {"read", "handled"} => held[i][f] \in Versions

\* Every variable has its type, and no more goroutines than the semaphore
\* has slots are between taking one and giving it back (lines 200-204).
TypeOK ==
  /\ Typed
  /\ Contents
  /\ \A i \in Instances : Cardinality(Busy(i)) <= Slots

\* Nothing reaches the output folder that the route has not accepted: the
\* file moved is the file read, although processFile holds no handle to it
\* between ReadFile and Rename (lines 291-315): "processed files are moved
\* here" (README.md:119).  It takes a path that is written again; with one
\* instance, which lets no other goroutine move it in between, a producer
\* that overwrites in place.
ArchivedWasDelivered == archive \subseteq delivered

\* A route that has accepted a version is about to see it again only if a
\* crash or a failed move has left the file behind since (lines 309-318).
RedeliveryExcused ==
  \A i \in Instances, f \in Files :
    job[i][f] = "read" /\ <<f, held[i][f]>> \in delivered
      => <<f, held[i][f]>> \in strayed

\* No lock file is removed while the goroutine that created it works on
\* the file: neither the release of another goroutine nor the clean-up
\* after a scan may do so (lines 217-237, 337-344).
LiveLocksKept ==
  \A i \in Instances, f \in Files :
    job[i][f] \in {"locked", "read", "handled", "release"} => f \in locks

\* A lock file means that one goroutine works on the file (line 321-322).
MutualExclusion ==
  \A i, j \in Instances, f \in Files :
    /\ job[i][f] \in {"locked", "read", "handled"}
    /\ job[j][f] \in {"locked", "read", "handled"}
    => i = j

\* A version once written is in the input folder or in the output folder
\* ("processed files are moved here", README.md:119), whatever crashes:
\* scans, clean-ups and moves lose no file.
NothingLost ==
  \A f \in Files, v \in Versions :
    v <= version[f] => \/ f \in present /\ v = version[f]
                       \/ <<f, v>> \in archive

Serving(i) == phase[i] \in Polling /\ ~stopped[i]

\* While an instance keeps polling, every matching file of the input
\* folder is eventually delivered and moved, even when a crash has left a
\* lock file behind: cleanStaleLocks frees it for the next scan.
TopFilesDrained ==
  (<>[](\E i \in Instances : Serving(i)))
     => \A f \in Matching \cap TopFiles : f \in present ~> f \notin present

\* No scan blocks: not on the semaphore, not in wg.Wait.
ScanEnds == \A i \in Instances : phase[i] = "walk" ~> phase[i] # "walk"

\* After Stop the poller returns, even when Stop comes in the middle of a
\* scan or of the first wait.
StopEndsPolling ==
  \A i \in Instances : stopped[i] ~> ~stopped[i] \/ phase[i] \in {"stopped", "down"}

\* The folder implements the abstract delivery specification.
Folder == INSTANCE FileDelivery
            WITH Items <- Items,
                 arrived <- {x \in Items : x[2] <= version[x[1]]},
                 delivered <- delivered,
                 archived <- archive

Delivers == Folder!Spec
=============================================================================
