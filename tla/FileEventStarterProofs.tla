----------------------- MODULE FileEventStarterProofs -----------------------
(***************************************************************************)
(* Proofs about the file_event starter, for any number of instances, files *)
(* and slots, and any failures.                                            *)
(***************************************************************************)
EXTENDS FileEventStarter, FiniteSetTheorems, TLAPS

-----------------------------------------------------------------------------
(* Types.                                                                  *)

\* A directory listing consists of entries (what os.ReadDir returns).
LEMMA ListingsAreEntries ==
  ASSUME Typed, NEW paths \in {TopFiles, SubFiles} PROVE Listing(paths) \in SUBSET Entries
BY DEF Typed, Listing, Entries

\* The steps of a goroutine keep the type of job.
LEMMA GoToTyped ==
  ASSUME job \in [Instances -> [Files -> Steps]], NEW i \in Instances, NEW f \in Files,
         NEW step \in Steps, GoTo(i, f, step)
  PROVE  job' \in [Instances -> [Files -> Steps]]
<1>1. [job[i] EXCEPT ![f] = step] \in [Files -> Steps]
  OBVIOUS
<1>2. job' = [job EXCEPT ![i] = [job[i] EXCEPT ![f] = step]]
  BY DEF GoTo
<1>3. QED
  BY <1>1, <1>2, Zenon

\* What the goroutine of a file holds is a version of that file.
LEMMA HeldTyped ==
  ASSUME held \in [Instances -> [Files -> 0..MaxVersion]], NEW i \in Instances, NEW f \in Files,
         NEW v \in 0..MaxVersion, held' = [held EXCEPT ![i][f] = v]
  PROVE  held' \in [Instances -> [Files -> 0..MaxVersion]]
<1>1. [held[i] EXCEPT ![f] = v] \in [Files -> 0..MaxVersion]
  OBVIOUS
<1>2. held' = [held EXCEPT ![i] = [held[i] EXCEPT ![f] = v]]
  OBVIOUS
<1>3. QED
  BY <1>1, <1>2, Zenon

\* Every variable keeps its type (the state processFile and poll work on).
LEMMA TypedStep ==
  ASSUME Typed, Contents, [Next]_vars PROVE Typed'
<1> USE ConfigAssumption DEF Typed, folder, loop, work, ghosts
<1>1. ASSUME NEW f \in Files, Write(f) PROVE Typed'
  BY <1>1 DEF Write
<1>2. ASSUME NEW i \in Instances, ScanExisting(i) PROVE Typed'
  <2>1. phase' \in [Instances -> Phases]
    BY <1>2 DEF ScanExisting, Phases
  <2>2. todo' \in [Instances -> SUBSET Entries] /\ below' \in [Instances -> BOOLEAN]
    <3>1. Listing(TopFiles) \in SUBSET Entries
      BY ListingsAreEntries
    <3>2. QED
      BY <1>2, <3>1, Zenon DEF ScanExisting
  <2>3. QED
    BY <1>2, <2>1, <2>2 DEF ScanExisting, Fault, NoFault
<1>3. ASSUME NEW i \in Instances, EnterSubfolder(i) PROVE Typed'
  <2>1. todo' \in [Instances -> SUBSET Entries]
    <3>1. todo[i] \cup Listing(SubFiles) \in SUBSET Entries
      BY ListingsAreEntries
    <3>2. QED
      BY <1>3, <3>1 DEF EnterSubfolder
  <2>2. below' \in [Instances -> BOOLEAN]
    BY <1>3 DEF EnterSubfolder
  <2>3. faults' \in 0..MaxFaults
    BY <1>3 DEF EnterSubfolder, Fault, NoFault
  <2>4. QED
    BY <1>3, <2>1, <2>2, <2>3 DEF EnterSubfolder
<1>4. ASSUME NEW i \in Instances, NEW e \in todo[i], VisitGone(i, e) PROVE Typed'
  BY <1>4 DEF VisitGone, Fault, NoFault
<1>5. ASSUME NEW i \in Instances, NEW e \in todo[i], VisitSkip(i, e) PROVE Typed'
  BY <1>5 DEF VisitSkip
<1>6. ASSUME NEW i \in Instances, NEW f \in Files, VisitMatch(i, f) PROVE Typed'
  <2>1. job' \in [Instances -> [Files -> Steps]]
    BY <1>6, GoToTyped DEF VisitMatch, Steps
  <2>2. QED
    BY <1>6, <2>1 DEF VisitMatch
<1>7. ASSUME NEW i \in Instances, NEW f \in Files, TakeSlot(i, f) PROVE Typed'
  <2>1. job' \in [Instances -> [Files -> Steps]]
    BY <1>7, GoToTyped DEF TakeSlot, Steps
  <2>2. QED
    BY <1>7, <2>1 DEF TakeSlot
<1>8. ASSUME NEW i \in Instances, Join(i) PROVE Typed'
  <2>1. locks \cap TopFiles \in SUBSET TopFiles
    OBVIOUS
  <2>2. doomed' \in [Instances -> SUBSET TopFiles]
    BY <1>8, <2>1 DEF Join
  <2>3. phase' \in [Instances -> Phases]
    BY <1>8 DEF Join, Phases
  <2>4. QED
    BY <1>8, <2>2, <2>3 DEF Join, Fault, NoFault
<1>9. ASSUME NEW i \in Instances, NEW f \in doomed[i], CleanStaleLocks(i, f) PROVE Typed'
  BY <1>9 DEF CleanStaleLocks, Fault, NoFault
<1>10. ASSUME NEW i \in Instances, EndScan(i) PROVE Typed'
  BY <1>10 DEF EndScan, Phases
<1>11. ASSUME NEW i \in Instances, Exit(i) PROVE Typed'
  BY <1>11 DEF Exit, Phases
<1>12. ASSUME NEW i \in Instances, NEW f \in Files, AcquireLock(i, f) PROVE Typed'
  <2>1. job' \in [Instances -> [Files -> Steps]]
    BY <1>12, GoToTyped DEF AcquireLock, Steps
  <2>2. QED
    BY <1>12, <2>1 DEF AcquireLock, Fault, NoFault
<1>13. ASSUME NEW i \in Instances, NEW f \in Files, ReadFile(i, f) PROVE Typed'
  <2>1. job' \in [Instances -> [Files -> Steps]]
    BY <1>13, GoToTyped DEF ReadFile, Steps
  <2>2. held' \in [Instances -> [Files -> 0..MaxVersion]]
    BY <1>13, HeldTyped DEF ReadFile
  <2>3. QED
    BY <1>13, <2>1, <2>2 DEF ReadFile, Fault, NoFault
<1>14. ASSUME NEW i \in Instances, NEW f \in Files, Handle(i, f) PROVE Typed'
  <2>1. job' \in [Instances -> [Files -> Steps]]
    BY <1>14, GoToTyped DEF Handle, Steps
  <2>2. <<f, held[i][f]>> \in Items
    BY <1>14 DEF Handle, Items, Contents
  <2>3. delivered' \subseteq Items /\ strayed' \subseteq Items
    BY <1>14, <2>2, Zenon DEF Handle
  <2>4. faults' \in 0..MaxFaults
    BY <1>14 DEF Handle, Fault, NoFault
  <2>5. QED
    BY <1>14, <2>1, <2>3, <2>4 DEF Handle
<1>15. ASSUME NEW i \in Instances, NEW f \in Files, MoveFile(i, f) PROVE Typed'
  <2>1. job' \in [Instances -> [Files -> Steps]]
    BY <1>15, GoToTyped DEF MoveFile, Steps
  <2>2. strayed' \subseteq Items
    BY <1>15 DEF MoveFile, Items, Contents
  <2>3. archive' \subseteq Items
    BY <1>15 DEF MoveFile, Items, Contents
  <2>4. faults' \in 0..MaxFaults
    BY <1>15 DEF MoveFile, Fault, NoFault
  <2>5. QED
    BY <1>15, <2>1, <2>2, <2>3, <2>4 DEF MoveFile
<1>16. ASSUME NEW i \in Instances, NEW f \in Files, ReleaseLock(i, f) PROVE Typed'
  <2>1. job' \in [Instances -> [Files -> Steps]]
    BY <1>16, GoToTyped DEF ReleaseLock, Steps
  <2>2. held' \in [Instances -> [Files -> 0..MaxVersion]]
    BY <1>16, HeldTyped DEF ReleaseLock
  <2>3. QED
    BY <1>16, <2>1, <2>2 DEF ReleaseLock, Fault, NoFault
<1>17. ASSUME NEW i \in Instances, Stop(i) PROVE Typed'
  BY <1>17 DEF Stop
<1>18. ASSUME NEW i \in Instances, Crash(i) PROVE Typed'
  <2>1. job' \in [Instances -> [Files -> Steps]]
    BY <1>18 DEF Crash, Steps
  <2>2. held' \in [Instances -> [Files -> 0..MaxVersion]]
    BY <1>18 DEF Crash
  <2>3. strayed' \subseteq Items
    BY <1>18 DEF Crash, Items, Contents
  <2>4. QED
    BY <1>18, <2>1, <2>2, <2>3 DEF Crash, Phases, Fault
<1>19. ASSUME NEW i \in Instances, Restart(i) PROVE Typed'
  BY <1>19 DEF Restart, Phases
<1>20. CASE UNCHANGED vars
  BY <1>20 DEF vars
<1>21. QED
  BY <1>1, <1>2, <1>3, <1>4, <1>5, <1>6, <1>7, <1>8, <1>9, <1>10, <1>11, <1>12,
     <1>13, <1>14, <1>15, <1>16, <1>17, <1>18, <1>19, <1>20 DEF Next, Poller, Worker

\* What one step of a goroutine changes: the step of its own file only.
LEMMA GoToEffect ==
  ASSUME Typed, NEW i \in Instances, NEW f \in Files, NEW step, GoTo(i, f, step)
  PROVE  /\ job'[i][f] = step
         /\ \A j \in Instances, g \in Files :
              j # i \/ g # f => job'[j][g] = job[j][g]
BY DEF GoTo, Typed

\* The steps of the poll loop that touch neither files nor goroutines, and
\* all the others.
LEMMA StepCases ==
  ASSUME [Next]_vars
  PROVE  \/ UNCHANGED <<version, present, archive, work, ghosts>>
         \/ \E f \in Files : Write(f)
         \/ \E i \in Instances, f \in Files :
              \/ VisitMatch(i, f) \/ TakeSlot(i, f) \/ AcquireLock(i, f)
              \/ ReadFile(i, f) \/ Handle(i, f) \/ MoveFile(i, f) \/ ReleaseLock(i, f)
         \/ \E i \in Instances : Crash(i)
BY Zenon DEF Next, Poller, Worker, vars, folder, loop, work, ghosts, ScanExisting,
      EnterSubfolder, VisitGone, VisitSkip, Join, CleanStaleLocks, EndScan, Exit,
      Stop, Restart

\* Files and goroutines only hold versions that have been written.
LEMMA ContentsStep ==
  ASSUME Typed, Contents, [Next]_vars PROVE Contents'
<1> USE DEF Contents
<1>1. CASE UNCHANGED <<version, present, archive, work, ghosts>>
  BY <1>1 DEF work
<1>2. ASSUME NEW f \in Files, Write(f) PROVE Contents'
  BY <1>2, ConfigAssumption DEF Write, Typed, Versions, work
<1>3. ASSUME NEW i \in Instances, NEW f \in Files,
             VisitMatch(i, f) \/ TakeSlot(i, f) \/ AcquireLock(i, f)
      PROVE  Contents'
  <2>1. PICK step \in {"waiting", "queued", "locked", "none"} : GoTo(i, f, step)
    BY <1>3 DEF VisitMatch, TakeSlot, AcquireLock
  <2>2. UNCHANGED <<version, present, held>>
    BY <1>3 DEF VisitMatch, TakeSlot, AcquireLock, folder
  <2>3. QED
    BY <2>1, <2>2, GoToEffect
<1>4. ASSUME NEW i \in Instances, NEW f \in Files, ReadFile(i, f) PROVE Contents'
  <2>1. PICK step \in Steps : GoTo(i, f, step)
    BY <1>4 DEF ReadFile, Steps
  <2>2. job'[i][f] = "read" => f \in present /\ held' = [held EXCEPT ![i][f] = version[f]]
    BY <1>4, GoToEffect DEF ReadFile
  <2>3. UNCHANGED <<version, present>> /\ job'[i][f] # "handled"
    BY <1>4, GoToEffect DEF ReadFile, folder
  <2>4. held'[i][f] = version[f] \/ job'[i][f] # "read"
    BY <2>2 DEF Typed
  <2>5. \A j \in Instances, g \in Files :
          j # i \/ g # f => held'[j][g] = held[j][g] /\ job'[j][g] = job[j][g]
    BY <1>4, <2>1, GoToEffect DEF ReadFile, Typed
  <2>6. QED
    BY <2>2, <2>3, <2>4, <2>5
<1>5. ASSUME NEW i \in Instances, NEW f \in Files, Handle(i, f) \/ MoveFile(i, f)
      PROVE  Contents'
  <2>1. PICK step \in Steps : GoTo(i, f, step)
    BY <1>5 DEF Handle, MoveFile, Steps
  <2>2. version' = version /\ present' \subseteq present /\ held' = held
    BY <1>5 DEF Handle, MoveFile, folder
  <2>3. held[i][f] \in Versions
    BY <1>5 DEF Handle, MoveFile
  <2>4. QED
    BY <2>1, <2>2, <2>3, GoToEffect
<1>6. ASSUME NEW i \in Instances, NEW f \in Files, ReleaseLock(i, f) PROVE Contents'
  <2>1. UNCHANGED <<version, present>>
    BY <1>6 DEF ReleaseLock
  <2>2. \A j \in Instances, g \in Files :
          j # i \/ g # f => held'[j][g] = held[j][g] /\ job'[j][g] = job[j][g]
    BY <1>6, GoToEffect DEF ReleaseLock, Typed
  <2>3. job'[i][f] = "none"
    BY <1>6, GoToEffect DEF ReleaseLock
  <2>4. QED
    BY <2>1, <2>2, <2>3
<1>7. ASSUME NEW i \in Instances, Crash(i) PROVE Contents'
  <2>1. UNCHANGED <<version, present>>
    BY <1>7 DEF Crash, folder
  <2>2. \A j \in Instances, g \in Files :
          /\ j # i => held'[j][g] = held[j][g] /\ job'[j][g] = job[j][g]
          /\ j = i => job'[j][g] = "none"
    BY <1>7 DEF Crash, Typed
  <2>3. QED
    BY <2>1, <2>2
<1>8. QED
  BY <1>1, <1>2, <1>3, <1>4, <1>5, <1>6, <1>7, StepCases

\* The semaphore: no step but TakeSlot adds to the goroutines that hold a
\* slot, and TakeSlot finds one free.
LEMMA SlotsStep ==
  ASSUME TypeOK, [Next]_vars, NEW j \in Instances
  PROVE  Cardinality(Busy(j))' <= Slots
<1> USE ConfigAssumption DEF TypeOK
<1>0. IsFiniteSet(Busy(j)) /\ Cardinality(Busy(j)) \in Nat
  <2>1. Busy(j) \subseteq Files
    BY DEF Busy
  <2>2. QED
    BY <2>1, FS_Subset, FS_CardinalityType
<1>1. ASSUME Busy(j)' \subseteq Busy(j) PROVE Cardinality(Busy(j))' <= Slots
  <2>1. /\ Cardinality(Busy(j)') <= Cardinality(Busy(j))
        /\ Cardinality(Busy(j)') \in Nat
    BY <1>0, <1>1, FS_Subset, FS_CardinalityType
  <2>2. QED
    BY <2>1, <1>0
<1>2. CASE UNCHANGED <<version, present, archive, work, ghosts>> \/ \E f \in Files : Write(f)
  BY <1>1, <1>2 DEF Write, Busy, work
<1>3. ASSUME NEW i \in Instances, NEW f \in Files, TakeSlot(i, f)
      PROVE  Cardinality(Busy(j))' <= Slots
  <2>1. CASE j = i
    <3>1. Busy(j)' = Busy(j) \cup {f} /\ f \notin Busy(j)
      BY <1>3, <2>1, GoToEffect DEF TakeSlot, Busy
    <3>2. Cardinality(Busy(j)') = Cardinality(Busy(j)) + 1
      BY <3>1, <1>0, FS_AddElement
    <3>3. Cardinality(Busy(j)) < Slots
      BY <1>3, <2>1 DEF TakeSlot
    <3>4. QED
      BY <3>2, <3>3, <1>0
  <2>2. CASE j # i
    BY <1>3, <2>2, <1>1, GoToEffect DEF TakeSlot, Busy
  <2>3. QED
    BY <2>1, <2>2
<1>4. ASSUME NEW i \in Instances, NEW f \in Files, VisitMatch(i, f)
      PROVE  Cardinality(Busy(j))' <= Slots
  <2>1. job'[i][f] = "waiting"
    BY <1>4, GoToEffect DEF VisitMatch
  <2>2. Busy(j)' \subseteq Busy(j)
    BY <1>4, <2>1, GoToEffect DEF VisitMatch, Busy
  <2>3. QED
    BY <2>2, <1>1
<1>5. ASSUME NEW i \in Instances, NEW f \in Files,
             \/ AcquireLock(i, f) \/ ReadFile(i, f) \/ Handle(i, f)
             \/ MoveFile(i, f) \/ ReleaseLock(i, f)
      PROVE  Cardinality(Busy(j))' <= Slots
  <2>1. f \in Busy(i)
    BY <1>5 DEF AcquireLock, ReadFile, Handle, MoveFile, ReleaseLock, Busy
  <2>2. PICK step \in Steps : GoTo(i, f, step)
    BY <1>5 DEF AcquireLock, ReadFile, Handle, MoveFile, ReleaseLock, Steps
  <2>3. Busy(j)' \subseteq Busy(j)
    BY <2>1, <2>2, GoToEffect DEF Busy
  <2>4. QED
    BY <2>3, <1>1
<1>6. ASSUME NEW i \in Instances, Crash(i) PROVE Cardinality(Busy(j))' <= Slots
  <2>1. \A g \in Files : job'[j][g] \in {job[j][g], "none"}
    BY <1>6 DEF Crash, Typed
  <2>2. Busy(j)' \subseteq Busy(j)
    BY <2>1 DEF Busy
  <2>3. QED
    BY <2>2, <1>1
<1>7. QED
  BY <1>2, <1>3, <1>4, <1>5, <1>6, StepCases

\* TypeOK holds: the types of all variables and the bound on the goroutines
\* of one starter that the semaphore enforces.
THEOREM TypeCorrect == Spec => []TypeOK
<1>1. Init => TypeOK
  <2> SUFFICES ASSUME Init PROVE TypeOK
    OBVIOUS
  <2>1. Typed
    BY ConfigAssumption DEF Init, Typed, Phases, Steps, Items, Versions, TopFiles, Entries
  <2>2. Contents
    BY DEF Init, Contents
  <2>3. ASSUME NEW i \in Instances PROVE Cardinality(Busy(i)) <= Slots
    <3>1. Busy(i) = {}
      BY DEF Init, Busy
    <3>2. QED
      BY <3>1, FS_EmptySet, ConfigAssumption
  <2>4. QED
    BY <2>1, <2>2, <2>3 DEF TypeOK
<1>2. TypeOK /\ [Next]_vars => TypeOK'
  BY TypedStep, ContentsStep, SlotsStep DEF TypeOK
<1>3. QED
  BY <1>1, <1>2, PTL DEF Spec
-----------------------------------------------------------------------------
(* Delivery before archiving.                                              *)

SingleInstance == \A i, j \in Instances : i = j

\* The uses the starter is made for: no path is written twice, or one
\* starter alone polls the folder and no path is overwritten in place.
Careful == \/ Producer = "once"
           \/ Producer = "fresh" /\ SingleInstance

\* What a goroutine holds is still what the path holds when it moves it.
\* ArchivedWasDelivered is not inductive without it: MoveFile archives the
\* current version, Handle delivered the one held.
CurrentInv ==
  /\ \A i \in Instances, f \in Files :
       job[i][f] \in {"read", "handled"} =>
         held[i][f] = version[f] /\ (SingleInstance => f \in present)
  /\ \A i \in Instances, f \in Files :
       job[i][f] = "handled" => <<f, held[i][f]>> \in delivered
  /\ ArchivedWasDelivered
  /\ \A x \in delivered : x[2] <= version[x[1]]

LEMMA CurrentStep ==
  ASSUME Careful, TypeOK, CurrentInv, [Next]_vars PROVE CurrentInv'
<1> USE DEF CurrentInv, ArchivedWasDelivered, TypeOK
<1>1. CASE UNCHANGED <<version, present, archive, work, ghosts>>
  BY <1>1 DEF work, ghosts
<1>2. ASSUME NEW f \in Files, Write(f) PROVE CurrentInv'
  <2>1. \A i \in Instances : job[i][f] \notin {"read", "handled"}
    <3>1. CASE Producer = "once"
      <4>1. version[f] = 0
        BY <1>2, <3>1 DEF Write
      <4>2. QED
        BY <4>1 DEF Contents, Versions
    <3>2. CASE Producer = "fresh" /\ SingleInstance
      <4>1. f \notin present
        BY <1>2, <3>2 DEF Write
      <4>2. QED
        BY <3>2, <4>1
    <3>3. QED
      BY <3>1, <3>2 DEF Careful
  <2>2. \A g \in Files : /\ g # f => version'[g] = version[g]
                         /\ version'[g] >= version[g] /\ version'[g] \in Nat
    BY <1>2, ConfigAssumption DEF Write, Typed
  <2>3. \A x \in delivered : x[1] \in Files /\ x[2] \in Nat
    BY DEF Typed, Items, Versions
  <2>4. /\ UNCHANGED <<archive, delivered, job, held>>
        /\ present \subseteq present'
    BY <1>2 DEF Write, work, ghosts
  <2>5. \A x \in delivered' : x[2] <= version'[x[1]]
    BY <2>2, <2>3, <2>4 DEF Typed
  <2>6. QED
    BY <2>1, <2>2, <2>4, <2>5
<1>3. ASSUME NEW i \in Instances, NEW f \in Files,
             VisitMatch(i, f) \/ TakeSlot(i, f) \/ AcquireLock(i, f)
      PROVE  CurrentInv'
  <2>1. PICK step \in {"waiting", "queued", "locked", "none"} : GoTo(i, f, step)
    BY <1>3 DEF VisitMatch, TakeSlot, AcquireLock
  <2>2. UNCHANGED <<version, present, archive, delivered, held>>
    BY <1>3 DEF VisitMatch, TakeSlot, AcquireLock, folder, ghosts
  <2>3. QED
    BY <2>1, <2>2, GoToEffect
<1>4. ASSUME NEW i \in Instances, NEW f \in Files, ReadFile(i, f) PROVE CurrentInv'
  <2>1. UNCHANGED <<version, present, archive, delivered>>
    BY <1>4 DEF ReadFile, folder, ghosts
  <2>2. \/ job'[i][f] = "read" /\ held'[i][f] = version[f] /\ f \in present
        \/ job'[i][f] = "release"
    BY <1>4, GoToEffect DEF ReadFile, Typed
  <2>3. \A j \in Instances, g \in Files :
          j # i \/ g # f => held'[j][g] = held[j][g] /\ job'[j][g] = job[j][g]
    BY <1>4, GoToEffect DEF ReadFile, Typed
  <2>4. QED
    BY <2>1, <2>2, <2>3
<1>5. ASSUME NEW i \in Instances, NEW f \in Files, Handle(i, f) PROVE CurrentInv'
  <2>1. UNCHANGED <<version, present, archive, held>> /\ delivered \subseteq delivered'
    BY <1>5 DEF Handle, folder, ghosts
  <2>2. PICK step \in {"handled", "release"} : GoTo(i, f, step)
    BY <1>5 DEF Handle
  <2>3. \A x \in delivered' : x \in delivered \/ x = <<f, held[i][f]>>
    BY <1>5 DEF Handle, ghosts
  <2>4. held[i][f] = version[f] /\ held[i][f] <= version[f]
    BY <1>5, ConfigAssumption DEF Handle, Typed
  <2>5. step = "handled" => <<f, held[i][f]>> \in delivered'
    BY <1>5, <2>2, GoToEffect DEF Handle, ghosts
  <2>6. \A x \in delivered' : x[2] <= version'[x[1]]
    BY <2>1, <2>3, <2>4
  <2>7. \A j \in Instances, g \in Files :
          job'[j][g] = "handled" => <<g, held'[j][g]>> \in delivered'
    BY <2>1, <2>2, <2>5, GoToEffect
  <2>8. \A j \in Instances, g \in Files :
          job'[j][g] \in {"read", "handled"} => job[j][g] \in {"read", "handled"}
    BY <1>5, <2>2, GoToEffect DEF Handle
  <2>9. QED
    BY <2>1, <2>6, <2>7, <2>8
<1>6. ASSUME NEW i \in Instances, NEW f \in Files, MoveFile(i, f) PROVE CurrentInv'
  <2>1. UNCHANGED <<version, delivered, held>> /\ present \ {f} \subseteq present'
    BY <1>6 DEF MoveFile
  <2>2. GoTo(i, f, "release") /\ job[i][f] = "handled"
    BY <1>6 DEF MoveFile
  <2>3. archive' \subseteq archive \cup {<<f, version[f]>>}
    BY <1>6 DEF MoveFile
  <2>4. <<f, version[f]>> \in delivered
    BY <2>2
  <2>5. \A j \in Instances, g \in Files :
          job'[j][g] \in {"read", "handled"} =>
            job[j][g] = job'[j][g] /\ (SingleInstance => g # f)
    BY <2>2, GoToEffect DEF SingleInstance
  <2>6. QED
    BY <2>1, <2>3, <2>4, <2>5
<1>7. ASSUME NEW i \in Instances, NEW f \in Files, ReleaseLock(i, f) PROVE CurrentInv'
  <2>1. UNCHANGED <<version, present, archive, delivered>>
    BY <1>7 DEF ReleaseLock, ghosts
  <2>2. \A j \in Instances, g \in Files :
          \/ held'[j][g] = held[j][g] /\ job'[j][g] = job[j][g]
          \/ job'[j][g] = "none"
    BY <1>7, GoToEffect DEF ReleaseLock, Typed
  <2>3. QED
    BY <2>1, <2>2
<1>8. ASSUME NEW i \in Instances, Crash(i) PROVE CurrentInv'
  <2>1. UNCHANGED <<version, present, archive, delivered>>
    BY <1>8 DEF Crash, folder
  <2>2. \A j \in Instances, g \in Files :
          \/ held'[j][g] = held[j][g] /\ job'[j][g] = job[j][g]
          \/ job'[j][g] = "none"
    BY <1>8 DEF Crash, Typed
  <2>3. QED
    BY <2>1, <2>2
<1>9. QED
  BY <1>1, <1>2, <1>3, <1>4, <1>5, <1>6, <1>7, <1>8, StepCases

\* Nothing is archived that the route has not accepted (processFile moves
\* only after its handler has returned without an error, and moves what it
\* read), by any number of instances when no path is written twice, and by
\* one instance when paths are reused once they are free.
THEOREM DeliveredBeforeArchived == Spec => [](Careful => ArchivedWasDelivered)
<1> DEFINE Inv == Careful => CurrentInv
<1>1. Init => Inv
  BY DEF Init, CurrentInv, ArchivedWasDelivered
<1>2. TypeOK /\ Inv /\ [Next]_vars => Inv'
  BY CurrentStep DEF Careful, SingleInstance
<1>3. Inv => (Careful => ArchivedWasDelivered)
  BY DEF CurrentInv
<1>4. QED
  BY <1>1, <1>2, <1>3, TypeCorrect, PTL DEF Spec
-----------------------------------------------------------------------------
(* Lock files of a folder that one starter polls.                          *)

\* wg.Wait keeps goroutines inside the walk, so that the clean-up of a lone
\* starter finds no lock in use.
LockInv ==
  /\ \A i \in Instances : phase[i] # "walk" => \A f \in Files : job[i][f] = "none"
  /\ SingleInstance => LiveLocksKept

LEMMA LockStep ==
  ASSUME TypeOK, LockInv, [Next]_vars PROVE LockInv'
<1> DEFINE Active == {"locked", "read", "handled", "release"}
<1> USE DEF LockInv, LiveLocksKept, TypeOK
<1>1. ASSUME UNCHANGED <<job, locks>>, phase' = phase PROVE LockInv'
  BY <1>1
<1>2. ASSUME NEW i \in Instances, UNCHANGED <<job, locks>>,
             NEW p, phase' = [phase EXCEPT ![i] = p],
             p = "walk" \/ \A f \in Files : job[i][f] = "none"
      PROVE  LockInv'
  BY <1>2 DEF Typed
<1>3. ASSUME NEW i \in Instances, NEW f \in Files, NEW step, GoTo(i, f, step),
             phase' = phase, phase[i] = "walk",
             \A g \in locks : g # f => g \in locks',
             step \in Active => f \in locks'
      PROVE  LockInv'
  <2>1. \A j \in Instances : phase'[j] # "walk" => \A g \in Files : job'[j][g] = "none"
    BY <1>3, GoToEffect
  <2>2. ASSUME SingleInstance, NEW j \in Instances, NEW g \in Files, job'[j][g] \in Active
        PROVE  g \in locks'
    <3>1. j = i
      BY <2>2 DEF SingleInstance
    <3>2. CASE g = f
      BY <1>3, <2>2, <3>1, <3>2, GoToEffect
    <3>3. CASE g # f
      BY <1>3, <2>2, <3>1, <3>3, GoToEffect
    <3>4. QED
      BY <3>2, <3>3
  <2>3. QED
    BY <2>1, <2>2
<1>4. ASSUME NEW f \in Files, Write(f) PROVE LockInv'
  BY <1>1, <1>4 DEF Write, loop, work
<1>5. ASSUME NEW i \in Instances, Poller(i) PROVE LockInv'
  <2>1. CASE ScanExisting(i)
    BY <1>2, <2>1 DEF ScanExisting, folder, work
  <2>2. CASE EnterSubfolder(i) \/ \E e \in todo[i] : VisitGone(i, e) \/ VisitSkip(i, e)
    BY <1>1, <2>2 DEF EnterSubfolder, VisitGone, VisitSkip, folder, work
  <2>3. CASE \E f \in Files : VisitMatch(i, f)
    <3>1. PICK f \in Files : VisitMatch(i, f)
      BY <2>3
    <3>2. /\ GoTo(i, f, "waiting")
          /\ phase' = phase /\ phase[i] = "walk" /\ locks' = locks
      BY <3>1 DEF VisitMatch, Visiting, folder
    <3>3. QED
      BY <1>3, <3>2
  <2>4. CASE \E f \in Files : TakeSlot(i, f)
    <3>1. PICK f \in Files : TakeSlot(i, f)
      BY <2>4
    <3>2. /\ GoTo(i, f, "queued")
          /\ phase' = phase /\ phase[i] = "walk" /\ locks' = locks
      BY <3>1 DEF TakeSlot, folder, loop
    <3>3. QED
      BY <1>3, <3>2
  <2>5. CASE Join(i)
    BY <1>2, <2>5 DEF Join, folder, work
  <2>6. CASE \E f \in doomed[i] : CleanStaleLocks(i, f)
    <3>1. PICK f \in doomed[i] : CleanStaleLocks(i, f)
      BY <2>6
    <3>2. \A g \in Files : job[i][g] = "none"
      BY <3>1 DEF CleanStaleLocks
    <3>3. SingleInstance => \A j \in Instances, g \in Files : job[j][g] = "none"
      BY <3>2 DEF SingleInstance
    <3>4. UNCHANGED <<job, phase>>
      BY <3>1 DEF CleanStaleLocks, work
    <3>5. QED
      BY <3>3, <3>4
  <2>7. CASE EndScan(i)
    BY <1>2, <2>7 DEF EndScan, folder, work
  <2>8. CASE Exit(i)
    BY <1>2, <2>8 DEF Exit, folder, work
  <2>9. QED
    BY <1>5, <2>1, <2>2, <2>3, <2>4, <2>5, <2>6, <2>7, <2>8 DEF Poller
<1>6. ASSUME NEW i \in Instances, NEW f \in Files, Worker(i, f) PROVE LockInv'
  <2>1. phase' = phase /\ job[i][f] # "none"
    BY <1>6 DEF Worker, AcquireLock, ReadFile, Handle, MoveFile, ReleaseLock, loop
  <2>2. phase[i] = "walk"
    BY <2>1
  <2>3. CASE AcquireLock(i, f)
    <3>1. \/ GoTo(i, f, "locked") /\ locks' = locks \cup {f}
          \/ GoTo(i, f, "none") /\ locks' = locks
      BY <2>3 DEF AcquireLock
    <3>2. QED
      BY <1>3, <2>1, <2>2, <3>1
  <2>4. CASE ReadFile(i, f) \/ Handle(i, f) \/ MoveFile(i, f)
    <3>1. job[i][f] \in Active /\ locks' = locks
      BY <2>4 DEF ReadFile, Handle, MoveFile, folder
    <3>2. PICK step : GoTo(i, f, step)
      BY <2>4 DEF ReadFile, Handle, MoveFile
    <3>3. ASSUME SingleInstance PROVE f \in locks'
      BY <3>1, <3>3
    <3>4. \A j \in Instances : phase'[j] # "walk" => \A g \in Files : job'[j][g] = "none"
      BY <2>1, <2>2, <3>2, GoToEffect
    <3>5. \A j \in Instances, g \in Files :
            job'[j][g] \in Active => job[j][g] \in Active
      BY <3>1, <3>2, GoToEffect
    <3>6. QED
      BY <3>1, <3>4, <3>5
  <2>5. CASE ReleaseLock(i, f)
    <3>1. GoTo(i, f, "none") /\ (locks' = locks \/ locks' = locks \ {f})
      BY <2>5 DEF ReleaseLock
    <3>2. QED
      BY <1>3, <2>1, <2>2, <3>1
  <2>6. QED
    BY <1>6, <2>3, <2>4, <2>5 DEF Worker
<1>7. ASSUME NEW i \in Instances, Stop(i) \/ Restart(i) PROVE LockInv'
  <2>1. CASE Stop(i)
    BY <1>1, <2>1 DEF Stop, folder, loop, work
  <2>2. CASE Restart(i)
    BY <1>2, <2>2 DEF Restart, folder, work
  <2>3. QED
    BY <1>7, <2>1, <2>2
<1>8. ASSUME NEW i \in Instances, Crash(i) PROVE LockInv'
  <2>1. locks' = locks
    BY <1>8 DEF Crash, folder
  <2>2. \A j \in Instances, g \in Files :
          /\ j # i => job'[j][g] = job[j][g] /\ phase'[j] = phase[j]
          /\ j = i => job'[j][g] = "none"
    BY <1>8 DEF Crash, Typed
  <2>3. QED
    BY <2>1, <2>2
<1>9. CASE UNCHANGED vars
  BY <1>1, <1>9 DEF vars, folder, loop, work
<1>10. QED
  BY <1>4, <1>5, <1>6, <1>7, <1>8, <1>9 DEF Next

\* In a folder polled by one starter, cleanStaleLocks and releaseLock never
\* remove the lock file of a goroutine that still works on its file.
THEOREM LoneStarterKeepsLocks == Spec => [](SingleInstance => LiveLocksKept)
<1>1. Init => LockInv
  BY DEF Init, LockInv, LiveLocksKept
<1>2. TypeOK /\ LockInv /\ [Next]_vars => LockInv'
  BY LockStep
<1>3. LockInv => (SingleInstance => LiveLocksKept)
  BY DEF LockInv
<1>4. QED
  BY <1>1, <1>2, <1>3, TypeCorrect, PTL DEF Spec
-----------------------------------------------------------------------------
(* The entries of a scan.                                                  *)

\* No scan visits a path twice: an entry still to visit, or still to be
\* listed in the subfolder, has no goroutine yet.  This is why one job per
\* instance and path is enough.
ScanInv ==
  \A i \in Instances, f \in Files :
    /\ <<"file", f>> \in todo[i] => job[i][f] = "none" /\ (f \in SubFiles => ~below[i])
    /\ f \in SubFiles /\ below[i] => job[i][f] = "none"

LEMMA ScanStep ==
  ASSUME TypeOK, LockInv, ScanInv, [Next]_vars PROVE ScanInv'
<1> USE DEF ScanInv, TypeOK
<1>1. ASSUME NEW i \in Instances, UNCHANGED <<job, below>>,
             NEW T, T \subseteq todo[i], todo' = [todo EXCEPT ![i] = T]
      PROVE  ScanInv'
  BY <1>1 DEF Typed
<1>2. ASSUME UNCHANGED <<todo, below>>, NEW i \in Instances, NEW f \in Files, NEW step,
             GoTo(i, f, step), job[i][f] # "none"
      PROVE  ScanInv'
  <2>1. /\ <<"file", f>> \notin todo[i]
        /\ ~(f \in SubFiles /\ below[i])
    BY <1>2
  <2>2. \A j \in Instances, g \in Files : j # i \/ g # f => job'[j][g] = job[j][g]
    BY <1>2, GoToEffect
  <2>3. QED
    BY <1>2, <2>1, <2>2
<1>3. ASSUME UNCHANGED <<todo, below, job>> PROVE ScanInv'
  BY <1>3
<1>4. ASSUME NEW f \in Files, Write(f) PROVE ScanInv'
  BY <1>3, <1>4 DEF Write, loop, work
<1>5. ASSUME NEW i \in Instances, ScanExisting(i) PROVE ScanInv'
  <2>1. \A f \in Files : job'[i][f] = "none"
    BY <1>5 DEF ScanExisting, LockInv, work
  <2>3. \A f \in SubFiles : <<"file", f>> \in todo'[i] => ~below'[i]
    <3>1. CASE UNCHANGED <<todo, below>>
      BY <3>1, ConfigAssumption
    <3>2. CASE todo' = [todo EXCEPT ![i] = Listing(TopFiles)]
      BY <3>2 DEF Typed, Listing, TopFiles
    <3>3. QED
      BY <1>5, <3>1, <3>2 DEF ScanExisting
  <2>4. \A j \in Instances : j # i =>
          todo'[j] = todo[j] /\ below'[j] = below[j] /\ job'[j] = job[j]
    BY <1>5 DEF ScanExisting, Typed, work
  <2>5. QED
    BY <2>1, <2>3, <2>4
<1>6. ASSUME NEW i \in Instances, EnterSubfolder(i) PROVE ScanInv'
  <2>1. \A f \in Files : <<"file", f>> \in todo'[i] => <<"file", f>> \in todo[i] \/ f \in SubFiles
    BY <1>6 DEF EnterSubfolder, Typed, Listing
  <2>2. ~below'[i] /\ below[i] /\ job' = job
    BY <1>6 DEF EnterSubfolder, Typed, work
  <2>3. \A j \in Instances : j # i => todo'[j] = todo[j] /\ below'[j] = below[j]
    BY <1>6 DEF EnterSubfolder, Typed
  <2>4. QED
    BY <2>1, <2>2, <2>3
<1>7. ASSUME NEW i \in Instances, NEW e \in todo[i], VisitGone(i, e) \/ VisitSkip(i, e)
      PROVE  ScanInv'
  <2>1. PICK T \in {todo[i] \ {e}, {}} : todo' = [todo EXCEPT ![i] = T]
    BY <1>7 DEF VisitGone, VisitSkip
  <2>2. T \subseteq todo[i] /\ UNCHANGED <<job, below>>
    BY <1>7 DEF VisitGone, VisitSkip, work
  <2>3. QED
    BY <1>1, <2>1, <2>2
<1>8. ASSUME NEW i \in Instances, NEW f \in Files, VisitMatch(i, f) PROVE ScanInv'
  <2>1. /\ <<"file", f>> \in todo[i] /\ <<"file", f>> \notin todo'[i]
        /\ todo'[i] \subseteq todo[i] /\ below' = below
    BY <1>8 DEF VisitMatch, Visiting, Typed
  <2>2. \A j \in Instances : j # i => todo'[j] = todo[j]
    BY <1>8 DEF VisitMatch, Typed
  <2>3. \A j \in Instances, g \in Files : j # i \/ g # f => job'[j][g] = job[j][g]
    BY <1>8, GoToEffect DEF VisitMatch
  <2>4. QED
    BY <2>1, <2>2, <2>3
<1>9. ASSUME NEW i \in Instances, NEW f \in Files, TakeSlot(i, f) \/ Worker(i, f)
      PROVE  ScanInv'
  <2>1. UNCHANGED <<todo, below>> /\ job[i][f] # "none"
    BY <1>9 DEF TakeSlot, Worker, AcquireLock, ReadFile, Handle, MoveFile, ReleaseLock, loop
  <2>2. PICK step : GoTo(i, f, step)
    BY <1>9 DEF TakeSlot, Worker, AcquireLock, ReadFile, Handle, MoveFile, ReleaseLock
  <2>3. QED
    BY <1>2, <2>1, <2>2
<1>10. ASSUME NEW i \in Instances,
              \/ Join(i) \/ (\E f \in doomed[i] : CleanStaleLocks(i, f))
              \/ EndScan(i) \/ Exit(i) \/ Stop(i) \/ Restart(i)
       PROVE  ScanInv'
  BY <1>3, <1>10 DEF Join, CleanStaleLocks, EndScan, Exit, Stop, Restart, loop, work
<1>11. ASSUME NEW i \in Instances, Crash(i) PROVE ScanInv'
  <2>1. todo'[i] = {} /\ ~below'[i]
    BY <1>11 DEF Crash, Typed
  <2>2. \A j \in Instances : j # i =>
          todo'[j] = todo[j] /\ below'[j] = below[j] /\ job'[j] = job[j]
    BY <1>11 DEF Crash, Typed
  <2>3. QED
    BY <2>1, <2>2
<1>12. CASE UNCHANGED vars
  BY <1>3, <1>12 DEF vars, loop, work
<1>13. QED
  BY <1>4, <1>5, <1>6, <1>7, <1>8, <1>9, <1>10, <1>11, <1>12 DEF Next, Poller

-----------------------------------------------------------------------------
(* Redelivery by one starter with an output folder.                        *)

\* One starter moves its files and no path is overwritten in place.
LoneMover == SingleInstance /\ HasOutput /\ Producer # "rewrite"

\* A version that was accepted and is still in the input folder is either
\* about to be moved or was left behind by a failure.
StrayInv ==
  \A f \in present :
    \/ <<f, version[f]>> \notin delivered
    \/ <<f, version[f]>> \in strayed
    \/ \E i \in Instances : job[i][f] = "handled"

LEMMA StrayStep ==
  ASSUME LoneMover, TypeOK, ScanInv, CurrentInv, StrayInv, [Next]_vars PROVE StrayInv'
<1> USE DEF StrayInv, TypeOK
<1>1. CASE UNCHANGED <<version, present, archive, work, ghosts>>
  BY <1>1 DEF work, ghosts
<1>2. ASSUME NEW f \in Files, Write(f) PROVE StrayInv'
  <2>1. <<f, version[f] + 1>> \notin delivered
    BY ConfigAssumption DEF CurrentInv, Typed
  <2>2. /\ version'[f] = version[f] + 1
        /\ \A g \in Files : g # f => version'[g] = version[g]
    BY <1>2 DEF Write, Typed
  <2>3. UNCHANGED <<job, delivered, strayed>> /\ present' = present \cup {f}
    BY <1>2 DEF Write, work, ghosts
  <2>4. QED
    BY <2>1, <2>2, <2>3 DEF Typed
<1>3. ASSUME NEW i \in Instances, NEW f \in Files,
             \/ VisitMatch(i, f) \/ TakeSlot(i, f) \/ AcquireLock(i, f)
             \/ ReadFile(i, f) \/ ReleaseLock(i, f)
      PROVE  StrayInv'
  <2>1. PICK step \in Steps : GoTo(i, f, step)
    BY <1>3 DEF VisitMatch, TakeSlot, AcquireLock, ReadFile, ReleaseLock, Steps
  <2>2. job[i][f] # "handled"
    BY <1>3 DEF VisitMatch, TakeSlot, AcquireLock, ReadFile, ReleaseLock, Visiting, ScanInv
  <2>3. UNCHANGED <<version, present, delivered, strayed>>
    BY <1>3 DEF VisitMatch, TakeSlot, AcquireLock, ReadFile, ReleaseLock, folder, ghosts
  <2>4. \A j \in Instances, g \in Files :
          job[j][g] = "handled" => job'[j][g] = "handled"
    BY <2>1, <2>2, GoToEffect
  <2>5. QED
    BY <2>3, <2>4 DEF Typed
<1>4. ASSUME NEW i \in Instances, NEW f \in Files, Handle(i, f) PROVE StrayInv'
  <2>1. UNCHANGED <<version, present>> /\ job[i][f] = "read"
    BY <1>4 DEF Handle, folder
  <2>2. PICK step \in {"handled", "release"} : GoTo(i, f, step)
    BY <1>4 DEF Handle
  <2>3. CASE step = "handled"
    <3>1. job'[i][f] = "handled"
      BY <2>2, <2>3, GoToEffect
    <3>2. \A g \in Files : g # f =>
            /\ <<g, version[g]>> \in delivered' => <<g, version[g]>> \in delivered
            /\ <<g, version[g]>> \in strayed => <<g, version[g]>> \in strayed'
      BY <1>4 DEF Handle, ghosts
    <3>3. \A j \in Instances, g \in Files :
            job[j][g] = "handled" => job'[j][g] = "handled"
      BY <2>1, <2>2, <2>3, GoToEffect
    <3>4. QED
      BY <2>1, <3>1, <3>2, <3>3 DEF Typed
  <2>4. CASE step = "release"
    <3>1. UNCHANGED <<delivered, strayed>>
      BY <1>4, <2>2, <2>4, GoToEffect DEF Handle, LoneMover, ghosts
    <3>2. \A j \in Instances, g \in Files :
            job[j][g] = "handled" => job'[j][g] = "handled"
      BY <2>1, <2>2, GoToEffect
    <3>3. QED
      BY <2>1, <3>1, <3>2 DEF Typed
  <2>5. QED
    BY <2>2, <2>3, <2>4
<1>5. ASSUME NEW i \in Instances, NEW f \in Files, MoveFile(i, f) PROVE StrayInv'
  <2>1. UNCHANGED <<version, delivered>> /\ present' \subseteq present /\ strayed \subseteq strayed'
    BY <1>5 DEF MoveFile
  <2>2. f \in present' => <<f, version[f]>> \in strayed'
    BY <1>5 DEF MoveFile, CurrentInv
  <2>3. \A j \in Instances, g \in Files : g # f => job'[j][g] = job[j][g]
    BY <1>5, GoToEffect DEF MoveFile
  <2>4. QED
    BY <2>1, <2>2, <2>3 DEF Typed
<1>6. ASSUME NEW i \in Instances, Crash(i) PROVE StrayInv'
  <2>1. UNCHANGED <<version, present, delivered>> /\ strayed \subseteq strayed'
    BY <1>6 DEF Crash, folder
  <2>2. \A g \in Files : job[i][g] = "handled" => <<g, version[g]>> \in strayed'
    BY <1>6 DEF Crash, CurrentInv
  <2>3. \A j \in Instances, g \in Files : job[j][g] = "handled" => j = i
    BY DEF LoneMover, SingleInstance
  <2>4. QED
    BY <2>1, <2>2, <2>3 DEF Typed
<1>7. QED
  BY <1>1, <1>2, <1>3, <1>4, <1>5, <1>6, StepCases

\* One starter hands a version to the route a second time only when a
\* failure after the route's success has kept it from moving the file.
THEOREM LoneStarterRedeliversOnlyStrays == Spec => [](LoneMover => RedeliveryExcused)
<1> DEFINE Inv == LockInv /\ ScanInv /\ (LoneMover => CurrentInv /\ StrayInv)
<1>1. Init => Inv
  BY DEF Init, LockInv, LiveLocksKept, ScanInv, CurrentInv, StrayInv, ArchivedWasDelivered
<1>2. TypeOK /\ Inv /\ [Next]_vars => Inv'
  <2> SUFFICES ASSUME TypeOK, Inv, [Next]_vars PROVE Inv'
    OBVIOUS
  <2>1. LockInv' /\ ScanInv'
    BY LockStep, ScanStep
  <2>2. LoneMover => Careful
    BY ConfigAssumption DEF LoneMover, Careful
  <2>3. LoneMover => CurrentInv' /\ StrayInv'
    BY <2>2, CurrentStep, StrayStep
  <2>4. QED
    BY <2>1, <2>3 DEF LoneMover, SingleInstance
<1>3. Inv => (LoneMover => RedeliveryExcused)
  <2> SUFFICES ASSUME LoneMover, CurrentInv, StrayInv,
                      NEW i \in Instances, NEW f \in Files, job[i][f] = "read",
                      <<f, held[i][f]>> \in delivered
               PROVE  <<f, held[i][f]>> \in strayed
    BY DEF RedeliveryExcused
  <2>1. held[i][f] = version[f] /\ f \in present
    BY DEF CurrentInv, LoneMover
  <2>2. \A j \in Instances : job[j][f] # "handled"
    BY DEF LoneMover, SingleInstance
  <2>3. QED
    BY <2>1, <2>2 DEF StrayInv
<1>4. QED
  BY <1>1, <1>2, <1>3, TypeCorrect, PTL DEF Spec
-----------------------------------------------------------------------------
(* The folder implements FileDelivery.                                     *)

\* No path is written twice and no two paths share a name.
WrittenOnce == /\ Producer = "once"
               /\ \A f, g \in Files : BaseName[f] = BaseName[g] => f = g

OnceInv == WrittenOnce => CurrentInv /\ \A f \in Files : version[f] <= 1

LEMMA OnceStep == ASSUME TypeOK, OnceInv, [Next]_vars PROVE OnceInv'
<1> SUFFICES ASSUME WrittenOnce PROVE (CurrentInv /\ \A f \in Files : version[f] <= 1)'
  BY DEF OnceInv, WrittenOnce
<1>1. CurrentInv'
  BY CurrentStep DEF OnceInv, WrittenOnce, Careful
<1>2. version' = version \/ \E f \in Files : version[f] = 0 /\ version' = [version EXCEPT ![f] = @ + 1]
  <2>1. ASSUME NEW f \in Files, Write(f)
        PROVE  version[f] = 0 /\ version' = [version EXCEPT ![f] = @ + 1]
    BY <2>1 DEF Write, WrittenOnce
  <2>2. ASSUME NEW i \in Instances, NEW f \in Files,
               \/ VisitMatch(i, f) \/ TakeSlot(i, f) \/ AcquireLock(i, f) \/ ReadFile(i, f)
               \/ Handle(i, f) \/ MoveFile(i, f) \/ ReleaseLock(i, f)
        PROVE  version' = version
    BY <2>2 DEF VisitMatch, TakeSlot, AcquireLock, ReadFile, Handle, MoveFile, ReleaseLock,
                folder
  <2>3. ASSUME NEW i \in Instances, Crash(i) PROVE version' = version
    BY <2>3 DEF Crash, folder
  <2>4. QED
    BY <2>1, <2>2, <2>3, StepCases
<1>3. QED
  BY <1>1, <1>2 DEF OnceInv, TypeOK, Typed

LEMMA FolderStep ==
  ASSUME WrittenOnce, TypeOK, OnceInv, [Next]_vars PROVE [Folder!Next]_(Folder!vars)
<1> DEFINE Arrived == {x \in Items : x[2] <= version[x[1]]}
<1> USE DEF OnceInv, TypeOK
<1>1. ASSUME UNCHANGED <<version, delivered, archive>> PROVE UNCHANGED Folder!vars
  BY <1>1 DEF Folder!vars
<1>2. ASSUME NEW f \in Files, Write(f) PROVE Folder!Next
  <2>1. version[f] = 0 /\ version' = [version EXCEPT ![f] = 1]
    <3>1. version[f] = 0 /\ version' = [version EXCEPT ![f] = version[f] + 1]
      BY <1>2 DEF Write, WrittenOnce
    <3>2. QED
      BY <3>1
  <2>2. <<f, 1>> \in Items
    BY ConfigAssumption DEF Items, Versions
  <2>3. \A x \in Items : x = <<f, 1>> \/ (x \in Arrived' <=> x \in Arrived)
    BY <2>1, ConfigAssumption DEF Items, Versions, Typed
  <2>4. <<f, 1>> \in Arrived' /\ <<f, 1>> \notin Arrived
    BY <2>1, <2>2 DEF Typed
  <2>5. Arrived' = Arrived \cup {<<f, 1>>}
    BY <2>3, <2>4 DEF Items
  <2>6. UNCHANGED <<delivered, archive>>
    BY <1>2 DEF Write, ghosts
  <2>7. Folder!Arrive(<<f, 1>>)
    BY <2>4, <2>5, <2>6 DEF Folder!Arrive
  <2>8. QED
    BY <2>2, <2>7 DEF Folder!Next
<1>3. ASSUME NEW i \in Instances, NEW f \in Files, Handle(i, f)
      PROVE  Folder!Next \/ UNCHANGED Folder!vars
  <2> DEFINE x == <<f, held[i][f]>>
  <2>1. UNCHANGED <<version, archive>>
    BY <1>3 DEF Handle, folder
  <2>2. delivered' = delivered \/ delivered' = delivered \cup {x}
    BY <1>3 DEF Handle, ghosts
  <2>3. x \in Items /\ x \in Arrived
    BY <1>3 DEF Handle, Contents, CurrentInv, Items, Versions, Typed
  <2>4. CASE delivered' = delivered \cup {x} /\ x \notin delivered
    <3>1. Folder!Deliver(x)
      BY <2>1, <2>3, <2>4 DEF Folder!Deliver
    <3>2. QED
      BY <2>3, <3>1 DEF Folder!Next
  <2>5. CASE delivered' = delivered
    BY <2>1, <2>5, <1>1
  <2>6. QED
    BY <2>2, <2>4, <2>5
<1>4. ASSUME NEW i \in Instances, NEW f \in Files, MoveFile(i, f)
      PROVE  Folder!Next \/ UNCHANGED Folder!vars
  <2> DEFINE x == <<f, version[f]>>
  <2>1. UNCHANGED <<version, delivered>>
    BY <1>4 DEF MoveFile
  <2>2. x \in Items /\ x \in delivered
    BY <1>4 DEF MoveFile, Contents, CurrentInv, Items
  <2>3. \A y \in archive : BaseName[y[1]] = BaseName[f] => y = x
    <3> SUFFICES ASSUME NEW y \in archive, BaseName[y[1]] = BaseName[f] PROVE y = x
      OBVIOUS
    <3>1. y \in Items /\ y \in delivered
      BY DEF Typed, CurrentInv, ArchivedWasDelivered
    <3>2. y[1] = f
      BY <3>1 DEF Items, WrittenOnce
    <3>3. y[2] <= version[f] /\ version[f] <= 1 /\ version[f] \in Nat
      BY <3>1, <3>2, ConfigAssumption DEF CurrentInv, Typed
    <3>4. y[2] = version[f]
      BY <3>1, <3>3 DEF Items, Versions
    <3>5. QED
      BY <3>1, <3>2, <3>4 DEF Items
  <2>4. archive' = archive \/ archive' = archive \cup {x}
    BY <1>4, <2>3 DEF MoveFile
  <2>5. CASE archive' = archive \cup {x} /\ x \notin archive
    <3>1. Folder!Archive(x)
      BY <2>1, <2>2, <2>5 DEF Folder!Archive
    <3>2. QED
      BY <2>2, <3>1 DEF Folder!Next
  <2>6. CASE archive' = archive
    BY <2>1, <2>6, <1>1
  <2>7. QED
    BY <2>4, <2>5, <2>6
<1>5. ASSUME NEW i \in Instances, NEW f \in Files,
             \/ VisitMatch(i, f) \/ TakeSlot(i, f) \/ AcquireLock(i, f)
             \/ ReadFile(i, f) \/ ReleaseLock(i, f)
      PROVE  UNCHANGED Folder!vars
  BY <1>1, <1>5 DEF VisitMatch, TakeSlot, AcquireLock, ReadFile, ReleaseLock, folder, ghosts
<1>6. ASSUME NEW i \in Instances, Crash(i) PROVE UNCHANGED Folder!vars
  BY <1>1, <1>6 DEF Crash, folder
<1>7. CASE UNCHANGED <<version, present, archive, work, ghosts>>
  BY <1>1, <1>7 DEF ghosts
<1>8. QED
  BY <1>2, <1>3, <1>4, <1>5, <1>6, <1>7, StepCases

\* However many instances poll a folder and however they fail, steal locks
\* or deliver twice, the folder does what FileDelivery promises: files are
\* delivered after they arrived, archived after they were delivered, and
\* kept (moveFile overwrites nothing when names differ).
THEOREM FolderDelivers == ASSUME WrittenOnce PROVE Spec => Delivers
<1>1. Init => Folder!Init
  <2> SUFFICES ASSUME Init PROVE Folder!Init
    OBVIOUS
  <2>1. {x \in Items : x[2] <= version[x[1]]} = {}
    BY DEF Init, Items, Versions
  <2>2. QED
    BY <2>1 DEF Init, Folder!Init
<1>2. Init => OnceInv
  BY DEF Init, OnceInv, CurrentInv, ArchivedWasDelivered
<1>3. TypeOK /\ OnceInv /\ [Next]_vars => OnceInv'
  BY OnceStep
<1>4. TypeOK /\ OnceInv /\ [Next]_vars => [Folder!Next]_(Folder!vars)
  BY FolderStep
<1>5. QED
  BY <1>1, <1>2, <1>3, <1>4, TypeCorrect, PTL DEF Spec, Delivers, Folder!Spec
-----------------------------------------------------------------------------
(* Nothing gets lost.                                                      *)

\* One version of a file is all there is to be kept.
KeptInv ==
  /\ \A f \in Files : version[f] <= 1
  /\ \A x \in archive : x[2] = 1
  /\ NothingLost

\* A move into the output folder replaces nothing but the file itself.
LEMMA MoveKeeps ==
  ASSUME WrittenOnce, TypeOK, KeptInv, NEW i \in Instances, NEW f \in Files, MoveFile(i, f)
  PROVE  /\ archive \subseteq archive'
         /\ \A x \in archive' : x \in archive \/ x = <<f, 1>>
         /\ \A g \in present \ present' : <<g, version[g]>> \in archive'
<1>1. CASE UNCHANGED <<present, archive>>
  BY <1>1
<1>2. CASE /\ f \in present
           /\ present' = present \ {f}
           /\ archive' = {x \in archive : BaseName[x[1]] # BaseName[f]}
                           \cup {<<f, version[f]>>}
  <2>1. version[f] = 1
    BY <1>2, ConfigAssumption DEF TypeOK, Typed, Contents, Versions, KeptInv
  <2>2. ASSUME NEW x \in archive, BaseName[x[1]] = BaseName[f] PROVE x = <<f, 1>>
    <3>1. x = <<x[1], x[2]>> /\ x[1] \in Files
      BY DEF TypeOK, Typed, Items
    <3>2. x[1] = f /\ x[2] = 1
      BY <2>2, <3>1 DEF WrittenOnce, KeptInv
    <3>3. QED
      BY <3>1, <3>2
  <2>3. QED
    BY <1>2, <2>1, <2>2
<1>3. QED
  BY <1>1, <1>2 DEF MoveFile

LEMMA KeptStep ==
  ASSUME WrittenOnce, TypeOK, KeptInv, [Next]_vars
  PROVE  KeptInv' /\ archive \subseteq archive'
<1> USE DEF KeptInv, NothingLost, Versions
<1>1. CASE UNCHANGED <<version, present, archive>>
  BY <1>1
<1>2. ASSUME NEW f \in Files, Write(f) PROVE KeptInv' /\ archive \subseteq archive'
  <2>1. version[f] = 0 /\ present' = present \cup {f} /\ archive' = archive
    BY <1>2 DEF Write, WrittenOnce
  <2>2. version'[f] = 1 /\ \A g \in Files : g # f => version'[g] = version[g]
    BY <1>2, <2>1 DEF Write, TypeOK, Typed
  <2>3. QED
    BY <2>1, <2>2, ConfigAssumption DEF TypeOK, Typed
<1>3. ASSUME NEW i \in Instances, NEW f \in Files, MoveFile(i, f)
      PROVE  KeptInv' /\ archive \subseteq archive'
  <2>1. version' = version /\ present' \subseteq present
    BY <1>3 DEF MoveFile
  <2>2. \A x \in archive' : x[2] = 1
    BY <1>3, MoveKeeps
  <2>3. QED
    BY <1>3, <2>1, <2>2, MoveKeeps
<1>4. CASE \E i \in Instances, f \in Files :
             \/ VisitMatch(i, f) \/ TakeSlot(i, f) \/ AcquireLock(i, f)
             \/ ReadFile(i, f) \/ Handle(i, f) \/ ReleaseLock(i, f)
  BY <1>1, <1>4 DEF VisitMatch, TakeSlot, AcquireLock, ReadFile, Handle, ReleaseLock, folder
<1>5. CASE \E i \in Instances : Crash(i)
  BY <1>1, <1>5 DEF Crash, folder
<1>6. QED
  BY <1>1, <1>2, <1>3, <1>4, <1>5, StepCases

LEMMA AlwaysKept ==
  ASSUME WrittenOnce PROVE Spec => [](TypeOK /\ KeptInv)
<1>1. Init => KeptInv
  BY DEF Init, KeptInv, NothingLost, Versions
<1>2. TypeOK /\ KeptInv /\ [Next]_vars => KeptInv'
  BY KeptStep
<1>3. QED
  BY <1>1, <1>2, TypeCorrect, PTL DEF Spec

\* Whatever crashes, a file is in the input folder or in the output folder.
THEOREM FilesAreKept ==
  ASSUME WrittenOnce PROVE Spec => []NothingLost
<1>1. KeptInv => NothingLost
  BY DEF KeptInv
<1>2. QED
  BY <1>1, AlwaysKept, PTL

-----------------------------------------------------------------------------
(* How a scan, and a stopped poller, come to an end.                       *)

\* While the subfolder is still to be entered none of its entries is listed.
BelowInv == \A i \in Instances : below[i] => \A e \in todo[i] : e[2] \notin SubFiles

LEMMA BelowStep ==
  ASSUME Typed, ScanInv, BelowInv, [Next]_vars PROVE BelowInv'
<1> USE DEF BelowInv, Typed
<1>1. ASSUME UNCHANGED <<todo, below>> PROVE BelowInv'
  BY <1>1
<1>2. ASSUME NEW i \in Instances, ScanExisting(i) PROVE BelowInv'
  <2>1. CASE UNCHANGED <<todo, below>>
    BY <1>1, <2>1
  <2>2. CASE /\ todo' = [todo EXCEPT ![i] = Listing(TopFiles)]
             /\ below' = [below EXCEPT ![i] = CheckSubfolders]
    <3>1. \A e \in Listing(TopFiles) : e[2] \notin SubFiles
      BY DEF Listing, TopFiles
    <3>2. QED
      BY <2>2, <3>1
  <2>3. QED
    BY <1>2, <2>1, <2>2 DEF ScanExisting
<1>3. ASSUME NEW i \in Instances, EnterSubfolder(i) \/ Crash(i) PROVE BelowInv'
  <2>1. ~below'[i] /\ \A j \in Instances : j # i => todo'[j] = todo[j] /\ below'[j] = below[j]
    BY <1>3 DEF EnterSubfolder, Crash
  <2>2. QED
    BY <2>1
<1>4. ASSUME NEW i \in Instances,
             \/ \E e \in todo[i] : VisitGone(i, e) \/ VisitSkip(i, e)
             \/ \E f \in Files : VisitMatch(i, f)
      PROVE  BelowInv'
  <2>1. \E e \in todo[i] : todo' = [todo EXCEPT ![i] = @ \ {e}] \/ todo' = [todo EXCEPT ![i] = {}]
    BY <1>4 DEF VisitGone, VisitSkip, VisitMatch, Visiting
  <2>2. below' = below
    BY <1>4, Zenon DEF VisitGone, VisitSkip, VisitMatch
  <2>3. QED
    BY <2>1, <2>2
<1>5. ASSUME NEW i \in Instances,
             \/ \E f \in Files : TakeSlot(i, f) \/ Worker(i, f)
             \/ Join(i) \/ (\E f \in doomed[i] : CleanStaleLocks(i, f))
             \/ EndScan(i) \/ Exit(i) \/ Stop(i) \/ Restart(i)
      PROVE  UNCHANGED <<todo, below>>
  BY <1>5, Zenon DEF TakeSlot, Worker, AcquireLock, ReadFile, Handle, MoveFile, ReleaseLock, Join,
     CleanStaleLocks, EndScan, Exit, Stop, Restart, loop
<1>6. (\E f \in Files : Write(f)) \/ UNCHANGED vars => UNCHANGED <<todo, below>>
  BY Zenon DEF Write, vars, loop
<1> HIDE DEF BelowInv
<1>7. QED
  BY <1>1, <1>2, <1>3, <1>4, <1>5, <1>6, Zenon DEF Next, Poller

\* The directory entries a scan may still come to, and the steps a goroutine
\* may still take.
ToCome(i) == todo[i] \cup (IF below[i] THEN {"file", "lock"} \X SubFiles ELSE {})
StepsLeft == [ waiting |-> 6, queued |-> 5, locked |-> 4, read |-> 3, handled |-> 2,
               release |-> 1, none |-> 0 ]

Starts(i, f) == job[i][f] = "none" /\ job'[i][f] = "waiting"
Proceeds(i, f) == StepsLeft[job'[i][f]] < StepsLeft[job[i][f]]
Works(i) == Poller(i) \/ \E f \in Files : Worker(i, f)

\* Within a scan the entries to come only become fewer, a goroutine starts
\* only for an entry that is then behind, and goes on only forward; and
\* each step of the poller or of a goroutine does one of these.
Nearer(i) ==
  /\ ToCome(i)' \subseteq ToCome(i)
  /\ below'[i] => below[i]
  /\ \A f \in Files : \/ job'[i][f] = job[i][f] \/ Proceeds(i, f)
                      \/ Starts(i, f) /\ <<"file", f>> \in ToCome(i) \ ToCome(i)'
  /\ Works(i) => \/ ToCome(i)' # ToCome(i) \/ below'[i] # below[i]
                 \/ \E f \in Files : Proceeds(i, f)

\* A scan that goes on comes nearer to its end.
ScanNearsEnd ==
  \A i \in Instances : phase[i] = "walk" /\ phase'[i] = "walk" => Nearer(i)

\* A step of the walk that visits an entry has one entry less to come.
LEMMA VisitLeaves ==
  ASSUME Typed, BelowInv, NEW i \in Instances, NEW e \in todo[i],
         \/ VisitGone(i, e) \/ VisitSkip(i, e)
         \/ \E f \in Files : e = <<"file", f>> /\ VisitMatch(i, f)
  PROVE  /\ ToCome(i)' \subseteq ToCome(i) \ {e} /\ e \in ToCome(i)
         /\ below'[i] = below[i]
<1>1. /\ below' = below
      /\ todo' = [todo EXCEPT ![i] = @ \ {e}] \/ todo' = [todo EXCEPT ![i] = {}]
  BY DEF VisitGone, VisitSkip, VisitMatch
<1>2. todo'[i] \subseteq todo[i] \ {e}
  BY <1>1 DEF Typed
<1>3. below[i] => e \notin {"file", "lock"} \X SubFiles
  BY DEF BelowInv
<1>4. QED
  BY <1>1, <1>2, <1>3 DEF ToCome

\* The steps of a goroutine go forward, each in its own file.
LEMMA WorkerProceeds ==
  ASSUME Typed, NEW i \in Instances, NEW f \in Files, TakeSlot(i, f) \/ Worker(i, f)
  PROVE  /\ UNCHANGED <<todo, below, phase>> /\ Proceeds(i, f)
         /\ \A j \in Instances, g \in Files : j # i \/ g # f => job'[j][g] = job[j][g]
<1>1. \E step : /\ GoTo(i, f, step)
                /\ \/ job[i][f] = "waiting" /\ step = "queued"
                   \/ job[i][f] = "queued" /\ step \in {"locked", "none"}
                   \/ job[i][f] = "locked" /\ step \in {"read", "release"}
                   \/ job[i][f] = "read" /\ step \in {"handled", "release"}
                   \/ job[i][f] = "handled" /\ step = "release"
                   \/ job[i][f] = "release" /\ step = "none"
  BY DEF TakeSlot, Worker, AcquireLock, ReadFile, Handle, MoveFile, ReleaseLock
<1>2. UNCHANGED <<todo, below, phase>>
  BY DEF TakeSlot, Worker, AcquireLock, ReadFile, Handle, MoveFile, ReleaseLock, loop
<1>3. QED
  BY <1>1, <1>2, GoToEffect DEF Proceeds, StepsLeft

LEMMA NearerStep ==
  ASSUME Typed, ScanInv, BelowInv, [Next]_vars PROVE ScanNearsEnd
<1> SUFFICES ASSUME NEW i \in Instances, phase[i] = "walk", phase'[i] = "walk" PROVE Nearer(i)
  BY DEF ScanNearsEnd
<1>1. ASSUME todo'[i] = todo[i], below'[i] = below[i], job'[i] = job[i], ~Works(i)
      PROVE  Nearer(i)
  BY <1>1 DEF Nearer, ToCome
<1>2. ASSUME EnterSubfolder(i) PROVE Nearer(i)
  <2>1. below[i] /\ ~below'[i] /\ job' = job /\ todo'[i] \subseteq todo[i] \cup Listing(SubFiles)
    BY <1>2 DEF EnterSubfolder, Typed, work
  <2>2. Listing(SubFiles) \subseteq {"file", "lock"} \X SubFiles
    BY DEF Listing
  <2>3. ToCome(i)' \subseteq ToCome(i)
    BY <2>1, <2>2 DEF ToCome
  <2>4. QED
    BY <2>1, <2>3, Zenon DEF Nearer
<1>3. ASSUME NEW e \in todo[i], VisitGone(i, e) \/ VisitSkip(i, e) PROVE Nearer(i)
  <2>1. job' = job
    BY <1>3 DEF VisitGone, VisitSkip, work
  <2>2. ToCome(i)' \subseteq ToCome(i) /\ ToCome(i)' # ToCome(i) /\ below'[i] = below[i]
    BY <1>3, VisitLeaves
  <2>3. QED
    BY <2>1, <2>2, Zenon DEF Nearer
<1>4. ASSUME NEW f \in Files, VisitMatch(i, f) PROVE Nearer(i)
  <2>1. <<"file", f>> \in todo[i] /\ GoTo(i, f, "waiting")
    BY <1>4 DEF VisitMatch, Visiting
  <2>2. /\ ToCome(i)' \subseteq ToCome(i) \ {<<"file", f>>}
        /\ <<"file", f>> \in ToCome(i) /\ below'[i] = below[i]
    BY <1>4, <2>1, VisitLeaves
  <2>3. Starts(i, f) /\ \A g \in Files : g # f => job'[i][g] = job[i][g]
    BY <2>1, GoToEffect DEF Starts, ScanInv
  <2>4. ToCome(i)' # ToCome(i) /\ <<"file", f>> \in ToCome(i) \ ToCome(i)'
    BY <2>2
  <2>5. QED
    BY <2>2, <2>3, <2>4 DEF Nearer
<1>5. ASSUME NEW f \in Files, TakeSlot(i, f) \/ Worker(i, f) PROVE Nearer(i)
  <2>1. /\ UNCHANGED <<todo, below>> /\ Proceeds(i, f)
        /\ \A g \in Files : g # f => job'[i][g] = job[i][g]
    BY <1>5, WorkerProceeds
  <2>2. ToCome(i)' = ToCome(i)
    BY <2>1 DEF ToCome
  <2>3. QED
    BY <2>1, <2>2, Zenon DEF Nearer
<1>6. ASSUME \/ ScanExisting(i) \/ Join(i) \/ (\E f \in doomed[i] : CleanStaleLocks(i, f))
             \/ EndScan(i) \/ Exit(i) \/ Crash(i) \/ Restart(i)
      PROVE  FALSE
  BY <1>6 DEF ScanExisting, Join, CleanStaleLocks, EndScan, Exit, Crash, Restart, Typed
<1>7. CASE Works(i)
  BY <1>2, <1>3, <1>4, <1>5, <1>6, <1>7, Zenon DEF Works, Poller
<1>8. CASE ~Works(i)
  <2>1. ASSUME NEW j \in Instances, j # i, Poller(j) \/ (\E f \in Files : Worker(j, f)) \/ Crash(j)
        PROVE  todo'[i] = todo[i] /\ below'[i] = below[i] /\ job'[i] = job[i]
    BY <2>1 DEF Poller, ScanExisting, EnterSubfolder, VisitGone, VisitSkip, VisitMatch, TakeSlot,
       Join, CleanStaleLocks, EndScan, Exit, Worker, AcquireLock, ReadFile, Handle, MoveFile,
       ReleaseLock, Crash, Typed, loop, work, GoTo
  <2>2. ASSUME \/ \E f \in Files : Write(f)
               \/ \E j \in Instances : Stop(j) \/ Restart(j)
               \/ UNCHANGED vars
        PROVE  UNCHANGED <<todo, below, job>>
    BY <2>2, Zenon DEF Write, Stop, Restart, vars, loop, work
  <2>3. QED
    BY <1>1, <1>6, <1>8, <2>1, <2>2, Zenon DEF Next, Works
<1>9. QED
  BY <1>7, <1>8

\* Each scan comes to an end after finitely many steps of its poller and its
\* goroutines, and starts one goroutine per file at most: no entry is visited
\* twice, whatever other instances and the producer do to the folder.  Besides
\* the fairness of the scheduler, and a slot becoming free, this is what
\* ScanEnds needs.
THEOREM ScansComeToAnEnd == Spec => [][ScanNearsEnd]_vars
<1>1. Init => LockInv /\ ScanInv /\ BelowInv
  BY DEF Init, LockInv, LiveLocksKept, ScanInv, BelowInv
<1>2. TypeOK /\ LockInv /\ ScanInv /\ BelowInv /\ [Next]_vars => LockInv' /\ ScanInv' /\ BelowInv'
  BY LockStep, ScanStep, BelowStep DEF TypeOK
<1>3. TypeOK /\ ScanInv /\ BelowInv /\ [Next]_vars => ScanNearsEnd
  BY NearerStep DEF TypeOK
<1>4. QED
  BY <1>1, <1>2, <1>3, TypeCorrect, PTL DEF Spec

\* How far a poller is from its return once it is stopped.
PhasesLeft == [boot |-> 4, sleep |-> 4, walk |-> 3, clean |-> 2, stopped |-> 1, down |-> 0]

\* A stopped poller that moves on comes nearer to its return.
StopNearsReturn ==
  \A i \in Instances : stopped[i] /\ stopped'[i] /\ phase'[i] # phase[i] =>
    PhasesLeft[phase'[i]] < PhasesLeft[phase[i]]

\* After Stop a poller goes through what is left of its scan, or through one
\* more scan that the select of poll may still let it start, and returns: it
\* never sleeps again.
THEOREM StoppedPollersReturn == Spec => [][StopNearsReturn]_vars
<1>1. ASSUME TypeOK, [Next]_vars, NEW i \in Instances, stopped[i], stopped'[i], phase'[i] # phase[i]
      PROVE  PhasesLeft[phase'[i]] < PhasesLeft[phase[i]]
  <2> USE <1>1 DEF TypeOK, Typed
  <2>1. \/ \E j \in Instances : ScanExisting(j) \/ Join(j) \/ EndScan(j) \/ Exit(j)
        \/ \E j \in Instances : Crash(j) \/ Restart(j)
    BY Zenon DEF Next, Poller, Worker, Write, EnterSubfolder, VisitGone, VisitSkip, VisitMatch,
       TakeSlot, CleanStaleLocks, AcquireLock, ReadFile, Handle, MoveFile, ReleaseLock, Stop,
       vars, loop
  <2>2. ScanExisting(i) \/ Join(i) \/ EndScan(i) \/ Exit(i) \/ Crash(i) \/ Restart(i)
    BY <2>1 DEF ScanExisting, Join, EndScan, Exit, Crash, Restart
  <2>3. \/ phase[i] \in {"boot", "sleep"} /\ phase'[i] \in {"walk", "stopped"}
        \/ phase[i] = "walk" /\ phase'[i] \in {"clean", "stopped"}
        \/ phase[i] = "clean" /\ phase'[i] = "stopped"
        \/ phase[i] \in Phases \ {"down"} /\ phase'[i] = "down"
    BY <2>2 DEF ScanExisting, Join, EndScan, Exit, Crash, Restart
  <2>4. QED
    BY <2>3 DEF PhasesLeft, Phases
<1>2. TypeOK /\ [Next]_vars => StopNearsReturn
  BY <1>1 DEF StopNearsReturn
<1>3. QED
  BY <1>2, TypeCorrect, PTL DEF Spec
=============================================================================
