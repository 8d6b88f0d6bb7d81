---------------------------- MODULE Svelte_proofs ----------------------------
(***************************************************************************)
(* Svelte projects.  Of the production build: the output served is never   *)
(* lost nor replaced by an older one, its state claims nothing             *)
(* unpublished, a start reaches the processes of the build it cancels, and *)
(* what a stop found dirty is built.                                       *)
(* Of the development server: one runs at a time, none once stopped, each  *)
(* can be reached and is watched, and the state file tells the truth.      *)
(* For any number of scopes, requests, edits, failures and restarts.       *)
(***************************************************************************)
EXTENDS ProductionBuild, DevServer, FiniteSetTheorems, TLAPS

-----------------------------------------------------------------------------
(* The threads: one of requests and one of a build for each scope.         *)

LEMMA Threads ==
  /\ \A s \in Scope : R(s) \in Thread /\ J(s) \in Thread
  /\ \A s \in Scope : R(s)[1] = s /\ R(s)[2] = "request" /\ J(s)[1] = s /\ J(s)[2] = "job"
  /\ \A s, t \in Scope : R(s) # J(t)
  /\ \A s, t \in Scope : (R(s) = R(t) => s = t) /\ (J(s) = J(t) => s = t)
  /\ \A w \in Thread : \E s \in Scope : w = R(s) \/ w = J(s)
  /\ None \notin Thread /\ None \notin Scope
BY NoneAssumption DEF Thread, R, J

(* What the operations on the state make of it.                            *)
LEMMA StateSteps ==
  ASSUME NEW f \in States, NEW v \in Version
  PROVE  /\ Observed(f, v) \in States /\ Observed(f, v).built = f.built
         /\ Observed(f, v).current = v
         /\ Requested(f) \in States /\ Requested(f).built = f.built
         /\ Requested(f).current = f.current
         /\ Started(f) \in States /\ Started(f).built = f.built /\ Started(f).current = f.current
         /\ Completed(f, v) \in States /\ Completed(f, v).built = v
         /\ Failed(f) \in States /\ Failed(f).built = f.built /\ Failed(f).current = f.current
         /\ Cancelled(f) \in States /\ Cancelled(f).built = f.built
         /\ Cancelled(f).current = f.current
<1>1. /\ f.current \in Version /\ f.built \in Version /\ f.dirty \in BOOLEAN
      /\ f.status \in {"idle", "dirty", "current", "queued", "building", "failed"}
  BY DEF States
<1>2. /\ Observed(f, v) \in States /\ Observed(f, v).built = f.built
      /\ Observed(f, v).current = v
  <2>1. CASE v = f.built
    BY <1>1, <2>1 DEF Observed, States
  <2>2. CASE v # f.built
    BY <1>1, <2>2 DEF Observed, States
  <2> QED BY <2>1, <2>2
<1>3. /\ Requested(f) \in States /\ Requested(f).built = f.built
      /\ Requested(f).current = f.current
  BY <1>1 DEF Requested, States
<1>4. Started(f) \in States /\ Started(f).built = f.built /\ Started(f).current = f.current
  BY <1>1 DEF Started, States
<1>5. Completed(f, v) \in States /\ Completed(f, v).built = v
  BY DEF Completed, States
<1>6. Failed(f) \in States /\ Failed(f).built = f.built /\ Failed(f).current = f.current
  BY <1>1 DEF Failed, States
<1>7. /\ Cancelled(f) \in States /\ Cancelled(f).built = f.built
      /\ Cancelled(f).current = f.current
  BY <1>1 DEF Cancelled, States
<1> QED BY <1>2, <1>3, <1>4, <1>5, <1>6, <1>7

(* A state file that is not there reads as a state.                        *)
LEMMA NoStateTyped == NoState \in States /\ NoState.current = 0 /\ NoState.built = 0
<1>1. 0 \in Version
  BY BoundsAssumption DEF Version
<1> QED BY <1>1 DEF NoState, States

-----------------------------------------------------------------------------
(* The inductive invariant.                                                *)

(* The section of the lock of the project.                                 *)
Section == {"generate", "launch", "list", "recheck", "wait", "promote", "publish",
            "clean", "complete", "completed", "unlock"}
RequestPlaces ==
  {"idle", "stop", "observe", "observed", "schedule", "request", "register", "cancel", "kill",
   "buildLock", "projectLock"} \cup (Section \ {"list", "recheck"})
JobPlaces ==
  {"idle", "buildLock", "start", "started", "projectLock", "ended", "endWrite", "finish"}
    \cup Section

(* A scope has a job from its registration until the job forgets itself,   *)
(* and its request registers none meanwhile.                               *)
Jobs ==
  \A s \in Scope :
    /\ pc[R(s)] \in RequestPlaces /\ pc[J(s)] \in JobPlaces
    /\ pc[J(s)] # "idle" => task[J(s)] = "build"
    /\ s \in builds <=> pc[J(s)] # "idle"
    /\ pc[R(s)] \in {"request", "register"} => s \notin builds
    /\ victim[s] # None => pc[R(s)] = "kill"

Placed ==
  /\ pc \in [Thread -> RequestPlaces \cup JobPlaces]
  /\ task \in [Thread -> {"none", "stop", "start", "build"}]
  /\ projectLock \in Thread \cup {None}
  /\ late \in BOOLEAN /\ overlap \in BOOLEAN
  /\ source >= 1

(* A thread about to write a state, and a job, know the sources observed   *)
(* by the stop that came first.                                            *)
Known ==
  /\ file.current <= source
  /\ \A w \in Thread :
       /\ print[w] <= source /\ view[w].current <= source
       /\ pc[w] \in {"observed", "schedule", "request", "started", "completed", "endWrite"} =>
            view[w].current >= 1
  /\ \A s \in Scope :
       /\ pc[J(s)] # "idle" \/ pc[R(s)] \in {"schedule", "request", "register"} =>
            file.current >= 1
       /\ pc[J(s)] \in Section \cup {"projectLock"} => print[J(s)] >= 1
       /\ print[R(s)] = 0

(* A thread in the section publishes sources that nothing published after, *)
(* and a job none older than what it will claim.                           *)
Made == Section \ {"generate", "unlock"}
Published ==
  /\ published <= source
  /\ \A w \in Thread :
       /\ pc[w] \in Made =>
            published <= made[w] /\ 1 <= made[w] /\ made[w] <= source /\ print[w] <= made[w]
       /\ pc[w] = "publish" => target = 0
       /\ pc[w] = "clean" => target = published
       /\ pc[w] \in {"clean", "complete", "completed"} => published = made[w]

(* No thread is about to claim sources that were not published.            *)
Claims == \A w \in Thread : view[w].built > published => late

(* A cancellation finds the process of a job once it is listed.            *)
Listed ==
  \A s \in Scope :
    pc[J(s)] \in {"recheck", "wait"} /\ proc[J(s)] = "running" => s \in listed

(* The three parts of TypeOK.                                              *)
Typed ==
  /\ source \in Version /\ file \in States
  /\ target \in Version /\ backup \in Version /\ left \subseteq Version
  /\ published \in Version /\ owed \in Version
  /\ view \in [Thread -> States] /\ print \in [Thread -> Version] /\ made \in [Thread -> Version]
  /\ proc \in [Thread -> {"none", "running", "killed"}] /\ ok \in [Thread -> BOOLEAN]
  /\ listed \subseteq Scope /\ cancelled \subseteq Scope /\ builds \subseteq Scope
  /\ slot \in Scope \cup {None} /\ victim \in [Scope -> Scope \cup {None}]
InSection ==
  \A w \in Thread :
    /\ pc[w] \in Section => projectLock = w
    /\ proc[w] # "none" => pc[w] \in {"list", "recheck", "wait"}
Aside == backup # 0 => projectLock # None /\ pc[projectLock] \in {"publish", "clean"}

(* They are TypeOK, and each is kept by steps of its own.                  *)
LEMMA TypeParts == TypeOK <=> Typed /\ InSection /\ Aside
BY DEF TypeOK, Typed, InSection, Aside, Section

PInv ==
  /\ Typed /\ InSection /\ Aside /\ Placed /\ Jobs /\ Known
  /\ OutputKept /\ Published /\ ClaimsPublished /\ Claims
  /\ Listed /\ CancelReaches /\ CancelFindsIt

USE BoundsAssumption, NoneAssumption

(* One lemma for each action: it keeps the invariant. A stop only opens    *)
(* the requests of its scope.                                              *)
LEMMA StopKeeps ==
  ASSUME PInv, NEW s \in Scope, Stop(s)
  PROVE  PInv'
<1> USE DEF PInv, disk, cancels, locks, work, world, notes, Goto, Chance, Drop
<1>1. (Typed /\ OutputKept /\ ClaimsPublished /\ Claims /\ CancelFindsIt)'
  BY DEF Stop, Typed, OutputKept, ClaimsPublished, Claims, CancelFindsIt
<1>2. InSection'
  BY Threads, NoStateTyped DEF Stop, InSection, Typed, Placed, Section
<1>3. Aside'
  BY DEF Stop, Aside
<1>4. Placed'
  BY Threads, NoStateTyped DEF Stop, Placed, Typed, RequestPlaces, JobPlaces, Section
<1>5. Jobs'
  BY Threads, NoStateTyped DEF Stop, Jobs, Typed, Placed, RequestPlaces, JobPlaces, Section
<1>6. Known'
  BY Threads DEF Stop, Known, Typed, Placed
<1>7. Published'
  BY Threads, NoStateTyped DEF Stop, Published, Typed, Placed, Made, Section, Version
<1>8. Listed'
  BY DEF Stop, Listed
<1>9. CancelReaches'
  BY DEF Stop, CancelReaches
<1> QED BY <1>1, <1>2, <1>3, <1>4, <1>5, <1>6, <1>7, <1>8, <1>9

LEMMA ScheduleKeeps ==
  ASSUME PInv, NEW s \in Scope, Schedule(s)
  PROVE  PInv'
<1> USE DEF PInv, disk, cancels, locks, work, world, notes, Goto, Chance, Drop
<1>1. /\ owed' = owed \/ owed' = view[R(s)].current
      /\ view' = view \/ view' = [view EXCEPT ![R(s)] = NoState]
      /\ view[R(s)].current \in Version
  BY Threads DEF Schedule, Typed, States
<1>2. (OutputKept /\ ClaimsPublished /\ CancelFindsIt)'
  BY DEF Schedule, OutputKept, ClaimsPublished, CancelFindsIt
<1>3. Typed'
  <2>1. view' \in [Thread -> States]
    BY <1>1, NoStateTyped DEF Typed
  <2>2. owed' \in Version
    BY <1>1 DEF Typed
  <2> QED BY <2>1, <2>2 DEF Schedule, Typed
<1>4. InSection'
  BY <1>1, Threads, NoStateTyped DEF Schedule, InSection, Typed, Placed, Section
<1>5. Aside'
  BY DEF Schedule, Aside
<1>6. Placed'
  BY <1>1, Threads, NoStateTyped DEF Schedule, Placed, Typed, RequestPlaces, JobPlaces, Section
<1>7. Jobs'
  BY <1>1, Threads, NoStateTyped DEF Schedule, Jobs, Typed, Placed, RequestPlaces,
     JobPlaces, Section
<1>8. Known'
  BY <1>1, Threads, NoStateTyped DEF Schedule, Known, Typed, Placed, Section,
     RequestPlaces, JobPlaces, Version
<1>9. Published'
  BY <1>1, Threads, NoStateTyped DEF Schedule, Published, Typed, Placed, Made, Section, Version
<1>10. Claims'
  <2> SUFFICES ASSUME NEW u \in Thread, view'[u].built > published'
               PROVE  late'
    BY DEF Claims
  <2>1. view' = view \/ (view' = [view EXCEPT ![R(s)] = NoState] /\ view \in [Thread -> States])
    BY <1>1 DEF Typed
  <2>2. published' = published /\ published \in Nat /\ NoState.built = 0 /\ R(s) \in Thread
    BY Threads, NoStateTyped DEF Schedule, Typed, Version
  <2>3. view[u].built > published
    BY <2>1, <2>2
  <2> QED BY <2>3 DEF Schedule, Claims
<1>11. Listed'
  BY DEF Schedule, Listed
<1>12. CancelReaches'
  BY DEF Schedule, CancelReaches
<1> QED BY <1>2, <1>3, <1>4, <1>5, <1>6, <1>7, <1>8, <1>9, <1>10, <1>11, <1>12

LEMMA RequestKeeps ==
  ASSUME PInv, NEW s \in Scope, Request(s)
  PROVE  PInv'
<1> USE DEF PInv, disk, cancels, locks, work, world, notes, Goto, Chance, Drop
<1>1. Requested(view[R(s)]) \in States /\ Requested(view[R(s)]).built = view[R(s)].built
      /\ Requested(view[R(s)]).current = view[R(s)].current
  <2> file \in States /\ source \in Version /\ \A u \in Thread : view[u] \in States
    BY DEF Typed
  <2> QED BY StateSteps, Threads
<1>2. (OutputKept /\ CancelFindsIt)'
  BY DEF Request, OutputKept, CancelFindsIt
<1>3. Typed'
  BY <1>1, Threads, NoStateTyped DEF Request, Typed, Placed, Version
<1>4. InSection'
  BY <1>1, Threads, NoStateTyped DEF Request, InSection, Typed, Placed, Section
<1>5. Aside'
  BY DEF Request, Aside
<1>6. Placed'
  BY <1>1, Threads, NoStateTyped DEF Request, Placed, Typed, RequestPlaces, JobPlaces, Section
<1>7. Jobs'
  BY <1>1, Threads, NoStateTyped DEF Request, Jobs, Typed, Placed, RequestPlaces, JobPlaces, Section
<1>8. Known'
  BY <1>1, Threads, NoStateTyped DEF Request, Known, Typed, Placed, Section,
     RequestPlaces, JobPlaces, Version
<1>9. Published'
  BY <1>1, Threads, NoStateTyped DEF Request, Published, Typed, Placed, Made, Section, Version
<1>10. ClaimsPublished'
  BY <1>1, Threads, NoStateTyped DEF Request, ClaimsPublished, Claims, Typed, Placed
<1>11. Claims'
  <2> SUFFICES ASSUME NEW u \in Thread, view'[u].built > published'
               PROVE  late'
    BY DEF Claims
  <2>1. view[u].built > published
    BY <1>1, Threads, NoStateTyped DEF Request, Typed, Version
  <2> QED BY <2>1 DEF Request, Claims
<1>12. Listed'
  BY DEF Request, Listed
<1>13. CancelReaches'
  BY DEF Request, CancelReaches
<1> QED BY <1>2, <1>3, <1>4, <1>5, <1>6, <1>7, <1>8, <1>9, <1>10, <1>11, <1>12, <1>13

(* The job registered takes over what its request knew, and the slot of    *)
(* the scope.                                                              *)
LEMMA RegisterKeeps ==
  ASSUME PInv, NEW s \in Scope, Register(s)
  PROVE  PInv'
<1> USE DEF PInv, disk, cancels, locks, work, world, notes, Goto, Chance, Drop
<1>1. /\ pc[R(s)] = "register" /\ pc[J(s)] = "idle" /\ s \notin builds
  BY DEF Register, Jobs
<1>2. /\ pc'[R(s)] = "idle" /\ pc'[J(s)] = "buildLock"
      /\ \A u \in Thread \ {R(s), J(s)} : pc'[u] = pc[u]
  BY Threads DEF Register, Placed
<1>3. (OutputKept /\ ClaimsPublished /\ Claims)'
  BY DEF Register, OutputKept, ClaimsPublished, Claims
<1>4. Typed'
  BY DEF Register, Typed
<1>5. InSection'
  <2>1. projectLock' = projectLock /\ proc' = proc /\ proc[J(s)] = "none" /\ proc[R(s)] = "none"
    BY <1>1, Threads DEF Register, InSection, Typed
  <2> QED BY <1>2, <2>1, Threads DEF InSection, Section
<1>6. Aside'
  BY <1>1, <1>2, Threads DEF Register, Aside, Placed
<1>7. Placed'
  BY <1>1, <1>2, Threads, NoStateTyped DEF Register, Placed, Typed, RequestPlaces,
     JobPlaces, Section
<1>8. Jobs'
  BY <1>1, <1>2, Threads, NoStateTyped DEF Register, Jobs, Typed, Placed, RequestPlaces,
     JobPlaces, Section
<1>9. Known'
  BY <1>1, <1>2, Threads, NoStateTyped DEF Register, Known, Typed, Placed, Section,
     RequestPlaces, JobPlaces, Version
<1>10. Published'
  BY <1>1, <1>2, Threads, NoStateTyped DEF Register, Published, Typed, Placed, Made,
     Section, Version
<1>11. Listed'
  BY Threads DEF Register, Listed, Typed, Placed
<1>12. CancelReaches'
  BY Threads DEF Register, CancelReaches, Typed, Placed
<1>13. CancelFindsIt'
  <2> SUFFICES ASSUME ~overlap', NEW t \in builds' \ cancelled', t # s
               PROVE  FALSE
    BY DEF CancelFindsIt, Register
  <2>1. ~overlap /\ ~(slot # None /\ slot \notin cancelled)
    BY DEF Register, Placed
  <2>2. t \in builds /\ t \notin cancelled /\ t \in Scope
    BY DEF Register, Typed
  <2> QED BY <2>1, <2>2, Threads DEF CancelFindsIt
<1> QED BY <1>3, <1>4, <1>5, <1>6, <1>7, <1>8, <1>9, <1>10, <1>11, <1>12, <1>13

(* The job cancelled is the one in the slot; what was listed is left to    *)
(* Kill.                                                                   *)
LEMMA CancelKeeps ==
  ASSUME PInv, NEW s \in Scope, Cancel(s)
  PROVE  PInv'
<1> USE DEF PInv, disk, cancels, locks, work, world, notes, Goto, Chance, Drop
<1>1. (OutputKept /\ ClaimsPublished /\ Claims)'
  BY DEF Cancel, OutputKept, ClaimsPublished, Claims
<1>2. Typed'
  <2>1. cancelled' \subseteq Scope /\ victim' \in [Scope -> Scope \cup {None}]
    BY DEF Cancel, Typed
  <2>2. owed' \in Version
    BY DEF Cancel, Version
  <2> QED BY <2>1, <2>2 DEF Cancel, Typed
<1>3. InSection'
  BY Threads, NoStateTyped DEF Cancel, InSection, Typed, Placed, Section
<1>4. Aside'
  BY DEF Cancel, Aside, Typed, Placed
<1>5. Placed'
  <2>1. \E p \in {"projectLock", "kill"} : pc' = [pc EXCEPT ![R(s)] = p]
    BY DEF Cancel
  <2> QED BY <2>1 DEF Cancel, Placed, RequestPlaces, JobPlaces
<1>6. Jobs'
  BY Threads, NoStateTyped DEF Cancel, Jobs, Typed, Placed, RequestPlaces, JobPlaces, Section
<1>7. Known'
  BY Threads DEF Cancel, Known, Typed, Placed
<1>8. Published'
  BY Threads, NoStateTyped DEF Cancel, Published, Typed, Placed, Made, Section, Version
<1>9. Listed'
  BY Threads DEF Cancel, Listed, Typed, Placed
<1>10. CancelReaches'
  BY Threads, NoStateTyped DEF Cancel, CancelReaches, Listed, Jobs, InSection, Typed, Placed
<1>11. CancelFindsIt'
  BY DEF Cancel, CancelFindsIt
<1> QED BY <1>1, <1>2, <1>3, <1>4, <1>5, <1>6, <1>7, <1>8, <1>9, <1>10, <1>11

(* What was listed is destroyed, and nothing else of the job may run on.   *)
LEMMA KillKeeps ==
  ASSUME PInv, NEW s \in Scope, Kill(s)
  PROVE  PInv'
<1> USE DEF PInv, disk, cancels, locks, work, world, notes, Goto, Chance, Drop
<1>1. (OutputKept /\ ClaimsPublished /\ Claims /\ CancelFindsIt)'
  BY DEF Kill, OutputKept, ClaimsPublished, Claims, CancelFindsIt
<1>2. Typed'
  BY DEF Kill, Typed
<1>3. InSection'
  BY Threads, NoStateTyped DEF Kill, InSection, Typed, Placed, Section
<1>4. Aside'
  BY DEF Kill, Aside
<1>5. Placed'
  BY Threads, NoStateTyped DEF Kill, Placed, Typed, RequestPlaces, JobPlaces, Section
<1>6. Jobs'
  BY Threads, NoStateTyped DEF Kill, Jobs, Typed, Placed, RequestPlaces, JobPlaces, Section
<1>7. Known'
  BY Threads DEF Kill, Known, Typed, Placed
<1>8. Published'
  BY Threads, NoStateTyped DEF Kill, Published, Typed, Placed, Made, Section, Version
<1>9. Listed'
  BY DEF Kill, Listed
<1>10. CancelReaches'
  BY Threads, NoStateTyped DEF Kill, CancelReaches, Listed, Jobs, InSection, Typed, Placed
<1> QED BY <1>1, <1>2, <1>3, <1>4, <1>5, <1>6, <1>7, <1>8, <1>9, <1>10

LEMMA AskKeeps ==
  ASSUME PInv, NEW s \in Scope, Ask(s)
  PROVE  PInv'
<1> USE DEF PInv, disk, cancels, locks, work, world, notes, Goto, Chance, Drop
<1>1. \E t \in {"stop", "start", "build"}, p \in {"stop", "cancel", "buildLock"} :
        task' = [task EXCEPT ![R(s)] = t] /\ pc' = [pc EXCEPT ![R(s)] = p]
  BY DEF Ask
<1>2. (Typed /\ OutputKept /\ ClaimsPublished /\ Claims /\ CancelFindsIt)'
  BY DEF Ask, Typed, OutputKept, ClaimsPublished, Claims, CancelFindsIt
<1>3. InSection'
  BY <1>1, Threads, NoStateTyped DEF Ask, InSection, Typed, Placed, Section
<1>4. Aside'
  BY DEF Ask, Aside, Typed, Placed
<1>5. Placed'
  BY <1>1, Threads DEF Ask, Placed, RequestPlaces
<1>6. Jobs'
  BY <1>1, Threads, NoStateTyped DEF Ask, Jobs, Typed, Placed, RequestPlaces, JobPlaces, Section
<1>7. Known'
  BY Threads DEF Ask, Known, Typed, Placed
<1>8. Published'
  BY <1>1, Threads, NoStateTyped DEF Ask, Published, Typed, Placed, Made, Section, Version
<1>9. Listed'
  BY Threads DEF Ask, Listed, Typed, Placed
<1>10. CancelReaches'
  BY Threads DEF Ask, CancelReaches, Typed, Placed
<1> QED BY <1>2, <1>3, <1>4, <1>5, <1>6, <1>7, <1>8, <1>9, <1>10

LEMMA JobReadsKeeps ==
  ASSUME PInv, NEW s \in Scope, JobReads(s)
  PROVE  PInv'
<1> USE DEF PInv, disk, cancels, locks, work, world, notes, Goto, Chance, Drop
<1>1. Started(file) \in States /\ Started(file).built = file.built
      /\ Started(file).current = file.current
  <2> file \in States /\ source \in Version /\ \A u \in Thread : view[u] \in States
    BY DEF Typed
  <2> QED BY StateSteps, Threads
<1>2. (OutputKept /\ ClaimsPublished /\ CancelFindsIt)'
  BY DEF JobReads, OutputKept, ClaimsPublished, CancelFindsIt
<1>3. Typed'
  BY <1>1, Threads, NoStateTyped DEF JobReads, Typed, Placed, Version
<1>4. InSection'
  BY <1>1, Threads, NoStateTyped DEF JobReads, InSection, Typed, Placed, Section
<1>5. Aside'
  BY DEF JobReads, Aside
<1>6. Placed'
  BY <1>1, Threads, NoStateTyped DEF JobReads, Placed, Typed, RequestPlaces, JobPlaces, Section
<1>7. Jobs'
  BY <1>1, Threads, NoStateTyped DEF JobReads, Jobs, Typed, Placed, RequestPlaces,
     JobPlaces, Section
<1>8. Known'
  BY <1>1, Threads, NoStateTyped DEF JobReads, Known, Typed, Placed, Section,
     RequestPlaces, JobPlaces, Version
<1>9. Published'
  BY <1>1, Threads, NoStateTyped DEF JobReads, Published, Typed, Placed, Made, Section, Version
<1>10. Claims'
  BY <1>1, Threads, NoStateTyped DEF JobReads, Claims, ClaimsPublished, Published,
     Known, Typed, Placed
<1>11. Listed'
  BY DEF JobReads, Listed
<1>12. CancelReaches'
  BY DEF JobReads, CancelReaches
<1> QED BY <1>2, <1>3, <1>4, <1>5, <1>6, <1>7, <1>8, <1>9, <1>10, <1>11, <1>12

LEMMA JobStartsKeeps ==
  ASSUME PInv, NEW s \in Scope, JobStarts(s)
  PROVE  PInv'
<1> USE DEF PInv, disk, cancels, locks, work, world, notes, Goto, Chance, Drop
<1>1. view[J(s)].current \in Version
  BY Threads DEF Typed, States
<1>2. (OutputKept /\ CancelFindsIt)'
  BY DEF JobStarts, OutputKept, CancelFindsIt
<1>3. Typed'
  BY <1>1, Threads, NoStateTyped DEF JobStarts, Typed, Placed, Version
<1>4. InSection'
  BY <1>1, Threads, NoStateTyped DEF JobStarts, InSection, Typed, Placed, Section
<1>5. Aside'
  BY DEF JobStarts, Aside
<1>6. Placed'
  BY <1>1, Threads, NoStateTyped DEF JobStarts, Placed, Typed, RequestPlaces, JobPlaces, Section
<1>7. Jobs'
  BY <1>1, Threads, NoStateTyped DEF JobStarts, Jobs, Typed, Placed, RequestPlaces,
     JobPlaces, Section
<1>8. Known'
  BY <1>1, Threads, NoStateTyped DEF JobStarts, Known, Typed, Placed, Section,
     RequestPlaces, JobPlaces, Version
<1>9. Published'
  BY <1>1, Threads, NoStateTyped DEF JobStarts, Published, Typed, Placed, Made, Section, Version
<1>10. ClaimsPublished'
  BY <1>1, Threads, NoStateTyped DEF JobStarts, ClaimsPublished, Claims, Typed, Placed
<1>11. Claims'
  <2> SUFFICES ASSUME NEW u \in Thread, view'[u].built > published'
               PROVE  late'
    BY DEF Claims
  <2>1. view[u].built > published
    BY <1>1, Threads, NoStateTyped DEF JobStarts, Typed, Version
  <2> QED BY <2>1 DEF JobStarts, Claims
<1>12. Listed'
  BY DEF JobStarts, Listed
<1>13. CancelReaches'
  BY DEF JobStarts, CancelReaches
<1> QED BY <1>2, <1>3, <1>4, <1>5, <1>6, <1>7, <1>8, <1>9, <1>10, <1>11, <1>12, <1>13

(* A process is listed while its job holds the lock of the project.        *)
LEMMA ListKeeps ==
  ASSUME PInv, NEW s \in Scope, List(s)
  PROVE  PInv'
<1> USE DEF PInv, disk, cancels, locks, work, world, notes, Goto, Chance, Drop
<1>1. (OutputKept /\ ClaimsPublished /\ Claims /\ CancelFindsIt)'
  BY DEF List, OutputKept, ClaimsPublished, Claims, CancelFindsIt
<1>2. Typed'
  BY DEF List, Typed
<1>3. InSection'
  BY Threads, NoStateTyped DEF List, InSection, Typed, Placed, Section
<1>4. Aside'
  BY DEF List, Aside
<1>5. Placed'
  BY Threads, NoStateTyped DEF List, Placed, Typed, RequestPlaces, JobPlaces, Section
<1>6. Jobs'
  BY Threads, NoStateTyped DEF List, Jobs, Typed, Placed, RequestPlaces, JobPlaces, Section
<1>7. Known'
  BY Threads, NoStateTyped DEF List, Known, Typed, Placed, Section, RequestPlaces,
     JobPlaces, Version
<1>8. Published'
  BY Threads, NoStateTyped DEF List, Published, Typed, Placed, Made, Section, Version
<1>9. Listed'
  BY Threads DEF List, Listed, Typed, Placed
<1>10. CancelReaches'
  BY DEF List, CancelReaches
<1> QED BY <1>1, <1>2, <1>3, <1>4, <1>5, <1>6, <1>7, <1>8, <1>9, <1>10

(* A job cancelled before its process was listed destroys it itself.       *)
LEMMA RecheckKeeps ==
  ASSUME PInv, NEW s \in Scope, Recheck(s)
  PROVE  PInv'
<1> USE DEF PInv, disk, cancels, locks, work, world, notes, Goto, Chance, Drop
<1>1. (OutputKept /\ ClaimsPublished /\ Claims /\ CancelFindsIt)'
  BY DEF Recheck, OutputKept, ClaimsPublished, Claims, CancelFindsIt
<1>2. Typed'
  BY DEF Recheck, Typed
<1>3. InSection'
  BY Threads, NoStateTyped DEF Recheck, InSection, Typed, Placed, Section
<1>4. Aside'
  BY DEF Recheck, Aside
<1>5. Placed'
  BY Threads, NoStateTyped DEF Recheck, Placed, Typed, RequestPlaces, JobPlaces, Section
<1>6. Jobs'
  BY Threads, NoStateTyped DEF Recheck, Jobs, Typed, Placed, RequestPlaces, JobPlaces, Section
<1>7. Known'
  BY Threads, NoStateTyped DEF Recheck, Known, Typed, Placed, Section, RequestPlaces,
     JobPlaces, Version
<1>8. Published'
  BY Threads, NoStateTyped DEF Recheck, Published, Typed, Placed, Made, Section, Version
<1>9. Listed'
  BY DEF Recheck, Listed
<1>10. CancelReaches'
  BY Threads DEF Recheck, CancelReaches, Typed, Placed
<1> QED BY <1>1, <1>2, <1>3, <1>4, <1>5, <1>6, <1>7, <1>8, <1>9, <1>10

LEMMA JobEndsKeeps ==
  ASSUME PInv, NEW s \in Scope, JobEnds(s)
  PROVE  PInv'
<1> USE DEF PInv, disk, cancels, locks, work, world, notes, Goto, Chance, Drop
<1>1. Failed(file) \in States /\ Failed(file).built = file.built /\ Failed(file).current = file.current
      /\ Cancelled(file) \in States /\ Cancelled(file).built = file.built
      /\ Cancelled(file).current = file.current
  <2> file \in States /\ source \in Version /\ \A u \in Thread : view[u] \in States
    BY DEF Typed
  <2> QED BY StateSteps, Threads
<1>2. (OutputKept /\ ClaimsPublished /\ CancelFindsIt)'
  BY DEF JobEnds, OutputKept, ClaimsPublished, CancelFindsIt
<1>3. Typed'
  BY <1>1, Threads, NoStateTyped DEF JobEnds, Typed, Placed, Version
<1>4. InSection'
  BY <1>1, Threads, NoStateTyped DEF JobEnds, InSection, Typed, Placed, Section
<1>5. Aside'
  BY DEF JobEnds, Aside
<1>6. Placed'
  BY <1>1, Threads, NoStateTyped DEF JobEnds, Placed, Typed, RequestPlaces, JobPlaces, Section
<1>7. Jobs'
  BY <1>1, Threads, NoStateTyped DEF JobEnds, Jobs, Typed, Placed, RequestPlaces, JobPlaces, Section
<1>8. Known'
  BY <1>1, Threads, NoStateTyped DEF JobEnds, Known, Typed, Placed, Section,
     RequestPlaces, JobPlaces, Version
<1>9. Published'
  BY <1>1, Threads, NoStateTyped DEF JobEnds, Published, Typed, Placed, Made, Section, Version
<1>10. Claims'
  BY <1>1, Threads, NoStateTyped DEF JobEnds, Claims, ClaimsPublished, Published, Known,
     Typed, Placed
<1>11. Listed'
  BY DEF JobEnds, Listed
<1>12. CancelReaches'
  BY DEF JobEnds, CancelReaches
<1> QED BY <1>2, <1>3, <1>4, <1>5, <1>6, <1>7, <1>8, <1>9, <1>10, <1>11, <1>12

LEMMA JobWritesEndKeeps ==
  ASSUME PInv, NEW s \in Scope, JobWritesEnd(s)
  PROVE  PInv'
<1> USE DEF PInv, disk, cancels, locks, work, world, notes, Goto, Chance, Drop
<1>1. (OutputKept /\ CancelFindsIt)'
  BY DEF JobWritesEnd, OutputKept, CancelFindsIt
<1>2. Typed'
  BY Threads, NoStateTyped DEF JobWritesEnd, Typed, Placed, Version
<1>3. InSection'
  BY Threads, NoStateTyped DEF JobWritesEnd, InSection, Typed, Placed, Section
<1>4. Aside'
  BY DEF JobWritesEnd, Aside
<1>5. Placed'
  BY Threads, NoStateTyped DEF JobWritesEnd, Placed, Typed, RequestPlaces, JobPlaces, Section
<1>6. Jobs'
  BY Threads, NoStateTyped DEF JobWritesEnd, Jobs, Typed, Placed, RequestPlaces, JobPlaces, Section
<1>7. Known'
  BY Threads, NoStateTyped DEF JobWritesEnd, Known, Typed, Placed, Section,
     RequestPlaces, JobPlaces, Version
<1>8. Published'
  BY Threads, NoStateTyped DEF JobWritesEnd, Published, Typed, Placed, Made, Section, Version
<1>9. ClaimsPublished'
  BY Threads, NoStateTyped DEF JobWritesEnd, ClaimsPublished, Claims, Typed, Placed
<1>10. Claims'
  <2> SUFFICES ASSUME NEW u \in Thread, view'[u].built > published'
               PROVE  late'
    BY DEF Claims
  <2>1. view[u].built > published
    BY Threads, NoStateTyped DEF JobWritesEnd, Typed, Version
  <2> QED BY <2>1 DEF JobWritesEnd, Claims
<1>11. Listed'
  BY DEF JobWritesEnd, Listed
<1>12. CancelReaches'
  BY DEF JobWritesEnd, CancelReaches
<1> QED BY <1>1, <1>2, <1>3, <1>4, <1>5, <1>6, <1>7, <1>8, <1>9, <1>10, <1>11, <1>12

LEMMA JobForgetsKeeps ==
  ASSUME PInv, NEW s \in Scope, JobForgets(s)
  PROVE  PInv'
<1> USE DEF PInv, disk, cancels, locks, work, world, notes, Goto, Chance, Drop
<1>1. (OutputKept /\ ClaimsPublished /\ Claims)'
  BY DEF JobForgets, OutputKept, ClaimsPublished, Claims
<1>2. Typed'
  BY Threads, NoStateTyped DEF JobForgets, Typed, Placed, Version
<1>3. InSection'
  BY Threads, NoStateTyped DEF JobForgets, InSection, Typed, Placed, Section
<1>4. Aside'
  BY DEF JobForgets, Aside
<1>5. Placed'
  BY Threads, NoStateTyped DEF JobForgets, Placed, Typed, RequestPlaces, JobPlaces, Section
<1>6. Jobs'
  BY Threads, NoStateTyped DEF JobForgets, Jobs, Typed, Placed, RequestPlaces, JobPlaces, Section
<1>7. Known'
  BY Threads, NoStateTyped DEF JobForgets, Known, Typed, Placed, Section, RequestPlaces,
     JobPlaces, Version
<1>8. Published'
  BY Threads, NoStateTyped DEF JobForgets, Published, Typed, Placed, Made, Section, Version
<1>9. Listed'
  BY DEF JobForgets, Listed
<1>10. CancelReaches'
  BY DEF JobForgets, CancelReaches
<1>11. CancelFindsIt'
  BY DEF JobForgets, CancelFindsIt
<1> QED BY <1>1, <1>2, <1>3, <1>4, <1>5, <1>6, <1>7, <1>8, <1>9, <1>10, <1>11

LEMMA ObserveKeeps ==
  ASSUME PInv, NEW w \in Thread, Observe(w)
  PROVE  PInv'
<1> USE DEF PInv, disk, cancels, locks, work, world, notes, Goto, Chance, Drop
<1>1. Observed(file, source) \in States /\ Observed(file, source).built = file.built
      /\ Observed(file, source).current = source
  <2> file \in States /\ source \in Version /\ \A u \in Thread : view[u] \in States
    BY DEF Typed
  <2> QED BY StateSteps, Threads
<1>2. (OutputKept /\ ClaimsPublished /\ CancelFindsIt)'
  BY DEF Observe, OutputKept, ClaimsPublished, CancelFindsIt
<1>3. Typed'
  BY <1>1, Threads, NoStateTyped DEF Observe, Typed, Placed, Version
<1>4. InSection'
  BY <1>1, Threads, NoStateTyped DEF Observe, InSection, Typed, Placed, Section
<1>5. Aside'
  BY DEF Observe, Aside
<1>6. Placed'
  BY <1>1, Threads, NoStateTyped DEF Observe, Placed, Typed, RequestPlaces, JobPlaces, Section
<1>7. Jobs'
  BY <1>1, Threads, NoStateTyped DEF Observe, Jobs, Typed, Placed, RequestPlaces, JobPlaces, Section
<1>8. Known'
  BY <1>1, Threads, NoStateTyped DEF Observe, Known, Typed, Placed, Section,
     RequestPlaces, JobPlaces, Version
<1>9. Published'
  BY <1>1, Threads, NoStateTyped DEF Observe, Published, Typed, Placed, Made, Section, Version
<1>10. Claims'
  BY <1>1, Threads, NoStateTyped DEF Observe, Claims, ClaimsPublished, Published, Known,
     Typed, Placed
<1>11. Listed'
  BY DEF Observe, Listed
<1>12. CancelReaches'
  BY DEF Observe, CancelReaches
<1> QED BY <1>2, <1>3, <1>4, <1>5, <1>6, <1>7, <1>8, <1>9, <1>10, <1>11, <1>12

LEMMA ObserveWritesKeeps ==
  ASSUME PInv, NEW w \in Thread, ObserveWrites(w)
  PROVE  PInv'
<1> USE DEF PInv, disk, cancels, locks, work, world, notes, Goto, Chance, Drop
<1>1. (OutputKept /\ CancelFindsIt)'
  BY DEF ObserveWrites, OutputKept, CancelFindsIt
<1>2. Typed'
  <2>1. view \in [Thread -> States] /\ file' = view[w]
    BY DEF ObserveWrites, Typed
  <2>2. file' \in States
    BY <2>1
  <2>3. view' = view \/ view' = [view EXCEPT ![w] = NoState]
    BY DEF ObserveWrites
  <2>4. view' \in [Thread -> States]
    BY <2>1, <2>3, NoStateTyped
  <2> QED BY <2>2, <2>4 DEF ObserveWrites, Typed
<1>3. InSection'
  BY Threads, NoStateTyped DEF ObserveWrites, InSection, Typed, Placed, Section
<1>4. Aside'
  BY DEF ObserveWrites, Aside
<1>5. Placed'
  BY Threads, NoStateTyped DEF ObserveWrites, Placed, Typed, RequestPlaces, JobPlaces, Section
<1>6. Jobs'
  BY Threads, NoStateTyped DEF ObserveWrites, Jobs, Typed, Placed, RequestPlaces, JobPlaces, Section
<1>7. Known'
  <2>1. /\ pc[w] = "observed" /\ file' = view[w] /\ view[w].current >= 1
        /\ view[w].current <= source
        /\ UNCHANGED <<source, print>>
    BY DEF ObserveWrites, Known
  <2>2. \E p \in {"schedule", "idle", "unlock"} :
          /\ pc' = [pc EXCEPT ![w] = p]
          /\ view' = view \/ (view' = [view EXCEPT ![w] = NoState] /\ p # "schedule")
    BY DEF ObserveWrites
  <2>3. \A u \in Thread :
          /\ view'[u].current <= source
          /\ pc'[u] \in {"observed", "schedule", "request", "started", "completed", "endWrite"} =>
               view'[u].current >= 1
    BY <2>1, <2>2, NoStateTyped DEF Known, Typed, Placed, Version
  <2>4. \A u \in Thread : pc'[u] \in Section \cup {"projectLock"} =>
          u = w \/ pc[u] \in Section \cup {"projectLock"}
    BY <2>2 DEF Placed
  <2>5. \A t \in Scope : J(t) # w
    BY <2>1 DEF Jobs, JobPlaces, Section
  <2> QED BY <2>1, <2>3, <2>4, <2>5, Threads DEF Known
<1>8. Published'
  BY Threads, NoStateTyped DEF ObserveWrites, Published, Typed, Placed, Made, Section, Version
<1>9. ClaimsPublished'
  BY Threads, NoStateTyped DEF ObserveWrites, ClaimsPublished, Claims, Typed, Placed
<1>10. Claims'
  <2> SUFFICES ASSUME NEW u \in Thread, view'[u].built > published'
               PROVE  late'
    BY DEF Claims
  <2>1. view[u].built > published
    BY Threads, NoStateTyped DEF ObserveWrites, Typed, Version
  <2> QED BY <2>1 DEF ObserveWrites, Claims
<1>11. Listed'
  BY DEF ObserveWrites, Listed
<1>12. CancelReaches'
  BY DEF ObserveWrites, CancelReaches
<1> QED BY <1>1, <1>2, <1>3, <1>4, <1>5, <1>6, <1>7, <1>8, <1>9, <1>10, <1>11, <1>12

LEMMA LockBuildsKeeps ==
  ASSUME PInv, NEW w \in Thread, LockBuilds(w)
  PROVE  PInv'
<1> USE DEF PInv, disk, cancels, locks, work, world, notes, Goto, Chance, Drop
<1>1. (Typed /\ OutputKept /\ ClaimsPublished /\ Claims /\ CancelFindsIt)'
  BY DEF LockBuilds, Typed, OutputKept, ClaimsPublished, Claims, CancelFindsIt
<1>2. InSection'
  BY Threads, NoStateTyped DEF LockBuilds, InSection, Typed, Placed, Section
<1>3. Aside'
  BY DEF LockBuilds, Aside
<1>4. Placed'
  BY Threads, NoStateTyped DEF LockBuilds, Placed, Typed, RequestPlaces, JobPlaces, Section
<1>5. Jobs'
  BY Threads, NoStateTyped DEF LockBuilds, Jobs, Typed, Placed, RequestPlaces, JobPlaces, Section
<1>6. Known'
  BY Threads, NoStateTyped DEF LockBuilds, Known, Typed, Placed, Section, RequestPlaces,
     JobPlaces, Version
<1>7. Published'
  BY Threads, NoStateTyped DEF LockBuilds, Published, Typed, Placed, Made, Section, Version
<1>8. Listed'
  BY DEF LockBuilds, Listed
<1>9. CancelReaches'
  BY DEF LockBuilds, CancelReaches
<1> QED BY <1>1, <1>2, <1>3, <1>4, <1>5, <1>6, <1>7, <1>8, <1>9

(* The section is entered by one thread, with nothing aside.               *)
LEMMA LockProjectKeeps ==
  ASSUME PInv, NEW w \in Thread, LockProject(w)
  PROVE  PInv'
<1> USE DEF PInv, disk, cancels, locks, work, world, notes, Goto, Chance, Drop
<1>1. (Typed /\ OutputKept /\ ClaimsPublished /\ Claims /\ CancelFindsIt)'
  BY DEF LockProject, Typed, OutputKept, ClaimsPublished, Claims, CancelFindsIt
<1>2. InSection'
  BY Threads DEF LockProject, InSection, Typed, Placed
<1>3. Aside'
  BY DEF LockProject, Aside
<1>4. Placed'
  BY Threads, NoStateTyped DEF LockProject, Placed, Typed, RequestPlaces, JobPlaces, Section
<1>5. Jobs'
  BY Threads, NoStateTyped DEF LockProject, Jobs, Typed, Placed, RequestPlaces, JobPlaces, Section
<1>6. Known'
  BY DEF LockProject, Known
<1>7. Published'
  BY Threads, NoStateTyped DEF LockProject, Published, Typed, Placed, Made, Section, Version
<1>8. Listed'
  BY DEF LockProject, Listed
<1>9. CancelReaches'
  BY DEF LockProject, CancelReaches
<1> QED BY <1>1, <1>2, <1>3, <1>4, <1>5, <1>6, <1>7, <1>8, <1>9

(* What is generated is of sources no older than any published.            *)
LEMMA GenerateKeeps ==
  ASSUME PInv, NEW w \in Thread, Generate(w)
  PROVE  PInv'
<1> USE DEF PInv, disk, cancels, locks, work, world, notes, Goto, Chance, Drop
<1>1. (OutputKept /\ ClaimsPublished /\ Claims /\ CancelFindsIt)'
  BY DEF Generate, OutputKept, ClaimsPublished, Claims, CancelFindsIt
<1>2. Typed'
  BY DEF Generate, Typed
<1>3. InSection'
  BY Threads, NoStateTyped DEF Generate, InSection, Typed, Placed, Section
<1>4. Aside'
  BY DEF Generate, Aside
<1>5. Placed'
  BY Threads, NoStateTyped DEF Generate, Placed, Typed, RequestPlaces, JobPlaces, Section
<1>6. Jobs'
  BY Threads, NoStateTyped DEF Generate, Jobs, Typed, Placed, RequestPlaces, JobPlaces, Section
<1>7. Known'
  BY Threads, NoStateTyped DEF Generate, Known, Typed, Placed, Section, RequestPlaces,
     JobPlaces, Version
<1>8. Published'
  BY Threads, NoStateTyped DEF Generate, Published, Known, InSection, Aside, Typed,
     Placed, Made, Section, Version
<1>9. Listed'
  BY DEF Generate, Listed
<1>10. CancelReaches'
  BY DEF Generate, CancelReaches
<1> QED BY <1>1, <1>2, <1>3, <1>4, <1>5, <1>6, <1>7, <1>8, <1>9, <1>10

LEMMA LaunchKeeps ==
  ASSUME PInv, NEW w \in Thread, Launch(w)
  PROVE  PInv'
<1> USE DEF PInv, disk, cancels, locks, work, world, notes, Goto, Chance, Drop
<1>1. (OutputKept /\ ClaimsPublished /\ Claims /\ CancelFindsIt)'
  BY DEF Launch, OutputKept, ClaimsPublished, Claims, CancelFindsIt
<1>2. Typed'
  <2>1. /\ proc' \in [Thread -> {"none", "running", "killed"}]
        /\ ok' \in [Thread -> BOOLEAN]
    BY DEF Launch, Typed
  <2> QED BY <2>1 DEF Launch, Typed
<1>3. InSection'
  BY Threads, NoStateTyped DEF Launch, InSection, Typed, Placed, Section
<1>4. Aside'
  BY DEF Launch, Aside, Typed, Placed
<1>5. Placed'
  <2>1. \E p \in {"unlock", "list", "wait"} : pc' = [pc EXCEPT ![w] = p]
    BY DEF Launch
  <2> QED BY <2>1 DEF Launch, Placed, JobPlaces, Section
<1>6. Jobs'
  BY Threads, NoStateTyped DEF Launch, Jobs, Typed, Placed, RequestPlaces, JobPlaces, Section
<1>7. Known'
  BY Threads, NoStateTyped DEF Launch, Known, Typed, Placed, Section, RequestPlaces,
     JobPlaces, Version
<1>8. Published'
  BY Threads, NoStateTyped DEF Launch, Published, Typed, Placed, Made, Section, Version
<1>9. Listed'
  BY Threads DEF Launch, Listed, Typed, Placed
<1>10. CancelReaches'
  BY Threads DEF Launch, CancelReaches, Typed, Placed
<1> QED BY <1>1, <1>2, <1>3, <1>4, <1>5, <1>6, <1>7, <1>8, <1>9, <1>10

LEMMA ExitKeeps ==
  ASSUME PInv, NEW w \in Thread, Exit(w)
  PROVE  PInv'
<1> USE DEF PInv, disk, cancels, locks, work, world, notes, Goto, Chance, Drop
<1>1. (OutputKept /\ ClaimsPublished /\ Claims /\ CancelFindsIt)'
  BY DEF Exit, OutputKept, ClaimsPublished, Claims, CancelFindsIt
<1>2. Typed'
  BY DEF Exit, Typed
<1>3. InSection'
  BY Threads, NoStateTyped DEF Exit, InSection, Typed, Placed, Section
<1>4. Aside'
  BY DEF Exit, Aside
<1>5. Placed'
  BY Threads, NoStateTyped DEF Exit, Placed, Typed, RequestPlaces, JobPlaces, Section
<1>6. Jobs'
  BY Threads, NoStateTyped DEF Exit, Jobs, Typed, Placed, RequestPlaces, JobPlaces, Section
<1>7. Known'
  BY Threads, NoStateTyped DEF Exit, Known, Typed, Placed, Section, RequestPlaces,
     JobPlaces, Version
<1>8. Published'
  BY Threads, NoStateTyped DEF Exit, Published, Typed, Placed, Made, Section, Version
<1>9. Listed'
  BY DEF Exit, Listed, Typed, Placed
<1>10. CancelReaches'
  BY DEF Exit, CancelReaches
<1> QED BY <1>1, <1>2, <1>3, <1>4, <1>5, <1>6, <1>7, <1>8, <1>9, <1>10

(* The output moved aside is the last one published.                       *)
LEMMA MoveAsideKeeps ==
  ASSUME PInv, NEW w \in Thread, MoveAside(w)
  PROVE  PInv'
<1> USE DEF PInv, disk, cancels, locks, work, world, notes, Goto, Chance, Drop
<1>1. (ClaimsPublished /\ Claims /\ CancelFindsIt)'
  BY DEF MoveAside, ClaimsPublished, Claims, CancelFindsIt
<1>2. Typed'
  <2>1. target' \in Version /\ backup' \in Version
    BY DEF MoveAside, Typed, Version
  <2>2. ok' \in [Thread -> BOOLEAN]
    BY DEF MoveAside, Typed
  <2>3. UNCHANGED <<source, file, left, published, owed, view, print, made, proc, listed,
                    cancelled, builds, slot, victim>>
    BY DEF MoveAside
  <2> QED BY <2>1, <2>2, <2>3 DEF Typed
<1>3. InSection'
  BY Threads, NoStateTyped DEF MoveAside, InSection, Typed, Placed, Section
<1>4. Aside'
  BY Threads, NoStateTyped DEF MoveAside, Aside, InSection, Typed, Placed, Section
<1>5. Placed'
  <2>1. \A s \in Scope : R(s) \in Thread /\ J(s) \in Thread
    BY Threads
  <2>2. \E p \in {"publish", "unlock"} : pc' = [pc EXCEPT ![w] = p]
    BY DEF MoveAside
  <2> QED BY <2>1, <2>2 DEF MoveAside, Placed, RequestPlaces, JobPlaces, Section
<1>6. Jobs'
  BY Threads, NoStateTyped DEF MoveAside, Jobs, Typed, Placed, RequestPlaces, JobPlaces, Section
<1>7. Known'
  BY Threads, NoStateTyped DEF MoveAside, Known, Typed, Placed, Section, RequestPlaces,
     JobPlaces, Version
<1>8. OutputKept'
  <2>1. published' = published /\ left' = left
    BY DEF MoveAside
  <2>2. CASE target' = target /\ backup' = backup
    BY <2>1, <2>2 DEF OutputKept
  <2>3. CASE backup' = target /\ target' = 0
    <3>1. backup = 0
      BY DEF MoveAside, Aside, InSection, Section, Placed
    <3> QED BY <2>1, <2>3, <3>1 DEF OutputKept, Typed
  <2> QED BY <2>2, <2>3 DEF MoveAside
<1>9. Published'
  BY Threads, NoStateTyped DEF MoveAside, Published, Known, InSection, Aside, Typed,
     Placed, Made, Section, Version
<1>10. Listed'
  BY Threads DEF MoveAside, Listed, Typed, Placed
<1>11. CancelReaches'
  BY Threads DEF MoveAside, CancelReaches, Typed, Placed
<1> QED BY <1>1, <1>2, <1>3, <1>4, <1>5, <1>6, <1>7, <1>8, <1>9, <1>10, <1>11

(* The output published is not older, and the one aside is kept if it      *)
(* failed.                                                                 *)
LEMMA PublishKeeps ==
  ASSUME PInv, NEW w \in Thread, Publish(w)
  PROVE  PInv'
<1> USE DEF PInv, disk, cancels, locks, work, world, notes, Goto, Chance, Drop
<1> DEFINE Moved == target' = made[w] /\ published' = made[w] /\ pc' = [pc EXCEPT ![w] = "clean"]
                   /\ UNCHANGED <<backup, left, ok, mishaps>>
           Fails == /\ target' \in {target, backup} /\ left' \in {left, left \cup ({backup} \ {0})}
                    /\ backup' = 0 /\ published' = published
                    /\ ok' = [ok EXCEPT ![w] = FALSE] /\ pc' = [pc EXCEPT ![w] = "unlock"]
<1>1. Moved \/ Fails
  BY DEF Publish
<1>2. pc[w] = "publish" /\ made[w] \in Version
  BY DEF Publish, Typed
<1>3. Typed'
  <2>1. CASE Moved
    BY <1>2, <2>1 DEF Publish, Typed
  <2>2. CASE Fails
    <3>1. 0 \in Version /\ left' \subseteq Version /\ target' \in Version
      BY <2>2, NoStateTyped DEF Typed, Version
    <3> QED BY <2>2, <3>1 DEF Publish, Typed
  <2> QED BY <1>1, <2>1, <2>2
<1>4. InSection'
  BY <1>1, <1>2, Threads, NoStateTyped DEF Publish, InSection, Typed, Placed, Section
<1>5. Aside'
  BY DEF Publish, Aside, Typed, Placed
<1>6. Placed'
  BY <1>1, <1>2, Threads DEF Publish, Placed, JobPlaces, Section
<1>7. Jobs'
  BY <1>1, <1>2, Threads, NoStateTyped DEF Publish, Jobs, Typed, Placed, RequestPlaces,
     JobPlaces, Section
<1>8. Known'
  BY <1>1, <1>2, Threads, NoStateTyped DEF Publish, Known, Typed, Placed, Section,
     RequestPlaces, JobPlaces, Version
<1>9. OutputKept'
  BY <1>1, <1>2, Threads, NoStateTyped DEF Publish, OutputKept, Published, Typed, Placed
<1>10. Published'
  <2>1. CASE Moved
    <3>1. made[w] <= source /\ made[w] >= 1 /\ print[w] <= made[w] /\ made[w] <= made[w]
      BY <1>2 DEF Published, Made, Section, Version
    <3>2. \A u \in Thread : u # w => pc'[u] \notin Section
      BY <1>2, <2>1 DEF InSection, Placed, Section
    <3>3. /\ published' = made[w] /\ target' = made[w] /\ pc'[w] = "clean"
          /\ UNCHANGED <<made, source, print>>
      BY <2>1 DEF Publish, Placed
    <3>4. \A u \in Thread : u # w => pc'[u] \notin Made \cup {"publish", "clean", "complete", "completed"}
      BY <3>2 DEF Made, Section
    <3> QED BY <3>1, <3>3, <3>4 DEF Published
  <2>2. CASE Fails
    BY <1>2, <2>2, Threads DEF Publish, Published, Known, InSection, Aside, Typed,
       Placed, Section, Made, Version
  <2> QED BY <1>1, <2>1, <2>2
<1>11. ClaimsPublished'
  <2>1. published' >= published
    BY <1>1, <1>2 DEF Published, Made, Section, Typed, Version
  <2> SUFFICES ASSUME file'.built > published'
               PROVE  late'
    BY DEF ClaimsPublished
  <2>2. file.built > published
    BY <1>1, <1>2, <2>1 DEF Publish, Typed, Version, States
  <2> QED BY <2>2 DEF Publish, ClaimsPublished
<1>12. Claims'
  <2>1. published' >= published
    BY <1>1, <1>2 DEF Published, Made, Section, Typed, Version
  <2> SUFFICES ASSUME NEW u \in Thread, view'[u].built > published'
               PROVE  late'
    BY DEF Claims
  <2>2. view[u].built > published
    BY <1>1, <1>2, <2>1 DEF Publish, Typed, Version, States
  <2> QED BY <2>2 DEF Publish, Claims
<1>13. Listed'
  BY Threads DEF Publish, Listed, Typed, Placed
<1>14. CancelReaches'
  <2>1. /\ pc' = [pc EXCEPT ![w] = "clean"] \/ pc' = [pc EXCEPT ![w] = "unlock"]
        /\ UNCHANGED <<proc, cancelled, victim>> /\ proc[w] = "none"
    BY <1>1, <1>2 DEF Publish, InSection, Typed
  <2> QED BY <2>1, Threads DEF CancelReaches, Typed, Placed
<1>15. CancelFindsIt'
  BY DEF Publish, CancelFindsIt
<1> QED BY <1>3, <1>4, <1>5, <1>6, <1>7, <1>8, <1>9, <1>10, <1>11, <1>12, <1>13, <1>14, <1>15

LEMMA CleanKeeps ==
  ASSUME PInv, NEW w \in Thread, Clean(w)
  PROVE  PInv'
<1> USE DEF PInv, disk, cancels, locks, work, world, notes, Goto, Chance, Drop
<1>1. (ClaimsPublished /\ Claims /\ CancelFindsIt)'
  BY DEF Clean, ClaimsPublished, Claims, CancelFindsIt
<1>2. Typed'
  BY Threads, NoStateTyped DEF Clean, Typed, Placed, Version
<1>3. InSection'
  BY Threads, NoStateTyped DEF Clean, InSection, Typed, Placed, Section
<1>4. Aside'
  BY DEF Clean, Aside
<1>5. Placed'
  BY Threads, NoStateTyped DEF Clean, Placed, Typed, RequestPlaces, JobPlaces, Section
<1>6. Jobs'
  BY Threads, NoStateTyped DEF Clean, Jobs, Typed, Placed, RequestPlaces, JobPlaces, Section
<1>7. Known'
  BY Threads, NoStateTyped DEF Clean, Known, Typed, Placed, Section, RequestPlaces,
     JobPlaces, Version
<1>8. OutputKept'
  BY Threads, NoStateTyped DEF Clean, OutputKept, Published, Typed, Placed
<1>9. Published'
  BY Threads, NoStateTyped DEF Clean, Published, Typed, Placed, Made, Section, Version
<1>10. Listed'
  BY DEF Clean, Listed
<1>11. CancelReaches'
  BY DEF Clean, CancelReaches
<1> QED BY <1>1, <1>2, <1>3, <1>4, <1>5, <1>6, <1>7, <1>8, <1>9, <1>10, <1>11

(* What the build claims is what it published.                             *)
LEMMA CompleteKeeps ==
  ASSUME PInv, NEW w \in Thread, Complete(w)
  PROVE  PInv'
<1> USE DEF PInv, disk, cancels, locks, work, world, notes, Goto, Chance, Drop
<1> DEFINE v == IF print[w] = 0 THEN source ELSE print[w]
           c == Observed(Completed(file, v), source)
<1>1. v \in Version /\ v <= source /\ source \in Version
  BY DEF Typed, Known, Version
<1>2. Completed(file, v) \in States /\ Completed(file, v).built = v
  BY <1>1, StateSteps DEF Typed
<1>3. c \in States /\ c.built = v /\ c.current = source
  BY <1>1, <1>2, StateSteps
<1>4. view' = [view EXCEPT ![w] = c]
  BY DEF Complete
<1> HIDE DEF c
<1>5. (OutputKept /\ CancelFindsIt)'
  BY DEF Complete, OutputKept, CancelFindsIt
<1>6. Typed'
  BY <1>3, <1>4, NoStateTyped DEF Complete, Typed
<1>7. InSection'
  BY <1>1, <1>2, <1>3, <1>4, Threads, NoStateTyped DEF Complete, InSection, Typed, Placed, Section
<1>8. Aside'
  BY DEF Complete, Aside
<1>9. Placed'
  BY <1>1, <1>2, <1>3, <1>4, Threads, NoStateTyped DEF Complete, Placed, Typed,
     RequestPlaces, JobPlaces, Section
<1>10. Jobs'
  BY <1>1, <1>2, <1>3, <1>4, Threads, NoStateTyped DEF Complete, Jobs, Typed, Placed,
     RequestPlaces, JobPlaces, Section
<1>11. Known'
  BY <1>1, <1>3, <1>4, Threads DEF Complete, Known, Jobs, Typed, Placed, Section, Version
<1>12. Published'
  BY <1>1, <1>2, <1>3, <1>4, Threads, NoStateTyped DEF Complete, Published, Typed,
     Placed, Made, Section, Version
<1>13. ClaimsPublished'
  BY DEF Complete, ClaimsPublished
<1>14. Claims'
  <2> SUFFICES ASSUME NEW u \in Thread, view'[u].built > published'
               PROVE  late'
    BY DEF Claims
  <2>1. published' = published
    BY DEF Complete
  <2>2. CASE u # w
    <3>1. view[u].built > published
      BY <1>4, <2>1, <2>2 DEF Typed
    <3> QED BY <3>1 DEF Claims, Complete, Placed
  <2>3. CASE u = w
    <3>1. v > published /\ published = made[w] /\ print[w] <= made[w]
      BY <1>3, <1>4, <2>1, <2>3 DEF Complete, Published, Typed, Made, Section
    <3>2. print[w] = 0 /\ source # made[w]
      BY <1>1, <3>1 DEF Typed, Version
    <3>3. w[2] = "request"
      BY <3>2, Threads DEF Complete, Known, Section
    <3> QED BY <3>2, <3>3 DEF Complete
  <2> QED BY <2>2, <2>3
<1>15. Listed'
  BY DEF Complete, Listed
<1>16. CancelReaches'
  BY DEF Complete, CancelReaches
<1> QED BY <1>5, <1>6, <1>7, <1>8, <1>9, <1>10, <1>11, <1>12, <1>13, <1>14, <1>15, <1>16

LEMMA CompleteWritesKeeps ==
  ASSUME PInv, NEW w \in Thread, CompleteWrites(w)
  PROVE  PInv'
<1> USE DEF PInv, disk, cancels, locks, work, world, notes, Goto, Chance, Drop
<1>1. (OutputKept /\ CancelFindsIt)'
  BY DEF CompleteWrites, OutputKept, CancelFindsIt
<1>2. Typed'
  BY Threads, NoStateTyped DEF CompleteWrites, Typed, Placed, Version
<1>3. InSection'
  BY Threads, NoStateTyped DEF CompleteWrites, InSection, Typed, Placed, Section
<1>4. Aside'
  BY DEF CompleteWrites, Aside
<1>5. Placed'
  BY Threads, NoStateTyped DEF CompleteWrites, Placed, Typed, RequestPlaces, JobPlaces, Section
<1>6. Jobs'
  BY Threads, NoStateTyped DEF CompleteWrites, Jobs, Typed, Placed, RequestPlaces,
     JobPlaces, Section
<1>7. Known'
  BY Threads, NoStateTyped DEF CompleteWrites, Known, Typed, Placed, Section,
     RequestPlaces, JobPlaces, Version
<1>8. Published'
  BY Threads, NoStateTyped DEF CompleteWrites, Published, Typed, Placed, Made, Section, Version
<1>9. ClaimsPublished'
  BY Threads, NoStateTyped DEF CompleteWrites, ClaimsPublished, Claims, Typed, Placed
<1>10. Claims'
  BY Threads, NoStateTyped DEF CompleteWrites, Claims, Typed, Placed, Version, Made, Section
<1>11. Listed'
  BY DEF CompleteWrites, Listed
<1>12. CancelReaches'
  BY DEF CompleteWrites, CancelReaches
<1> QED BY <1>1, <1>2, <1>3, <1>4, <1>5, <1>6, <1>7, <1>8, <1>9, <1>10, <1>11, <1>12

LEMMA UnlockKeeps ==
  ASSUME PInv, NEW w \in Thread, Unlock(w)
  PROVE  PInv'
<1> USE DEF PInv, disk, cancels, locks, work, world, notes, Goto, Chance, Drop
<1>1. (OutputKept /\ ClaimsPublished /\ Claims /\ CancelFindsIt)'
  BY DEF Unlock, OutputKept, ClaimsPublished, Claims, CancelFindsIt
<1>2. Typed'
  BY Threads, NoStateTyped DEF Unlock, Typed, Placed, Version
<1>3. InSection'
  BY Threads, NoStateTyped DEF Unlock, InSection, Typed, Placed, Section
<1>4. Aside'
  BY Threads, NoStateTyped DEF Unlock, Aside, InSection, Typed, Placed, Section
<1>5. Placed'
  BY Threads, NoStateTyped DEF Unlock, Placed, Typed, RequestPlaces, JobPlaces, Section
<1>6. Jobs'
  BY Threads, NoStateTyped DEF Unlock, Jobs, Typed, Placed, RequestPlaces, JobPlaces, Section
<1>7. Known'
  BY Threads, NoStateTyped DEF Unlock, Known, Typed, Placed, Section, RequestPlaces,
     JobPlaces, Version
<1>8. Published'
  BY Threads, NoStateTyped DEF Unlock, Published, Typed, Placed, Made, Section, Version
<1>9. Listed'
  BY DEF Unlock, Listed
<1>10. CancelReaches'
  BY DEF Unlock, CancelReaches
<1> QED BY <1>1, <1>2, <1>3, <1>4, <1>5, <1>6, <1>7, <1>8, <1>9, <1>10

(* Nothing depends on the sources but that they only grow.                 *)
LEMMA EditKeeps ==
  ASSUME PInv, Edit
  PROVE  PInv'
<1> USE DEF PInv, disk, cancels, locks, work, world, notes, Goto, Chance, Drop
<1>1. (/\ InSection /\ Aside /\ Jobs /\ OutputKept /\ ClaimsPublished
       /\ Claims /\ Listed /\ CancelReaches /\ CancelFindsIt)'
  BY DEF Edit, InSection, Aside, Jobs, OutputKept, ClaimsPublished, Claims, Listed,
     CancelReaches, CancelFindsIt
<1>2. Typed'
  BY Threads, NoStateTyped DEF Edit, Typed, Placed, Version
<1>3. Placed'
  BY Threads, NoStateTyped DEF Edit, Placed, Typed, Section, Made, RequestPlaces, JobPlaces, Version
<1>4. Known'
  <2>1. /\ source \in Nat /\ source' = source + 1 /\ file.current \in Nat /\ file' = file
        /\ \A u \in Thread : print[u] \in Nat /\ view[u].current \in Nat
        /\ UNCHANGED <<pc, print, view>>
    BY DEF Edit, Typed, States, Version
  <2>2. /\ file.current <= source /\ \A u \in Thread : print[u] <= source /\ view[u].current <= source
    BY DEF Known
  <2>3. /\ file'.current <= source'
        /\ \A u \in Thread : print'[u] <= source' /\ view'[u].current <= source'
    BY <2>1, <2>2
  <2> QED BY <2>1, <2>3 DEF Known
<1>5. Published'
  BY Threads, NoStateTyped DEF Edit, Published, Typed, Placed, Made, Section, Version
<1> QED BY <1>1, <1>2, <1>3, <1>4, <1>5

(* A restart keeps the disk: the output is in its place, or left aside.    *)
LEMMA CrashKeeps ==
  ASSUME PInv, Crash
  PROVE  PInv'
<1> USE DEF PInv, disk, cancels, locks, work, world, notes, Goto, Chance, Drop
<1>1. Typed'
  BY Threads, NoStateTyped DEF Crash, Typed, Placed, Version
<1>2. InSection'
  BY Threads, NoStateTyped DEF Crash, InSection, Typed, Placed, Section
<1>3. Aside'
  BY DEF Crash, Aside
<1>4. Placed'
  BY Threads, NoStateTyped DEF Crash, Placed, Typed, RequestPlaces, JobPlaces, Section
<1>5. Jobs'
  BY Threads, NoStateTyped DEF Crash, Jobs, Typed, Placed, RequestPlaces, JobPlaces, Section
<1>6. Known'
  BY Threads, NoStateTyped DEF Crash, Known, Typed, Placed, Section, RequestPlaces,
     JobPlaces, Version
<1>7. OutputKept'
  BY DEF Crash, OutputKept
<1>8. Published'
  BY Threads, NoStateTyped DEF Crash, Published, Typed, Placed, Made, Section, Version
<1>9. ClaimsPublished'
  BY DEF Crash, ClaimsPublished
<1>10. Claims'
  BY Threads, NoStateTyped DEF Crash, Claims, Typed, Placed, Version, Made, Section
<1>11. Listed'
  BY Threads DEF Crash, Listed, Typed, Placed
<1>12. CancelReaches'
  BY DEF Crash, CancelReaches
<1>13. CancelFindsIt'
  BY DEF Crash, CancelFindsIt
<1> QED BY <1>1, <1>2, <1>3, <1>4, <1>5, <1>6, <1>7, <1>8, <1>9, <1>10, <1>11, <1>12, <1>13

LEMMA StutterKeeps ==
  ASSUME PInv, UNCHANGED vars
  PROVE  PInv'
<1> USE DEF PInv, disk, cancels, locks, work, world, notes, Goto, Chance, Drop
<1>1. (/\ Typed /\ InSection /\ Aside /\ Placed /\ Jobs /\ Known
       /\ OutputKept /\ Published /\ ClaimsPublished
       /\ Claims /\ Listed /\ CancelReaches /\ CancelFindsIt)'
  BY DEF vars, Typed, InSection, Aside, Placed, Jobs, Known, OutputKept, Published,
     ClaimsPublished, Claims, Listed, CancelReaches, CancelFindsIt
<1> QED BY <1>1

LEMMA InitPInv == Init => PInv
<1> SUFFICES ASSUME Init PROVE PInv
  OBVIOUS
<1> USE DEF PInv, Init
<1>1. Typed
  BY Threads, NoStateTyped DEF Typed, Placed, Version
<1>2. InSection
  BY Threads, NoStateTyped DEF InSection, Typed, Placed, Section
<1>3. Aside
  BY DEF Aside
<1>4. Placed
  <2>1. late \in BOOLEAN /\ overlap \in BOOLEAN
    OBVIOUS
  <2> QED BY <2>1, Threads DEF Placed, RequestPlaces
<1>5. Jobs
  BY Threads, NoStateTyped DEF Jobs, Typed, Placed, RequestPlaces, JobPlaces, Section
<1>6. Known
  BY Threads, NoStateTyped DEF Known, Typed, Placed, Section, RequestPlaces, JobPlaces, Version
<1>7. OutputKept
  BY DEF OutputKept
<1>8. Published
  BY Threads, NoStateTyped DEF Published, Typed, Placed, Made, Section, Version
<1>9. ClaimsPublished
  BY Threads, NoStateTyped DEF ClaimsPublished, Typed, Placed, Version
<1>10. Claims
  BY Threads, NoStateTyped DEF Claims, Typed, Placed, Version, Made, Section
<1>11. Listed
  BY Threads DEF Listed, Typed, Placed
<1>12. CancelReaches
  BY DEF CancelReaches
<1>13. CancelFindsIt
  BY DEF CancelFindsIt
<1> QED BY <1>1, <1>2, <1>3, <1>4, <1>5, <1>6, <1>7, <1>8, <1>9, <1>10, <1>11, <1>12, <1>13

LEMMA NextPInv == PInv /\ [Next]_vars => PInv'
<1> SUFFICES ASSUME PInv, [Next]_vars PROVE PInv'
  OBVIOUS
<1>1. ASSUME NEW w \in Thread, Common(w) PROVE PInv'
  BY <1>1, ObserveKeeps, ObserveWritesKeeps, LockBuildsKeeps, LockProjectKeeps,
     GenerateKeeps, LaunchKeeps, ExitKeeps, MoveAsideKeeps, PublishKeeps, CleanKeeps,
     CompleteKeeps, CompleteWritesKeeps, UnlockKeeps DEF Common
<1>2. ASSUME NEW s \in Scope, Ask(s) \/ RequestStep(s) PROVE PInv'
  BY <1>1, <1>2, Threads, StopKeeps, ScheduleKeeps, RequestKeeps, RegisterKeeps,
     CancelKeeps, KillKeeps, AskKeeps DEF RequestStep
<1>3. ASSUME NEW s \in Scope, JobStep(s) PROVE PInv'
  BY <1>1, <1>3, Threads, JobReadsKeeps, JobStartsKeeps, ListKeeps, RecheckKeeps,
     JobEndsKeeps, JobWritesEndKeeps, JobForgetsKeeps DEF JobStep
<1> QED BY <1>2, <1>3, EditKeeps, CrashKeeps, StutterKeeps DEF Next

(* The section of the project, the state file and the jobs agree.          *)
THEOREM PInvHolds == Spec => []PInv
BY InitPInv, NextPInv, PTL DEF Spec

(* For any scopes, requests, edits and restarts, what is served is the     *)
(* last output published, wherever a restart left it, and the state file   *)
(* claims no other (Engine.js:10245-10275, 9956).                          *)
THEOREM OutputIsSafe == Spec => []OutputSafe
<1>1. PInv => OutputSafe
  BY TypeParts DEF PInv, OutputSafe
<1> QED BY <1>1, PInvHolds, PTL

(* For any scopes, a start finds the job a stop scheduled and leaves no    *)
(* process of it: either Kill saw it listed, or the job itself destroys it *)
(* when it looks again.                                                    *)
THEOREM CancelsHold == Spec => []CancelHolds
<1>1. PInv => CancelHolds
  BY DEF PInv, CancelHolds
<1> QED BY <1>1, PInvHolds, PTL

(* What a thread publishes it generated in the section, after whatever was *)
(* published before.                                                       *)
LEMMA PublishAdvances ==
  ASSUME PInv, NEW w \in Thread, Publish(w)
  PROVE  published' >= published
<1>1. published' = made[w] \/ published' = published
  BY DEF Publish
<1>2. published <= made[w]
  BY DEF PInv, Published, Made, Section, Publish
<1> QED BY <1>1, <1>2 DEF PInv, Typed, Version

(* No other step changes what is published.                                *)
LEMMA OthersPublishNothing ==
  ASSUME NEW s \in Scope, NEW w \in Thread,
         \/ Edit \/ Crash \/ Ask(s) \/ Stop(s) \/ Schedule(s) \/ Request(s) \/ Register(s)
         \/ Cancel(s) \/ Kill(s) \/ JobReads(s) \/ JobStarts(s) \/ List(s) \/ Recheck(s)
         \/ JobEnds(s) \/ JobWritesEnd(s) \/ JobForgets(s) \/ (Common(w) /\ ~Publish(w))
  PROVE  UNCHANGED published
<1> QED BY DEF disk, Edit, Crash, Stop, Schedule, Request, Register, Cancel, Kill, Ask,
           JobReads, JobStarts, List, Recheck, JobEnds, JobWritesEnd, JobForgets,
           Observe, ObserveWrites, LockBuilds, LockProject, Generate, Launch, Exit,
           MoveAside, Publish, Clean, Complete, CompleteWrites, Unlock, Common

(* For any scopes, a build in its turn never replaces an output by one of  *)
(* older sources.                                                          *)
THEOREM OutputOnlyAdvances == Spec => OutputAdvances
<1>1. PInv /\ [Next]_vars => [published' >= published]_published
  <2> SUFFICES ASSUME PInv, Next, published' # published
               PROVE  published' >= published
    BY DEF vars, disk
  <2>1. ASSUME NEW w \in Thread, Common(w) PROVE published' >= published
    BY <2>1, PublishAdvances, OthersPublishNothing, Threads
  <2>2. ASSUME NEW s \in Scope, Ask(s) \/ RequestStep(s) \/ JobStep(s) PROVE published' >= published
    <3>1. CASE Common(R(s)) \/ Common(J(s))
      BY <2>1, <3>1, Threads
    <3>2. CASE ~(Common(R(s)) \/ Common(J(s)))
      BY <2>2, <3>2, OthersPublishNothing, Threads DEF RequestStep, JobStep
    <3> QED BY <3>1, <3>2
  <2>3. CASE Edit \/ Crash
    BY <2>3 DEF Edit, Crash, disk
  <2> QED BY <2>2, <2>3 DEF Next
<1> QED BY <1>1, PInvHolds, PTL DEF Spec, OutputAdvances

-----------------------------------------------------------------------------
(* What a stop found dirty is published in the end.  While it is owed some *)
(* scope is about to register a job for it, or has one that has not taken  *)
(* its sources yet, took them after the stop, or failed.                   *)
Ahead == {"buildLock", "start", "started", "projectLock", "generate"}
Building == {"launch", "list", "recheck", "wait", "promote", "publish"}
JobOwes(s) ==
  /\ s \notin cancelled
  /\ \/ pc[J(s)] \in Ahead
     \/ pc[J(s)] \in Building /\ owed <= made[J(s)]
     \/ pc[J(s)] \in {"unlock", "ended"} /\ ~ok[J(s)]
Owes(s) == pc[R(s)] \in {"request", "register"} \/ JobOwes(s)
OwedInv ==
  /\ owed <= source
  /\ owed > published /\ ~refused => \E s \in Scope : Owes(s)

(* A scope whose threads stay where they are owes what it owed.            *)
LEMMA OwesStays ==
  ASSUME NEW s \in Scope, Owes(s), owed' = owed, pc'[R(s)] = pc[R(s)], pc'[J(s)] = pc[J(s)],
         made'[J(s)] = made[J(s)], ok'[J(s)] = ok[J(s)], s \in cancelled' => s \in cancelled
  PROVE  Owes(s)'
BY DEF Owes, JobOwes

(* A job takes its sources after the stop, and publishes them or fails.    *)
LEMMA JobMoves ==
  ASSUME PInv, OwedInv, NEW s \in Scope, JobOwes(s), Common(J(s)), owed > published'
  PROVE  JobOwes(s)'
<1> DEFINE w == J(s)
<1>1. /\ w \in Thread /\ w[1] = s /\ w[2] = "job" /\ s \notin cancelled
      /\ pc \in [Thread -> RequestPlaces \cup JobPlaces] /\ made \in [Thread -> Version]
      /\ ok \in [Thread -> BOOLEAN] /\ source \in Version /\ owed \in Version
  BY Threads DEF PInv, Typed, Placed, JobOwes
<1>2. /\ \/ pc[w] \in Ahead
         \/ pc[w] \in Building /\ owed <= made[w]
         \/ pc[w] \in {"unlock", "ended"} /\ ~ok[w]
      /\ pc[w] # "idle" => task[w] = "build"
  BY DEF JobOwes, PInv, Jobs
<1> HIDE DEF w
<1> SUFFICES /\ s \notin cancelled'
             /\ \/ pc'[w] \in Ahead
                \/ pc'[w] \in Building /\ owed' <= made'[w]
                \/ pc'[w] \in {"unlock", "ended"} /\ ~ok'[w]
  BY DEF JobOwes, w
<1>3. Common(w)
  BY DEF w
<1>4. CASE Observe(w) \/ ObserveWrites(w) \/ Clean(w) \/ Complete(w) \/ CompleteWrites(w)
  BY <1>2, <1>4 DEF Observe, ObserveWrites, Clean, Complete, CompleteWrites, Ahead, Building
<1>5. CASE LockBuilds(w) \/ LockProject(w)
  BY <1>1, <1>2, <1>5 DEF LockBuilds, LockProject, Goto, Ahead, cancels, notes
<1>6. CASE Generate(w)
  <2>1. /\ pc[w] = "generate" /\ task[w] = "build" /\ made'[w] = source
        /\ owed' = owed /\ cancelled' = cancelled
    BY <1>1, <1>2, <1>6 DEF Generate, cancels
  <2>2. pc'[w] = "launch" \/ (pc'[w] = "unlock" /\ ok'[w] = FALSE)
    BY <1>1, <1>6, <2>1 DEF Generate, Goto
  <2> QED BY <1>1, <2>1, <2>2 DEF OwedInv, Building
<1>7. CASE Launch(w)
  BY <1>1, <1>2, <1>7 DEF Launch, Goto, Ahead, Building, cancels, notes
<1>8. CASE Exit(w)
  <2>1. pc[w] = "wait" /\ UNCHANGED <<made, owed, cancelled>> /\ owed <= made[w]
    BY <1>2, <1>8 DEF Exit, Ahead
  <2>2. pc'[w] = "promote" \/ (pc'[w] = "unlock" /\ ok'[w] = FALSE)
    BY <1>1, <1>8 DEF Exit, Goto
  <2> QED BY <1>1, <2>1, <2>2 DEF Building
<1>9. CASE MoveAside(w)
  <2>1. pc[w] = "promote" /\ UNCHANGED <<made, owed, cancelled>> /\ owed <= made[w]
    BY <1>2, <1>9 DEF MoveAside, Ahead, cancels
  <2>2. pc'[w] = "publish" \/ (pc'[w] = "unlock" /\ ok'[w] = FALSE)
    BY <1>1, <1>9 DEF MoveAside, Goto
  <2> QED BY <1>1, <2>1, <2>2 DEF Building
<1>10. CASE Publish(w)
  <2>1. pc[w] = "publish" /\ UNCHANGED <<made, owed, cancelled>> /\ owed <= made[w]
    BY <1>2, <1>10 DEF Publish, Ahead, cancels
  <2>2. published' # made[w]
    BY <1>1, <2>1 DEF Version
  <2>3. pc'[w] = "unlock" /\ ok'[w] = FALSE
    BY <1>1, <1>10, <2>2 DEF Publish, Goto
  <2> QED BY <1>1, <2>1, <2>3
<1>11. CASE Unlock(w)
  BY <1>1, <1>2, <1>11 DEF Unlock, Goto, Ahead, Building, cancels, notes
<1> QED BY <1>3, <1>4, <1>5, <1>6, <1>7, <1>8, <1>9, <1>10, <1>11 DEF Common

(* A step a request and a job may both take.                               *)
LEMMA CommonOwed ==
  ASSUME PInv, OwedInv, NEW w \in Thread, Common(w)
  PROVE  OwedInv'
<1>1. /\ UNCHANGED <<owed, refused, cancelled, source>>
      /\ pc[w] \notin {"request", "register"}
      /\ \A v \in Thread : v # w => pc'[v] = pc[v] /\ made'[v] = made[v] /\ ok'[v] = ok[v]
  <2>1. UNCHANGED <<owed, refused, cancelled, source>> /\ pc[w] \notin {"request", "register"}
    BY DEF Common, Observe, ObserveWrites, LockBuilds, LockProject, Generate, Launch, Exit,
       MoveAside, Publish, Clean, Complete, CompleteWrites, Unlock, cancels, notes, world
  <2>2. /\ pc \in [Thread -> RequestPlaces \cup JobPlaces] /\ made \in [Thread -> Version]
        /\ ok \in [Thread -> BOOLEAN]
    BY DEF PInv, Typed, Placed
  <2>3. \A v \in Thread : v # w => pc'[v] = pc[v]
    BY <2>2 DEF Common, Observe, ObserveWrites, LockBuilds, LockProject, Generate, Launch, Exit,
       MoveAside, Publish, Clean, Complete, CompleteWrites, Unlock, Goto
  <2>4. \A v \in Thread : v # w => made'[v] = made[v] /\ ok'[v] = ok[v]
    BY <2>2 DEF Common, Observe, ObserveWrites, LockBuilds, LockProject, Generate, Launch, Exit,
       MoveAside, Publish, Clean, Complete, CompleteWrites, Unlock, work
  <2> QED BY <2>1, <2>3, <2>4
<1>2. published' >= published /\ published' \in Version
  <2>1. PICK s \in Scope : w = R(s) \/ w = J(s)
    BY Threads
  <2>2. CASE Publish(w)
    <3>1. published' \in {made[w], published}
      BY <2>2 DEF Publish
    <3> QED BY <2>2, <3>1, PublishAdvances DEF PInv, Typed
  <2>3. CASE ~Publish(w)
    BY <2>1, <2>3, OthersPublishNothing DEF PInv, Typed, Version
  <2> QED BY <2>2, <2>3
<1>3. owed' <= source'
  BY <1>1 DEF OwedInv
<1>4. ASSUME owed' > published', ~refused' PROVE \E s \in Scope : Owes(s)'
  <2>1. owed > published /\ ~refused /\ owed > published'
    BY <1>1, <1>2, <1>4 DEF PInv, Typed, Version
  <2>2. PICK s \in Scope : Owes(s)
    BY <2>1 DEF OwedInv
  <2>3. R(s) \in Thread /\ J(s) \in Thread /\ R(s) # J(s)
    BY Threads
  <2>4. CASE w = J(s)
    <3>1. CASE pc[R(s)] \in {"request", "register"}
      BY <1>1, <2>3, <2>4, <3>1 DEF Owes
    <3>2. CASE JobOwes(s)
      BY <2>1, <2>4, <3>2, JobMoves DEF Owes
    <3> QED BY <2>2, <3>1, <3>2 DEF Owes
  <2>5. CASE w = R(s)
    BY <1>1, <2>2, <2>3, <2>5 DEF Owes, JobOwes
  <2>6. CASE w # J(s) /\ w # R(s)
    BY <1>1, <2>2, <2>3, <2>6, OwesStays
  <2> QED BY <2>4, <2>5, <2>6
<1> QED BY <1>3, <1>4 DEF OwedInv

(* A step that owes what was owed, and where each scope owes what it did.  *)
LEMMA SameOwed ==
  ASSUME OwedInv, UNCHANGED <<owed, refused, published, source>>,
         \A s \in Scope : Owes(s) => Owes(s)'
  PROVE  OwedInv'
BY DEF OwedInv

(* A step after which nothing is owed, as a start or a restart leaves it.  *)
LEMMA NothingOwed ==
  ASSUME PInv, owed' = 0, source' = source, published' = published
  PROVE  OwedInv'
BY DEF PInv, Typed, Version, OwedInv

(* A step of the request of scope s.                                       *)
LEMMA RequestOwed ==
  ASSUME PInv, OwedInv, NEW s \in Scope,
         Ask(s) \/ Stop(s) \/ Schedule(s) \/ Request(s) \/ Register(s) \/ Cancel(s) \/ Kill(s)
  PROVE  OwedInv'
<1>1. /\ pc \in [Thread -> RequestPlaces \cup JobPlaces] /\ R(s) \in Thread
      /\ cancelled \subseteq Scope
  BY Threads DEF PInv, Placed, Typed
<1>2. CASE Ask(s) \/ Stop(s) \/ Kill(s)
  <2>1. /\ pc[R(s)] \notin {"request", "register"} /\ \A v \in Thread : v # R(s) => pc'[v] = pc[v]
        /\ UNCHANGED <<owed, refused, published, source, made, ok>>
    BY <1>1, <1>2 DEF Ask, Stop, Kill, Goto, disk, world, notes, work
  <2>2. cancelled' = cancelled
    BY <1>2 DEF Ask, Stop, Kill, cancels
  <2>3. ASSUME NEW t \in Scope, Owes(t) PROVE Owes(t)'
    <3>1. CASE t = s
      BY <2>1, <2>2, <2>3, <3>1, Threads DEF Owes, JobOwes
    <3>2. CASE t # s
      BY <2>1, <2>2, <2>3, <3>2, Threads, OwesStays
    <3> QED BY <3>1, <3>2
  <2> QED BY <2>1, <2>3, SameOwed
<1>3. CASE Schedule(s)
  <2>1. /\ pc[R(s)] = "schedule" /\ \A v \in Thread : v # R(s) => pc'[v] = pc[v]
        /\ UNCHANGED <<cancelled, published, source, made, ok>>
    BY <1>1, <1>3 DEF Schedule, Goto, disk, cancels, world
  <2>2. CASE ~view[R(s)].dirty
    <3>1. UNCHANGED <<owed, refused>>
      BY <1>3, <2>2 DEF Schedule
    <3>2. ASSUME NEW t \in Scope, Owes(t) PROVE Owes(t)'
      <4>1. CASE t = s
        BY <2>1, <3>1, <3>2, <4>1, Threads DEF Owes, JobOwes
      <4>2. CASE t # s
        BY <2>1, <3>1, <3>2, <4>2, Threads, OwesStays
      <4> QED BY <4>1, <4>2
    <3> QED BY <2>1, <3>1, <3>2, SameOwed
  <2>3. CASE view[R(s)].dirty
    <3>1. owed' = view[R(s)].current /\ refused' = (s \in builds)
      BY <1>3, <2>3 DEF Schedule
    <3>2. owed' <= source'
      BY <1>1, <2>1, <3>1 DEF PInv, Known
    <3>3. CASE s \in builds
      BY <3>1, <3>2, <3>3 DEF OwedInv
    <3>4. CASE s \notin builds
      <4>1. pc'[R(s)] = "request"
        BY <1>1, <1>3, <2>3, <3>4 DEF Schedule, Goto
      <4> QED BY <3>2, <4>1 DEF OwedInv, Owes
    <3> QED BY <3>3, <3>4
  <2> QED BY <2>2, <2>3
<1>4. CASE Request(s)
  <2>1. /\ pc'[R(s)] = "register" /\ \A v \in Thread : v # R(s) => pc'[v] = pc[v]
        /\ UNCHANGED <<owed, refused, cancelled, published, source, made, ok>>
    BY <1>1, <1>4 DEF Request, Goto, disk, cancels, world, notes
  <2>2. ASSUME NEW t \in Scope, Owes(t) PROVE Owes(t)'
    <3>1. CASE t = s
      BY <2>1, <3>1 DEF Owes
    <3>2. CASE t # s
      BY <2>1, <2>2, <3>2, Threads, OwesStays
    <3> QED BY <3>1, <3>2
  <2> QED BY <2>1, <2>2, SameOwed
<1>5. CASE Register(s)
  <2>1. /\ pc'[J(s)] = "buildLock" /\ cancelled' = cancelled \ {s}
        /\ \A v \in Thread : v # R(s) /\ v # J(s) => pc'[v] = pc[v]
        /\ UNCHANGED <<owed, refused, published, source, made, ok>>
    BY <1>1, <1>5, Threads DEF Register, disk, world, notes, work
  <2>2. ASSUME NEW t \in Scope, Owes(t) PROVE Owes(t)'
    <3>1. CASE t = s
      BY <2>1, <3>1 DEF Owes, JobOwes, Ahead
    <3>2. CASE t # s
      BY <2>1, <2>2, <3>2, Threads, OwesStays
    <3> QED BY <3>1, <3>2
  <2> QED BY <2>1, <2>2, SameOwed
<1>6. CASE Cancel(s)
  BY <1>6, NothingOwed DEF Cancel, disk, world
<1> QED BY <1>2, <1>3, <1>4, <1>5, <1>6

(* A step of the job of scope s.                                           *)
LEMMA JobOwed ==
  ASSUME PInv, OwedInv, NEW s \in Scope,
         \/ JobReads(s) \/ JobStarts(s) \/ List(s) \/ Recheck(s)
         \/ JobEnds(s) \/ JobWritesEnd(s) \/ JobForgets(s)
  PROVE  OwedInv'
<1>1. /\ pc \in [Thread -> RequestPlaces \cup JobPlaces] /\ J(s) \in Thread
      /\ made \in [Thread -> Version] /\ ok \in [Thread -> BOOLEAN]
  BY Threads DEF PInv, Placed, Typed
<1>2. CASE JobEnds(s) /\ s \notin cancelled /\ ~ok[J(s)]
  BY <1>2, NothingOwed DEF JobEnds, disk, world
<1>3. CASE ~(JobEnds(s) /\ s \notin cancelled /\ ~ok[J(s)])
  <2>1. /\ UNCHANGED <<owed, refused, published, source>>
        /\ \A v \in Thread : v # J(s) => pc'[v] = pc[v] /\ made'[v] = made[v] /\ ok'[v] = ok[v]
        /\ \A t \in Scope : t \in cancelled' => t \in cancelled
    <3>1. UNCHANGED <<owed, refused, published, source>>
      BY <1>3 DEF JobReads, JobStarts, List, Recheck, JobEnds, JobWritesEnd, JobForgets, disk,
         world, notes
    <3>2. \A v \in Thread : v # J(s) => pc'[v] = pc[v]
      BY <1>1 DEF JobReads, JobStarts, List, Recheck, JobEnds, JobWritesEnd, JobForgets, Goto
    <3>3. \A v \in Thread : v # J(s) => made'[v] = made[v] /\ ok'[v] = ok[v]
      BY <1>1 DEF JobReads, JobStarts, List, Recheck, JobEnds, JobWritesEnd, JobForgets, work
    <3>4. \A t \in Scope : t \in cancelled' => t \in cancelled
      BY DEF JobReads, JobStarts, List, Recheck, JobEnds, JobWritesEnd, JobForgets, cancels
    <3> QED BY <3>1, <3>2, <3>3, <3>4
  <2>2. JobOwes(s) => JobOwes(s)'
    <3> SUFFICES ASSUME JobOwes(s) PROVE JobOwes(s)'
      OBVIOUS
    <3>1. CASE JobReads(s) \/ JobStarts(s)
      <4>1. pc[J(s)] \in {"start", "started"} /\ s \notin cancelled
        BY <3>1 DEF JobReads, JobStarts, JobOwes
      <4>2. pc'[J(s)] \in {"started", "projectLock"}
        BY <1>1, <3>1, <4>1 DEF JobReads, JobStarts, Goto
      <4> QED BY <2>1, <4>1, <4>2 DEF JobOwes, Ahead
    <3>2. CASE List(s) \/ Recheck(s)
      <4>1. /\ pc[J(s)] \in {"list", "recheck"} /\ pc'[J(s)] \in {"recheck", "wait"}
            /\ made' = made
        BY <1>1, <3>2 DEF List, Recheck, Goto, work
      <4> QED BY <2>1, <4>1 DEF JobOwes, Ahead, Building
    <3>3. CASE JobEnds(s) \/ JobWritesEnd(s) \/ JobForgets(s)
      BY <1>3, <3>3 DEF JobEnds, JobWritesEnd, JobForgets, JobOwes, Ahead, Building
    <3> QED BY <3>1, <3>2, <3>3
  <2>3. ASSUME NEW t \in Scope, Owes(t) PROVE Owes(t)'
    <3>1. CASE t = s
      BY <2>1, <2>2, <2>3, <3>1, Threads DEF Owes
    <3>2. CASE t # s
      BY <2>1, <2>3, <3>2, Threads, OwesStays
    <3> QED BY <3>1, <3>2
  <2> QED BY <2>1, <2>3, SameOwed
<1> QED BY <1>2, <1>3

(* Whichever scope is asked, and whatever fails or restarts, the sources a *)
(* stop found dirty are published once nobody is at work, unless the mode  *)
(* started again, the build failed, or a build of the scope was under way  *)
(* and refused the stop (Engine.js:12011).                                 *)
THEOREM StopsBuild == Spec => []StopBuilds
<1>1. Init => OwedInv
  BY DEF Init, OwedInv
<1>2. PInv /\ OwedInv /\ [Next]_vars => OwedInv'
  <2> SUFFICES ASSUME PInv, OwedInv, [Next]_vars PROVE OwedInv'
    OBVIOUS
  <2>1. ASSUME NEW s \in Scope, Ask(s) \/ RequestStep(s) \/ JobStep(s) PROVE OwedInv'
    <3>1. CASE Common(R(s)) \/ Common(J(s))
      BY <3>1, CommonOwed, Threads
    <3>2. CASE ~(Common(R(s)) \/ Common(J(s)))
      BY <2>1, <3>2, RequestOwed, JobOwed DEF RequestStep, JobStep
    <3> QED BY <3>1, <3>2
  <2>2. CASE Edit
    <3>1. /\ UNCHANGED <<owed, refused, published, pc, made, ok, cancelled>>
          /\ source' = source + 1
      BY <2>2 DEF Edit, disk, cancels, notes, work
    <3>2. owed' <= source'
      BY <3>1 DEF OwedInv, PInv, Typed, Version
    <3> QED BY <3>1, <3>2 DEF OwedInv, Owes, JobOwes
  <2>3. CASE Crash
    BY <2>3, NothingOwed DEF Crash
  <2>4. CASE UNCHANGED vars
    BY <2>4 DEF vars, disk, cancels, work, world, notes, OwedInv, Owes, JobOwes
  <2> QED BY <2>1, <2>2, <2>3, <2>4 DEF Next
<1>3. PInv /\ OwedInv => StopBuilds
  <2> SUFFICES ASSUME PInv, OwedInv, Quiet, owed > published, ~refused PROVE FALSE
    BY DEF StopBuilds, PInv, Typed
  <2>1. PICK s \in Scope : Owes(s)
    BY DEF OwedInv
  <2>2. pc[R(s)] = "idle" /\ pc[J(s)] = "idle"
    BY Threads DEF Quiet
  <2> QED BY <2>1, <2>2 DEF Owes, JobOwes, Ahead, Building
<1> QED BY <1>1, <1>2, <1>3, PInvHolds, PTL DEF Spec

-----------------------------------------------------------------------------
(* The development server: what holds of every state, whatever happened.   *)
Wide == [status : Statuses \cup {"free", "absent"}, pid : Nat, reason : Reasons, own : BOOLEAN,
         app : BOOLEAN, cancelled : BOOLEAN, act : BOOLEAN, watched : BOOLEAN, old : BOOLEAN,
         scope : Scopes \cup {"none"}]
Entries == {e \in Wide : e.status # "absent"}
Records == [pid : Nat, status : Statuses \cup {"absent"}, reason : Reasons]
Places == {"off", "look", "http", "reread", "answer", "finalize", "background", "generate",
           "install", "launch", "ready", "publish", "record", "failed", "prepare"}
Activating == {"off", "prepare", "launch", "ready", "publish", "record", "failed"}
Idling == {"off", "top", "check", "check other", "poll", "gone", "write", "stop", "final"}
Operations == {"none", "start", "background", "stop", "sync", "open", "sync start", "restart"}

DevTyped ==
  /\ entry \in [Ids -> Entries]
  /\ map \in [Scopes -> {0} \cup Ids]
  /\ saved \in Records
  /\ at \in [Runner -> Places]
  /\ idle \in [Ids -> Idling]
  /\ exits \in [Ids -> {"off", "wait", "write"}]
  /\ snap \in [Ids -> [idle : Records, exit : Records]]
  /\ request \in [op : Operations, scope : Scopes \cup {"none"}, entry : {0} \cup Ids]
  /\ launched \in [Runner -> Nat]
  /\ excused \in BOOLEAN /\ stopped \in BOOLEAN /\ restarted \in BOOLEAN

(* Processes are numbered as they are born; the log holds the address of   *)
(* a Vite server, never of an installation.                                *)
Numbered ==
  /\ born \in Nat /\ born <= MaxProcesses /\ log \in Nat /\ log <= born
  /\ alive \subseteq 1 .. born /\ setups \subseteq 1 .. born
  /\ log \notin setups

Used(i) == entry[i].status # "free"
Dead(p) == p \notin alive
Setup(p) == p = 0 \/ p \in setups
Over == {"stopped", "exited", "prepared", "failed"}
KindOf(status, p) == /\ status \in {"free", "starting", "prepared", "failed"} => Setup(p)
                     /\ status \in {"running", "stopping"} => ~Setup(p)

(* The status of an entry says what its process is, an installation or a   *)
(* server, and whether it is dead.                                         *)
EntryFine(i) ==
  /\ Used(i) => entry[i].scope \in Scopes
  /\ entry[i].status \in Over => Dead(entry[i].pid)
  /\ KindOf(entry[i].status, entry[i].pid)
  /\ entry[i].cancelled => Dead(entry[i].pid) \/ Setup(entry[i].pid)
  /\ entry[i].pid <= born

(* Where a thread is tells what it launched.                               *)
ThreadFine(w) ==
  /\ at[w] \in {"ready", "publish"} => launched[w] \in 1 .. born /\ launched[w] \notin setups
  /\ at[w] = "record" => /\ launched[w] \in Ids
                         /\ Used(launched[w]) /\ ~Setup(entry[launched[w]].pid)
  /\ w # 0 => at[w] \in Activating
  /\ w # 0 /\ at[w] # "off" => Used(w) /\ Setup(entry[w].pid) /\ (at[w] # "prepare" => Dead(entry[w].pid))

RequestFine ==
  /\ at[0] # "off" => request.scope \in Scopes
  /\ at[0] # "prepare"
  /\ request.entry # 0 => Used(request.entry)
  /\ at[0] \in {"http", "finalize", "generate"} => request.entry # 0
  /\ at[0] = "finalize" => Dead(entry[request.entry].pid)
  /\ request.op = "sync start" =>
       request.entry # 0 /\ at[0] \in {"install", "launch", "ready", "publish", "record", "failed"}

(* A watcher watches a server, and knows when it is dead.                  *)
WatchFine(i) ==
  /\ idle[i] # "off" \/ exits[i] # "off" => Used(i) /\ ~Setup(entry[i].pid)
  /\ idle[i] \in {"gone", "write", "final"} => Dead(entry[i].pid)
  /\ idle[i] = "write" => snap[i].idle.pid = entry[i].pid
  /\ exits[i] = "write" => Dead(entry[i].pid) /\ snap[i].exit.pid = entry[i].pid

MapFine(s) == map[s] # 0 => Used(map[s]) /\ entry[map[s]].scope = s

(* The state file says as much of a process as an entry does.              *)
FileFine ==
  /\ saved.pid <= born
  /\ KindOf(saved.status, saved.pid)
  /\ saved.status \in Over => Dead(saved.pid)
  /\ saved.status = "absent" => saved = NoFile

Basic ==
  /\ DevTyped /\ Numbered /\ FileFine /\ RequestFine
  /\ \A i \in Ids : EntryFine(i) /\ WatchFine(i)
  /\ \A w \in Runner : ThreadFine(w)
  /\ \A s \in Scopes : MapFine(s)

-----------------------------------------------------------------------------
(* The limits are natural numbers.                                         *)
LEMMA Limits == MaxEntries \in Nat /\ MaxProcesses \in Nat /\ 0 \notin Ids
  BY DevBoundsAssumption DEF Ids

LEMMA FreshFree == ASSUME DevTyped, HasFresh
                   PROVE  Fresh \in Ids /\ entry[Fresh].status = "free" /\ Fresh # 0
  BY Limits DEF Fresh, HasFresh

(* What the records the operators build are.                               *)
LEMMA FreeTyped == Free \in Entries /\ Free.status = "free" /\ Free.pid = 0 /\ Free.scope = "none"
                   /\ Free.cancelled = FALSE
  BY DEF Free, Entries, Wide, Statuses, Reasons

LEMMA LoadedTyped ==
  ASSUME NEW f \in Records, NEW s \in Scopes
  PROVE  /\ Loaded(f, s) \in Wide
         /\ Loaded(f, s).status = f.status /\ Loaded(f, s).pid = f.pid /\ Loaded(f, s).scope = s
         /\ Loaded(f, s).cancelled = FALSE /\ Loaded(f, s).own = FALSE /\ Loaded(f, s).old = FALSE
  BY DEF Loaded, Free, Wide, Records, Statuses, Reasons

LEMMA PreparedTyped ==
  ASSUME NEW e \in Wide
  PROVE  /\ Prepared(e) \in Wide
         /\ Prepared(e).pid = e.pid /\ Prepared(e).scope = e.scope
         /\ Prepared(e).cancelled = e.cancelled /\ Prepared(e).own = e.own
         /\ Prepared(e).old = e.old /\ Prepared(e).act = e.act
         /\ e.status # "starting" \/ e.pid \in alive => Prepared(e) = e
         /\ e.status = "starting" /\ e.pid \notin alive
              => Prepared(e).status \in {"prepared", "stopped", "failed"}
         /\ e.status = "starting" /\ e.pid \notin alive /\ ~e.own => Prepared(e).status = "prepared"
         /\ Prepared(e).status = "starting" => e.pid \in alive
  BY DEF Prepared, Wide, Statuses

LEMMA DestroyedTyped ==
  ASSUME NEW e \in Entries, NEW why \in Reasons
  PROVE  /\ Destroyed(e, why) \in Entries
         /\ Destroyed(e, why).pid = e.pid /\ Destroyed(e, why).scope = e.scope
         /\ Destroyed(e, why).status = e.status /\ Destroyed(e, why).cancelled = TRUE
         /\ Destroyed(e, why).old = e.old
  BY DEF Destroyed, Entries, Wide

LEMMA StateTyped ==
  ASSUME NEW e \in Entries, e.status # "free"
  PROVE  State(e) \in Records /\ State(e).pid = e.pid /\ State(e).status = e.status
         /\ State(e).status # "absent"
  BY DEF State, Entries, Wide, Records

LEMMA FinalTyped ==
  ASSUME NEW f \in Records, NEW c \in BOOLEAN, NEW r \in Reasons
  PROVE  Final(f, c, r) \in Records /\ Final(f, c, r).pid = f.pid
         /\ Final(f, c, r).status \in {"stopped", "exited"}
  BY DEF Final, Records, Statuses, Reasons

LEMMA AgedTyped ==
  ASSUME NEW es \in [Ids -> Entries], NEW i
  PROVE  /\ Aged(es, i) \in [Ids -> Entries]
         /\ \A j \in Ids : /\ Aged(es, i)[j].status = es[j].status
                           /\ Aged(es, i)[j].pid = es[j].pid
                           /\ Aged(es, i)[j].scope = es[j].scope
                           /\ Aged(es, i)[j].cancelled = es[j].cancelled
                           /\ es[j].old => Aged(es, i)[j].old
                           /\ j # i /\ es[j].status # "free" => Aged(es, i)[j].old
  <1>1. \A j \in Ids : [es[j] EXCEPT !.old = TRUE] \in Entries
    BY DEF Entries, Wide
  <1>2. \A j \in Ids : /\ [es[j] EXCEPT !.old = TRUE].status = es[j].status
                       /\ [es[j] EXCEPT !.old = TRUE].pid = es[j].pid
                       /\ [es[j] EXCEPT !.old = TRUE].scope = es[j].scope
                       /\ [es[j] EXCEPT !.old = TRUE].cancelled = es[j].cancelled
                       /\ [es[j] EXCEPT !.old = TRUE].old = TRUE
    BY DEF Entries, Wide
  <1>3. \A j \in Ids : Aged(es, i)[j] = IF j = i \/ es[j].status = "free" THEN es[j]
                                        ELSE [es[j] EXCEPT !.old = TRUE]
    BY DEF Aged
  <1>4. Aged(es, i) \in [Ids -> Entries]
    BY <1>1 DEF Aged
  <1>. QED BY <1>2, <1>3, <1>4

LEMMA Fields ==
  ASSUME NEW e \in Entries
  PROVE  /\ e.status \in Statuses \cup {"free"} /\ e.pid \in Nat
         /\ e.scope \in Scopes \cup {"none"} /\ e.reason \in Reasons
         /\ e.cancelled \in BOOLEAN /\ e.old \in BOOLEAN /\ e \in Wide
  BY DEF Entries, Wide

-----------------------------------------------------------------------------
(* What every step but a restart of the engine does: dead processes stay   *)
(* dead, what a process is does not change, and an entry in use remains    *)
(* the one of its process and of its scope.                                *)
Grows == /\ born' \in Nat /\ born <= born'
         /\ \A p \in Nat : p <= born => (p \notin alive => p \notin alive')
         /\ \A p \in Nat : p <= born => (p \in setups <=> p \in setups')
KeptAt(i) == entry[i].status # "free" =>
  entry'[i].status # "free" /\ entry'[i].pid = entry[i].pid /\ entry'[i].scope = entry[i].scope
AsIs(i) == /\ entry'[i].status = entry[i].status /\ entry'[i].pid = entry[i].pid
           /\ entry'[i].scope = entry[i].scope /\ entry'[i].cancelled = entry[i].cancelled
Kept == Grows /\ \A i \in Ids : KeptAt(i)

LEMMA Pids ==
  ASSUME Basic
  PROVE  /\ born \in Nat /\ \A i \in Ids : entry[i].pid \in Nat /\ entry[i].pid <= born
         /\ saved.pid \in Nat /\ saved.pid <= born
  BY DEF Basic, DevTyped, Numbered, EntryFine, FileFine, Records, Entries, Wide, Over

LEMMA EntriesStay ==
  ASSUME Basic, Grows
  PROVE  \A i \in Ids : AsIs(i) => EntryFine(i)'
  <1> SUFFICES ASSUME NEW i \in Ids, AsIs(i) PROVE EntryFine(i)'
    OBVIOUS
  <1>1. EntryFine(i) /\ entry[i].pid \in Nat /\ entry[i].pid <= born /\ born \in Nat
    BY Pids DEF Basic
  <1>2. (Setup(entry[i].pid))' <=> Setup(entry[i].pid)
    BY <1>1 DEF Grows, AsIs, Setup
  <1>3. Dead(entry[i].pid) => (Dead(entry[i].pid))'
    BY <1>1 DEF Grows, AsIs, Dead
  <1>. QED BY <1>1, <1>2, <1>3 DEF EntryFine, AsIs, Grows, Used, Over, Terminal, KindOf

LEMMA WatchesStay ==
  ASSUME Basic, Grows
  PROVE  \A i \in Ids : /\ KeptAt(i)
                        /\ idle'[i] = idle[i] /\ exits'[i] = exits[i] /\ snap'[i] = snap[i]
                        => WatchFine(i)'
  <1> SUFFICES ASSUME NEW i \in Ids, KeptAt(i),
                      idle'[i] = idle[i], exits'[i] = exits[i], snap'[i] = snap[i]
               PROVE  WatchFine(i)'
    OBVIOUS
  <1>1. WatchFine(i) /\ entry[i].pid \in Nat /\ entry[i].pid <= born /\ born \in Nat
    BY Pids DEF Basic
  <1>. QED BY <1>1 DEF WatchFine, KeptAt, Grows, Used, Setup, Dead, Over

LEMMA ThreadsStay ==
  ASSUME Basic, Kept
  PROVE  \A w \in Runner : at'[w] = at[w] /\ launched'[w] = launched[w] => ThreadFine(w)'
  <1> SUFFICES ASSUME NEW w \in Runner, at'[w] = at[w], launched'[w] = launched[w] PROVE ThreadFine(w)'
    OBVIOUS
  <1>1. ThreadFine(w) /\ born \in Nat /\ launched[w] \in Nat
    BY Pids DEF Basic, DevTyped
  <1>2. \A i \in Ids : entry[i].pid \in Nat /\ entry[i].pid <= born
    BY Pids
  <1>3. \A i \in Ids : Used(i) =>
          /\ Used(i)' /\ (Setup(entry[i].pid) <=> (Setup(entry[i].pid))')
          /\ Dead(entry[i].pid) => (Dead(entry[i].pid))'
    BY <1>2 DEF Kept, KeptAt, Grows, Used, Setup, Dead
  <1>4. launched[w] \in 1 .. born /\ launched[w] \notin setups
          => launched[w] \in 1 .. born' /\ launched[w] \notin setups'
    BY <1>1 DEF Kept, Grows
  <1>5. w # 0 => w \in Ids
    BY DEF Runner
  <1>6. at[w] = "record" => launched[w] \in Ids /\ (Used(launched[w]) /\ ~Setup(entry[launched[w]].pid))'
    <2>1. at[w] = "record" => launched[w] \in Ids /\ Used(launched[w]) /\ ~Setup(entry[launched[w]].pid)
      BY <1>1 DEF ThreadFine
    <2>2. at[w] = "record" => /\ entry'[launched[w]].status # "free" /\ entry[launched[w]].pid \in Nat
                              /\ entry'[launched[w]].pid = entry[launched[w]].pid
                              /\ entry[launched[w]].pid <= born
      BY <1>2, <2>1 DEF Kept, KeptAt, Used
    <2>. QED BY <2>1, <2>2 DEF Used, Setup, Kept, Grows
  <1>7. w # 0 /\ at[w] # "off" =>
          /\ (Used(w) /\ Setup(entry[w].pid))'
          /\ at[w] # "prepare" => (Dead(entry[w].pid))'
    BY <1>1, <1>3, <1>5 DEF ThreadFine
  <1>8. w # 0 => at[w] \in Activating
    BY <1>1 DEF ThreadFine
  <1>9. at[w] \in {"ready", "publish"} => launched[w] \in 1 .. born /\ launched[w] \notin setups
    BY <1>1 DEF ThreadFine
  <1>10. at'[w] \in {"ready", "publish"} => launched'[w] \in 1 .. born' /\ launched'[w] \notin setups'
    BY <1>4, <1>9
  <1>11. at'[w] = "record" => launched'[w] \in Ids /\ (Used(launched[w]) /\ ~Setup(entry[launched[w]].pid))'
    BY <1>6
  <1>12. w # 0 => at'[w] \in Activating
    BY <1>8
  <1>13. w # 0 /\ at'[w] # "off" =>
           /\ (Used(w) /\ Setup(entry[w].pid))'
           /\ at'[w] # "prepare" => (Dead(entry[w].pid))'
    BY <1>7
  <1>. QED BY <1>10, <1>11, <1>12, <1>13 DEF ThreadFine, Used, Setup, Dead

LEMMA MapsStay ==
  ASSUME Basic, Kept
  PROVE  \A s \in Scopes : map'[s] = map[s] \/ map'[s] = 0 => MapFine(s)'
  BY DEF Basic, DevTyped, Kept, KeptAt, MapFine, Used

LEMMA FileStays ==
  ASSUME Basic, Grows
  PROVE  saved' = saved \/ saved' = NoFile => FileFine'
  <1>1. FileFine /\ saved.pid \in Nat /\ saved.pid <= born /\ born \in Nat
    BY Pids DEF Basic
  <1>2. CASE saved' = saved
    BY <1>1, <1>2 DEF FileFine, Grows, KindOf, Setup, Dead, Over
  <1>3. CASE saved' = NoFile
    BY <1>1, <1>3 DEF FileFine, Grows, KindOf, Setup, Dead, NoFile, Over
  <1>. QED BY <1>2, <1>3

LEMMA RequestStays ==
  ASSUME Basic, Kept, request' = request, at'[0] = at[0]
  PROVE  RequestFine'
  <1>1. RequestFine /\ request.entry \in {0} \cup Ids
    BY DEF Basic, DevTyped
  <1>2. request.entry # 0 => /\ entry[request.entry].pid \in Nat /\ entry[request.entry].pid <= born
                             /\ KeptAt(request.entry)
    BY <1>1, Pids DEF Kept
  <1>. QED BY <1>1, <1>2 DEF RequestFine, Kept, KeptAt, Grows, Used, Dead

(* Processes that only end.                                                *)
LEMMA OnlyEnds ==
  ASSUME Numbered, alive' \subseteq alive, born' = born, setups' = setups, log' = log
  PROVE  Grows /\ Numbered'
  BY DEF Numbered, Grows

LEMMA SameEntries ==
  ASSUME entry' = entry
  PROVE  \A i \in Ids : KeptAt(i) /\ AsIs(i)
  BY DEF KeptAt, AsIs

-----------------------------------------------------------------------------
(* Each action keeps Basic.                                                *)
LEMMA InitBasic == DevInit => Basic
  <1> SUFFICES ASSUME DevInit PROVE Basic
    OBVIOUS
  <1>1. NoFile \in Records
    BY DEF NoFile, Records, Reasons
  <1>2. DevTyped
    <2>1. entry \in [Ids -> Entries]
      BY FreeTyped DEF DevInit
    <2>2. request \in [op : Operations, scope : Scopes \cup {"none"}, entry : {0} \cup Ids]
      BY DEF DevInit, NoRequest, Operations
    <2>3. snap \in [Ids -> [idle : Records, exit : Records]]
      BY <1>1 DEF DevInit
    <2>4. at \in [Runner -> Places] /\ idle \in [Ids -> Idling]
      BY DEF DevInit, Places, Idling
    <2>. QED BY <1>1, <2>1, <2>2, <2>3, <2>4 DEF DevInit, DevTyped
  <1>3. Numbered
    BY Limits DEF DevInit, Numbered
  <1>4. FileFine /\ RequestFine
    BY DEF DevInit, FileFine, NoFile, KindOf, Setup, RequestFine, NoRequest, Dead, Runner, Over
  <1>5. ASSUME NEW i \in Ids PROVE EntryFine(i) /\ WatchFine(i)
    BY FreeTyped DEF DevInit, EntryFine, WatchFine, Used, Over, Terminal, KindOf, Setup, Dead
  <1>6. ASSUME NEW w \in Runner PROVE ThreadFine(w)
    BY DEF DevInit, ThreadFine, Activating
  <1>7. ASSUME NEW s \in Scopes PROVE MapFine(s)
    BY DEF DevInit, MapFine
  <1>. QED BY <1>2, <1>3, <1>4, <1>5, <1>6, <1>7 DEF Basic

(* A step that leaves the entries and the watchers alone.                  *)
Still == UNCHANGED <<entry, idle, exits, snap>>

LEMMA StillFine ==
  ASSUME Basic, Grows, Still
  PROVE  Kept /\ \A i \in Ids : EntryFine(i)' /\ WatchFine(i)'
  BY SameEntries, EntriesStay, WatchesStay DEF Still, Kept

LEMMA AskBasic ==
  ASSUME Basic, NEW s \in Scopes, AskDev(s) PROVE Basic'
  <1>0. PICK op \in {"start", "background", "stop", "sync", "open"} :
          request' = [op |-> op, scope |-> s, entry |-> 0]
    BY DEF AskDev
  <1>1. DevTyped'
    <2>1. request' \in [op : Operations, scope : Scopes \cup {"none"}, entry : {0} \cup Ids]
      BY <1>0 DEF Operations
    <2>2. at' \in [Runner -> Places]
      BY DEF Basic, DevTyped, AskDev, MoveTo, Places
    <2>3. excused' \in BOOLEAN
      BY DEF AskDev
    <2>. QED BY <2>1, <2>2, <2>3 DEF Basic, DevTyped, AskDev, watching
  <1>2. Numbered' /\ Grows
    BY OnlyEnds DEF Basic, AskDev, processes
  <1>3. Kept /\ \A i \in Ids : EntryFine(i)' /\ WatchFine(i)'
    BY <1>2, StillFine DEF AskDev, watching, Still
  <1>4. at'[0] = "look" /\ \A i \in Ids : at'[i] = at[i]
    BY Limits DEF Basic, DevTyped, AskDev, MoveTo, Runner
  <1>5. ASSUME NEW w \in Runner PROVE ThreadFine(w)'
    <2>1. CASE w = 0
      BY <1>4, <2>1 DEF ThreadFine
    <2>2. CASE w # 0
      BY <1>3, <1>4, <2>2, ThreadsStay DEF Runner, AskDev
    <2>. QED BY <2>1, <2>2
  <1>6. RequestFine'
    BY <1>0, <1>4 DEF RequestFine
  <1>7. FileFine' /\ \A t \in Scopes : MapFine(t)'
    BY <1>2, <1>3, FileStays, MapsStay DEF AskDev
  <1>. QED BY <1>1, <1>2, <1>3, <1>5, <1>6, <1>7 DEF Basic

(* A thread goes elsewhere.                                                *)
LEMMA Moved ==
  ASSUME DevTyped, NEW w \in Runner, NEW x \in Places, MoveTo(w, x)
  PROVE  /\ at' \in [Runner -> Places]
         /\ at'[w] = x /\ \A v \in Runner : v # w => at'[v] = at[v]
  BY DEF DevTyped, MoveTo

LEMMA ZeroMoves ==
  ASSUME Basic, Kept, launched' = launched, NEW x \in Places \ {"ready", "publish", "record"}, MoveTo(0, x)
  PROVE  /\ at' \in [Runner -> Places]
         /\ at'[0] = x /\ \A i \in Ids : at'[i] = at[i]
         /\ \A w \in Runner : ThreadFine(w)'
  <1>1. 0 \in Runner /\ \A i \in Ids : i # 0 /\ i \in Runner
    BY Limits DEF Runner
  <1>2. /\ at' \in [Runner -> Places]
        /\ at'[0] = x /\ \A v \in Runner : v # 0 => at'[v] = at[v]
    BY <1>1, Moved DEF Basic
  <1>3. ThreadFine(0)'
    BY <1>2 DEF ThreadFine
  <1>4. \A w \in Runner : w # 0 => ThreadFine(w)'
    BY <1>2, ThreadsStay
  <1>. QED BY <1>1, <1>2, <1>3, <1>4

(* What frontendDevEntry settles on: the entry i of the scope, as it is    *)
(* known (es), or read from the file.                                      *)
Offered(i, es) ==
  /\ es \in [Ids -> Entries]
  /\ \A j \in Ids : j # i =>
       /\ es[j].status = entry[j].status /\ es[j].pid = entry[j].pid /\ es[j].scope = entry[j].scope
       /\ es[j].cancelled => entry[j].cancelled \/ Setup(es[j].pid)
  /\ es[i].scope = request.scope /\ es[i].status # "free" /\ es[i].pid <= born
  /\ KindOf(es[i].status, es[i].pid)
  /\ es[i].status \in Over => Dead(es[i].pid)
  /\ es[i].cancelled => Dead(es[i].pid) \/ Setup(es[i].pid)
  /\ Used(i) => entry[i].pid = es[i].pid /\ entry[i].scope = es[i].scope

LEMMA SettleFacts ==
  ASSUME DevTyped, request.scope \in Scopes, NEW i \in Ids, NEW es \in [Ids -> Entries], NEW killed,
         Settle(i, es, killed)
  PROVE  /\ entry' \in [Ids -> Entries] /\ entry'[i] = Prepared(es[i])
         /\ \A j \in Ids : j # i => entry'[j] = es[j]
         /\ map' \in [Scopes -> {0} \cup Ids]
         /\ \A s \in Scopes : s # request.scope => map'[s] = map[s]
         /\ map'[request.scope] = request'.entry /\ request'.entry \in {0, i}
         /\ request' \in [op : Operations, scope : Scopes \cup {"none"}, entry : {0} \cup Ids]
         /\ request'.scope = request.scope /\ request'.op = request.op
         /\ saved' \in {saved, NoFile} /\ alive' = alive \ killed
         /\ at' \in [Runner -> Places] /\ at'[0] \in {"reread", "answer", "http"}
         /\ at'[0] = "http" => request'.entry = i
         /\ \A j \in Ids : at'[j] = at[j]
  <1>1. es[i] \in Entries /\ es[i] \in Wide /\ es[i].status # "absent"
    BY Fields DEF Entries
  <1>2. Prepared(es[i]) \in Wide /\ Prepared(es[i]).status # "absent"
    BY <1>1, PreparedTyped
  <1>3. Prepared(es[i]) \in Entries
    BY <1>2 DEF Entries
  <1>4. /\ entry' \in [Ids -> Entries] /\ entry'[i] = Prepared(es[i])
        /\ \A j \in Ids : j # i => entry'[j] = es[j]
    BY <1>3 DEF Settle
  <1>5. /\ map' \in [Scopes -> {0} \cup Ids]
        /\ \A s \in Scopes : s # request.scope => map'[s] = map[s]
        /\ map'[request.scope] \in {0, i}
    BY DEF Settle, DevTyped
  <1>6. /\ map'[request.scope] = request'.entry /\ request'.entry \in {0, i}
        /\ request' \in [op : Operations, scope : Scopes \cup {"none"}, entry : {0} \cup Ids]
        /\ request'.scope = request.scope /\ request'.op = request.op
    BY DEF Settle, DevTyped
  <1>7. saved' \in {saved, NoFile} /\ alive' = alive \ killed
    BY DEF Settle
  <1>8. PICK x \in {"reread", "answer", "http"} : MoveTo(0, x) /\ (x = "http" => request'.entry = i)
    BY DEF Settle, DevTyped
  <1>9. x \in Places /\ 0 \in Runner /\ \A j \in Ids : j # 0 /\ j \in Runner
    BY Limits DEF Places, Runner
  <1>10. at' \in [Runner -> Places] /\ at'[0] = x /\ \A j \in Ids : at'[j] = at[j]
    BY <1>8, <1>9, Moved
  <1>. QED BY <1>4, <1>5, <1>6, <1>7, <1>8, <1>10

LEMMA SettleBasic ==
  ASSUME Basic, at[0] = "look", NEW i \in Ids, NEW es, NEW killed, Offered(i, es),
         Settle(i, es, killed),
         UNCHANGED <<log, born, setups, broken, watching, launched, history, calls, hitches>>
  PROVE  Basic'
  <1>1. request.scope \in Scopes /\ es \in [Ids -> Entries]
    BY DEF Basic, RequestFine, Offered, Over
  <1>2. /\ entry' \in [Ids -> Entries] /\ entry'[i] = Prepared(es[i])
        /\ \A j \in Ids : j # i => entry'[j] = es[j]
    BY <1>1, SettleFacts DEF Basic
  <1>3. /\ map' \in [Scopes -> {0} \cup Ids]
        /\ \A s \in Scopes : s # request.scope => map'[s] = map[s]
        /\ map'[request.scope] = request'.entry /\ request'.entry \in {0, i}
    BY <1>1, SettleFacts DEF Basic
  <1>4. /\ request' \in [op : Operations, scope : Scopes \cup {"none"}, entry : {0} \cup Ids]
        /\ request'.scope = request.scope /\ request'.op = request.op
    BY <1>1, SettleFacts DEF Basic
  <1>5. saved' \in {saved, NoFile} /\ alive' = alive \ killed
    BY <1>1, SettleFacts DEF Basic
  <1>6. /\ at' \in [Runner -> Places] /\ at'[0] \in {"reread", "answer", "http"}
        /\ at'[0] = "http" => request'.entry = i
        /\ \A j \in Ids : at'[j] = at[j]
    BY <1>1, SettleFacts DEF Basic
  <1>7. DevTyped'
    <2>1. saved' \in Records
      BY <1>5 DEF Basic, DevTyped, NoFile, Records, Reasons
    <2>. QED BY <1>2, <1>3, <1>4, <1>6, <2>1 DEF Basic, DevTyped, watching, history
  <1>8. Numbered' /\ Grows
    BY <1>5, OnlyEnds DEF Basic
  <1>9. /\ es[i] \in Wide
        /\ Prepared(es[i]).pid = es[i].pid /\ Prepared(es[i]).scope = es[i].scope
        /\ Prepared(es[i]).cancelled = es[i].cancelled
    BY <1>1, Fields, PreparedTyped
  <1>10. Prepared(es[i]).status = es[i].status
         \/ /\ es[i].status = "starting" /\ es[i].pid \notin alive
            /\ Prepared(es[i]).status \in {"prepared", "stopped", "failed"}
    BY <1>9, PreparedTyped
  <1>11. \A j \in Ids : KeptAt(j)
    BY <1>2, <1>9, <1>10 DEF Offered, KeptAt, Used, Over
  <1>12. Kept
    BY <1>8, <1>11 DEF Kept
  <1>13. ASSUME NEW j \in Ids, j # i PROVE EntryFine(j)'
    <2>1. EntryFine(j) /\ entry[j].pid \in Nat /\ entry[j].pid <= born /\ born \in Nat
      BY Pids DEF Basic
    <2>2. /\ entry'[j].status = entry[j].status /\ entry'[j].pid = entry[j].pid
          /\ entry'[j].scope = entry[j].scope
          /\ entry'[j].cancelled => entry[j].cancelled \/ Setup(entry[j].pid)
      BY <1>2, <1>13 DEF Offered, Over
    <2>3. /\ (Setup(entry[j].pid))' <=> Setup(entry[j].pid)
          /\ Dead(entry[j].pid) => (Dead(entry[j].pid))'
      BY <1>8, <2>1, <2>2 DEF Grows, Setup, Dead
    <2>. QED BY <1>8, <2>1, <2>2, <2>3 DEF EntryFine, Used, Over, Terminal, KindOf, Grows
  <1>14. EntryFine(i)'
    <2>1. es[i].pid \in Nat /\ es[i].pid <= born /\ born \in Nat
      BY <1>1, Fields, Pids DEF Offered, Over
    <2>2. /\ entry'[i].pid = es[i].pid /\ entry'[i].scope = es[i].scope
          /\ entry'[i].cancelled = es[i].cancelled
      BY <1>2, <1>9
    <2>3. /\ (Setup(entry[i].pid))' <=> Setup(es[i].pid)
          /\ Dead(es[i].pid) => (Dead(entry[i].pid))'
      BY <1>8, <2>1, <2>2 DEF Grows, Setup, Dead
    <2>4. (KindOf(entry[i].status, entry[i].pid))'
      BY <1>2, <1>10, <2>3 DEF Offered, KindOf, Over
    <2>5. (entry[i].status \in Over => Dead(entry[i].pid))'
      BY <1>2, <1>10, <2>3 DEF Offered, Over, Dead
    <2>6. entry[i].scope' \in Scopes
      BY <1>1, <2>2 DEF Offered, Over
    <2>7. born' = born
      OBVIOUS
    <2>. QED BY <2>1, <2>2, <2>3, <2>4, <2>5, <2>6, <2>7 DEF EntryFine, Offered, Over
  <1>15. \A j \in Ids : WatchFine(j)'
    BY <1>8, <1>11, WatchesStay DEF watching
  <1>16. \A w \in Runner : ThreadFine(w)'
    <2>1. ThreadFine(0)'
      BY <1>6 DEF ThreadFine
    <2>. QED BY <1>6, <1>12, <2>1, ThreadsStay DEF Runner
  <1>17. (Used(i) /\ entry[i].scope = request.scope)'
    BY <1>2, <1>4, <1>9, <1>10 DEF Offered, Used, Over
  <1>18. ASSUME NEW s \in Scopes PROVE MapFine(s)'
    <2>1. CASE s # request.scope
      BY <1>3, <1>12, <2>1, MapsStay
    <2>2. CASE s = request.scope
      BY <1>3, <1>4, <1>17, <2>2 DEF MapFine
    <2>. QED BY <2>1, <2>2
  <1>19. FileFine'
    BY <1>5, <1>8, FileStays
  <1>20. RequestFine'
    <2>1. RequestFine
      BY DEF Basic
    <2>. QED BY <1>1, <1>3, <1>4, <1>6, <1>17, <2>1, Limits DEF RequestFine
  <1>. QED BY <1>7, <1>8, <1>13, <1>14, <1>15, <1>16, <1>18, <1>19, <1>20 DEF Basic

LEMMA OneReplaced ==
  ASSUME entry \in [Ids -> Entries], NEW i \in Ids, NEW r \in Entries,
         NEW es, es = [entry EXCEPT ![i] = r]
  PROVE  es \in [Ids -> Entries] /\ es[i] = r /\ \A j \in Ids : j # i => es[j] = entry[j]
  OBVIOUS

(* The entries, once the scope's is brought up to date with the file.       *)
Refreshed == [entry EXCEPT ![Mine].status = saved.status, ![Mine].reason = saved.reason,
                           ![Mine].old = FALSE]

LEMMA RefreshedFine ==
  ASSUME Basic, SameProcess, request.scope \in Scopes
  PROVE  /\ Offered(Mine, Refreshed) /\ Mine \in Ids
         /\ Refreshed[Mine].status = saved.status /\ Refreshed[Mine].pid = entry[Mine].pid
         /\ \A j \in Ids : j # Mine => Refreshed[j] = entry[j]
  <1>1. Mine \in Ids /\ MapFine(request.scope) /\ FileFine /\ EntryFine(Mine)
    BY DEF SameProcess, Mine, Basic, DevTyped
  <1>2. saved.status \in Statuses
    BY <1>1 DEF SameProcess, FileFine, Basic, DevTyped, Records, Over
  <1>3. entry[Mine] \in Entries /\ entry \in [Ids -> Entries]
    BY <1>1 DEF Basic, DevTyped
  <1> DEFINE r == [entry[Mine] EXCEPT !.status = saved.status, !.reason = saved.reason, !.old = FALSE]
  <1>4. /\ r \in Entries /\ r.status = saved.status /\ r.pid = entry[Mine].pid
        /\ r.scope = entry[Mine].scope /\ r.cancelled = entry[Mine].cancelled
    BY <1>2, <1>3 DEF Entries, Wide, Basic, DevTyped, Records, Statuses
  <1>5. Refreshed = [entry EXCEPT ![Mine] = r]
    BY <1>1, <1>3 DEF Refreshed, Entries, Wide
  <1> HIDE DEF r
  <1>6. /\ Refreshed \in [Ids -> Entries] /\ Refreshed[Mine] = r
        /\ \A j \in Ids : j # Mine => Refreshed[j] = entry[j]
    <2>1. Mine \in Ids /\ entry \in [Ids -> Entries] /\ r \in Entries
      BY <1>1, <1>3, <1>4
    <2>. QED BY <1>5, <2>1, OneReplaced
  <1>7. entry[Mine].scope = request.scope /\ Used(Mine)
    BY <1>1 DEF MapFine, Mine, SameProcess
  <1>8. entry[Mine].pid = saved.pid
    BY DEF SameProcess
  <1>9. Offered(Mine, Refreshed)
    <2>1. /\ Refreshed[Mine].pid = saved.pid /\ Refreshed[Mine].status = saved.status
          /\ Refreshed[Mine].scope = request.scope /\ Refreshed[Mine].cancelled = entry[Mine].cancelled
      BY <1>4, <1>6, <1>7, <1>8
    <2>2. /\ saved.pid <= born /\ KindOf(saved.status, saved.pid)
          /\ saved.status \in Over => Dead(saved.pid)
      BY <1>1 DEF FileFine
    <2>3. entry[Mine].cancelled => Dead(saved.pid) \/ Setup(saved.pid)
      BY <1>1, <1>8 DEF EntryFine
    <2>4. saved.status # "free"
      BY <1>2 DEF Statuses
    <2>5. \A j \in Ids : j # Mine =>
            /\ Refreshed[j].status = entry[j].status /\ Refreshed[j].pid = entry[j].pid
            /\ Refreshed[j].scope = entry[j].scope
            /\ Refreshed[j].cancelled => entry[j].cancelled \/ Setup(Refreshed[j].pid)
      BY <1>6
    <2>. QED BY <1>6, <1>7, <1>8, <2>1, <2>2, <2>3, <2>4, <2>5 DEF Offered
  <1>. QED BY <1>1, <1>4, <1>6, <1>9

LEMMA RefreshedIs ==
  ASSUME Basic, SameProcess, request.scope \in Scopes,
         NEW es, es = [entry EXCEPT ![Mine].status = saved.status, ![Mine].reason = saved.reason,
                                    ![Mine].old = FALSE]
  PROVE  /\ Offered(Mine, es) /\ Mine \in Ids
         /\ es[Mine].status = saved.status /\ es[Mine].pid = entry[Mine].pid
         /\ \A j \in Ids : j # Mine => es[j] = entry[j]
  <1>1. es = Refreshed
    BY DEF Refreshed
  <1>. QED BY <1>1, RefreshedFine

LEMMA KnownOffered ==
  ASSUME Basic, Mine # 0, request.scope \in Scopes
  PROVE  Mine \in Ids /\ Offered(Mine, entry)
  BY DEF Mine, Basic, DevTyped, MapFine, EntryFine, Offered, Used, Over

LEMMA ReconciledIs ==
  ASSUME Basic, FileWins, HasFresh, request.scope \in Scopes
  PROVE  /\ Offered(Fresh, Reconciled) /\ Fresh \in Ids
         /\ Reconciled[Fresh] = Loaded(saved, request.scope)
         /\ \A j \in Ids : j # Fresh => /\ Reconciled[j].status = entry[j].status
                                        /\ Reconciled[j].pid = entry[j].pid
                                        /\ Reconciled[j].scope = entry[j].scope
                                        /\ Reconciled[j].old = entry[j].old
                                        /\ entry[j].cancelled => Reconciled[j].cancelled
  <1>1. Fresh \in Ids /\ entry[Fresh].status = "free"
    BY FreshFree DEF Basic
  <1>2. FileFine /\ saved \in Records /\ saved # NoFile
    BY DEF Basic, DevTyped, FileWins
  <1> DEFINE l == Loaded(saved, request.scope)
  <1>3. /\ l \in Wide /\ l.status = saved.status /\ l.pid = saved.pid /\ l.scope = request.scope
        /\ l.cancelled = FALSE
    BY <1>2, LoadedTyped
  <1>4. l \in Entries /\ l.status # "free"
    BY <1>2, <1>3 DEF Entries, FileFine, Records, Statuses, Over
  <1> HIDE DEF l
  <1>5. Reconciled[Fresh] = l
    BY <1>1 DEF Reconciled, l
  <1>6. ASSUME NEW j \in Ids, j # Fresh
        PROVE  /\ Reconciled[j] \in Entries
               /\ Reconciled[j].status = entry[j].status /\ Reconciled[j].pid = entry[j].pid
               /\ Reconciled[j].scope = entry[j].scope /\ Reconciled[j].old = entry[j].old
               /\ Reconciled[j].cancelled <=> entry[j].cancelled \/ (Superseded /\ j = Mine)
    <2> DEFINE k == entry[j].cancelled \/ (Superseded /\ j = Mine)
    <2>1. k \in BOOLEAN /\ entry[j] \in Entries
      BY DEF Basic, DevTyped
    <2>2. Reconciled[j] = [entry[j] EXCEPT !.cancelled = k]
      BY <1>6 DEF Reconciled
    <2> HIDE DEF k
    <2>3. /\ Reconciled[j] \in Entries
          /\ Reconciled[j].status = entry[j].status /\ Reconciled[j].pid = entry[j].pid
          /\ Reconciled[j].scope = entry[j].scope /\ Reconciled[j].old = entry[j].old
          /\ Reconciled[j].cancelled = k
      BY <2>1, <2>2 DEF Entries, Wide
    <2>. QED BY <2>3 DEF k
  <1>7. Reconciled \in [Ids -> Entries]
    BY <1>1, <1>4, <1>5, <1>6 DEF Reconciled
  <1>8. ASSUME Superseded PROVE Setup(entry[Mine].pid)
    BY <1>8 DEF Superseded, Mine, Basic, DevTyped, EntryFine, KindOf, RequestFine, Over
  <1>9. \A j \in Ids : j # Fresh =>
          (Reconciled[j].cancelled => entry[j].cancelled \/ Setup(Reconciled[j].pid))
    BY <1>6, <1>8
  <1>10. Offered(Fresh, Reconciled)
    BY <1>1, <1>2, <1>3, <1>4, <1>5, <1>6, <1>7, <1>9 DEF Offered, FileFine, Over, Terminal, Used
  <1>. QED BY <1>1, <1>5, <1>6, <1>10 DEF l

(* Where the next step goes, one disjunct after the other.                 *)
LEMMA LookBasic ==
  ASSUME Basic, Look PROVE Basic'
  <1>1. at[0] = "look" /\ request.scope \in Scopes
    BY DEF Look, Basic, RequestFine
  <1>2. UNCHANGED <<log, born, setups, broken, watching, launched, history, calls, hitches>>
    BY DEF Look
  <1>3. CASE MoveTo(0, "reread") /\ UNCHANGED <<entry, map, saved, alive, request>>
    <2>1. Numbered' /\ Grows
      BY <1>2, <1>3, OnlyEnds DEF Basic
    <2>2. Kept /\ \A i \in Ids : EntryFine(i)' /\ WatchFine(i)'
      BY <1>2, <1>3, <2>1, StillFine DEF watching, Still
    <2>3. at' \in [Runner -> Places] /\ at'[0] = "reread" /\ \A w \in Runner : ThreadFine(w)'
      BY <1>2, <1>3, <2>2, ZeroMoves DEF Places
    <2>4. DevTyped'
      BY <1>2, <1>3, <2>3 DEF Basic, DevTyped, watching, history
    <2>5. FileFine' /\ \A s \in Scopes : MapFine(s)'
      BY <1>3, <2>1, <2>2, FileStays, MapsStay
    <2>6. RequestFine'
      BY <1>1, <1>3, <2>3 DEF Basic, RequestFine, Used
    <2>. QED BY <2>1, <2>2, <2>3, <2>4, <2>5, <2>6 DEF Basic
  <1>4. CASE SameProcess /\ \E es : /\ es = [entry EXCEPT ![Mine].status = saved.status,
                                                          ![Mine].reason = saved.reason,
                                                          ![Mine].old = FALSE]
                                    /\ Settle(Mine, es, {})
    BY <1>1, <1>2, <1>4, RefreshedIs, SettleBasic
  <1>5. CASE Mine # 0 /\ Settle(Mine, entry, {})
    BY <1>1, <1>2, <1>5, KnownOffered, SettleBasic
  <1>6. CASE FileWins /\ HasFresh /\ \E killed : Settle(Fresh, Reconciled, killed)
    BY <1>1, <1>2, <1>6, ReconciledIs, SettleBasic
  <1>. QED BY <1>3, <1>4, <1>5, <1>6 DEF Look

(* One entry changes, and the others at most grow old.                     *)
LEMMA OneChanges ==
  ASSUME Basic, Grows, NEW i \in Ids, NEW r \in Entries, r.status # "free",
         Used(i) => r.pid = entry[i].pid /\ r.scope = entry[i].scope,
         entry' = [entry EXCEPT ![i] = r] \/ entry' = Aged([entry EXCEPT ![i] = r], i)
  PROVE  /\ entry' \in [Ids -> Entries] /\ entry'[i] = r /\ Kept
         /\ \A j \in Ids : j # i => AsIs(j) /\ EntryFine(j)' /\ (entry[j].old => entry'[j].old)
  <1> DEFINE es == [entry EXCEPT ![i] = r]
  <1>1. entry \in [Ids -> Entries]
    BY DEF Basic, DevTyped
  <1>2. es \in [Ids -> Entries] /\ es[i] = r /\ \A j \in Ids : j # i => es[j] = entry[j]
    BY <1>1
  <1>3. Aged(es, i)[i] = es[i]
    BY DEF Aged
  <1> HIDE DEF es
  <1>4. entry' = es \/ entry' = Aged(es, i)
    BY DEF es
  <1>5. /\ entry' \in [Ids -> Entries] /\ entry'[i] = r
        /\ \A j \in Ids : j # i => AsIs(j) /\ (entry[j].old => entry'[j].old)
    <2>1. CASE entry' = es
      BY <1>2, <2>1 DEF AsIs
    <2>2. CASE entry' = Aged(es, i)
      BY <1>2, <1>3, <2>2, AgedTyped DEF AsIs
    <2>. QED BY <1>4, <2>1, <2>2
  <1>6. \A j \in Ids : KeptAt(j)
    BY <1>5 DEF AsIs, KeptAt, Used
  <1>. QED BY <1>5, <1>6, EntriesStay DEF Kept

(* The entries only grow old.                                              *)
LEMMA OnlyAges ==
  ASSUME Basic, Grows, NEW i, entry' = Aged(entry, i) \/ entry' = entry
  PROVE  /\ entry' \in [Ids -> Entries] /\ Kept
         /\ \A j \in Ids : AsIs(j) /\ EntryFine(j)' /\ (entry[j].old => entry'[j].old)
  <1>1. entry \in [Ids -> Entries]
    BY DEF Basic, DevTyped
  <1>2. entry' \in [Ids -> Entries] /\ \A j \in Ids : AsIs(j) /\ (entry[j].old => entry'[j].old)
    BY <1>1, AgedTyped DEF AsIs
  <1>3. \A j \in Ids : KeptAt(j)
    BY <1>2 DEF AsIs, KeptAt
  <1>. QED BY <1>2, <1>3, EntriesStay DEF Kept

(* The entry that changes is well formed: its process is as its status     *)
(* says, in the next state.                                                *)
LEMMA ChangedFine ==
  ASSUME Basic, Grows, NEW i \in Ids, NEW r \in Entries, entry'[i] = r,
         r.scope \in Scopes, r.pid <= born, KindOf(r.status, r.pid),
         r.status \in Over => r.pid \notin alive',
         r.cancelled => r.pid \notin alive' \/ Setup(r.pid)
  PROVE  EntryFine(i)'
  <1>1. r.pid \in Nat /\ r.cancelled \in BOOLEAN /\ born \in Nat
    BY Fields, Pids
  <1>2. Setup(r.pid)' <=> Setup(r.pid)
    BY <1>1 DEF Grows, Setup
  <1>. QED BY <1>1, <1>2 DEF EntryFine, KindOf, Over, Terminal, Dead, Grows

LEMMA HttpBasic ==
  ASSUME Basic, Http PROVE Basic'
  <1>0. at[0] = "http" /\ request.scope \in Scopes /\ request.entry \in Ids /\ Used(request.entry)
    BY DEF Http, Basic, RequestFine, DevTyped
  <1>01. PICK i \in Ids : i = request.entry
    BY <1>0
  <1>02. PICK s \in Scopes : s = request.scope
    BY <1>0
  <1>1. at[0] = "http" /\ s \in Scopes /\ i \in Ids /\ Used(i) /\ i = request.entry /\ s = request.scope
    BY <1>0, <1>01, <1>02
  <1>2. entry[i] \in Entries /\ EntryFine(i) /\ entry \in [Ids -> Entries]
    BY <1>1 DEF Basic, DevTyped
  <1>3. UNCHANGED <<log, born, setups, exits, snap, launched, excused, stopped, restarted>>
    BY DEF Http, history
  <1>4. CASE /\ entry' = [entry EXCEPT ![i].watched = @ \/ entry[i].status = "running"]
             /\ idle' = IF ~entry[i].watched /\ entry[i].status = "running"
                        THEN [idle EXCEPT ![i] = "top"] ELSE idle
             /\ MoveTo(0, "answer")
             /\ UNCHANGED <<map, saved, alive, request>>
    <2> DEFINE k == entry[i].watched \/ entry[i].status = "running"
    <2> DEFINE r == [entry[i] EXCEPT !.watched = k]
    <2>1. k \in BOOLEAN
      BY <1>2 DEF Entries, Wide
    <2>2. entry' = [entry EXCEPT ![i] = r]
      BY <1>1, <1>2, <1>4
    <2> HIDE DEF k
    <2>3. /\ r \in Entries /\ r.status = entry[i].status /\ r.pid = entry[i].pid
          /\ r.scope = entry[i].scope /\ r.cancelled = entry[i].cancelled
      BY <1>2, <2>1 DEF Entries, Wide
    <2> HIDE DEF r
    <2>4. Numbered' /\ Grows
      BY <1>3, <1>4, OnlyEnds DEF Basic
    <2>5. /\ entry' \in [Ids -> Entries] /\ entry'[i] = r /\ Kept
          /\ \A j \in Ids : j # i => AsIs(j) /\ EntryFine(j)'
      BY <1>1, <2>2, <2>3, <2>4, OneChanges DEF Used
    <2>6. EntryFine(i)'
      BY <1>1, <2>3, <2>4, <2>5, EntriesStay DEF AsIs
    <2>7. idle' \in [Ids -> Idling] /\ \A j \in Ids : j # i => idle'[j] = idle[j]
      BY <1>4 DEF Basic, DevTyped, Idling
    <2>8. \A j \in Ids : j # i => WatchFine(j)'
      BY <1>3, <2>4, <2>5, <2>7, WatchesStay DEF Kept
    <2>9. WatchFine(i)'
      <3>1. CASE idle' = idle
        BY <1>1, <1>3, <2>4, <2>5, <3>1, WatchesStay DEF Kept
      <3>2. CASE idle'[i] = "top" /\ entry[i].status = "running"
        <4>1. ~Setup(entry[i].pid) /\ entry[i].pid \in Nat /\ entry[i].pid <= born /\ born \in Nat
          BY <1>1, <1>2, <3>2, Pids DEF EntryFine, KindOf, Over
        <4>2. WatchFine(i)
          BY <1>1 DEF Basic
        <4>. QED BY <1>1, <1>3, <2>3, <2>4, <2>5, <3>2, <4>1, <4>2
                 DEF WatchFine, Used, Setup, Grows, Dead, Over
      <3>. QED BY <1>1, <1>4, <3>1, <3>2 DEF Basic, DevTyped
    <2>10. at' \in [Runner -> Places] /\ at'[0] = "answer" /\ \A w \in Runner : ThreadFine(w)'
      BY <1>3, <1>4, <2>5, ZeroMoves DEF Places
    <2>11. FileFine' /\ \A t \in Scopes : MapFine(t)'
      BY <1>4, <2>4, <2>5, FileStays, MapsStay
    <2>12. RequestFine'
      BY <1>1, <1>4, <2>3, <2>5, <2>10 DEF Basic, RequestFine, Used
    <2>13. DevTyped'
      BY <1>3, <1>4, <2>5, <2>7, <2>10 DEF Basic, DevTyped
    <2>. QED BY <2>4, <2>5, <2>6, <2>8, <2>9, <2>10, <2>11, <2>12, <2>13 DEF Basic
  <1>5. CASE /\ \E route \in BOOLEAN :
                  LET kill == entry[i].own \/ ~route
                  IN /\ entry' = IF kill THEN [entry EXCEPT ![i] = Destroyed(@, "other")] ELSE entry
                     /\ alive' = IF kill THEN alive \ {entry[i].pid} ELSE alive
                     /\ MoveTo(0, IF route THEN "reread" ELSE "answer")
             /\ map' = [map EXCEPT ![s] = 0]
             /\ saved' = NoFile
             /\ request' = [request EXCEPT !.entry = 0]
             /\ UNCHANGED idle
    <2>1. PICK kill \in BOOLEAN, x \in {"reread", "answer"} :
            /\ entry' = IF kill THEN [entry EXCEPT ![i] = Destroyed(entry[i], "other")] ELSE entry
            /\ alive' = IF kill THEN alive \ {entry[i].pid} ELSE alive
            /\ MoveTo(0, x)
      <3>1. PICK route \in BOOLEAN :
              LET kill == entry[i].own \/ ~route
              IN /\ entry' = IF kill THEN [entry EXCEPT ![i] = Destroyed(@, "other")] ELSE entry
                 /\ alive' = IF kill THEN alive \ {entry[i].pid} ELSE alive
                 /\ MoveTo(0, IF route THEN "reread" ELSE "answer")
        BY <1>5
      <3>2. (entry[i].own \/ ~route) \in BOOLEAN
        OBVIOUS
      <3>. QED BY <1>1, <1>2, <3>1, <3>2
    <2>2. Numbered' /\ Grows
      <3>1. alive' \subseteq alive
        BY <2>1
      <3>. QED BY <1>3, <3>1, OnlyEnds DEF Basic
    <2> DEFINE r == Destroyed(entry[i], "other")
    <2>3. /\ r \in Entries /\ r.pid = entry[i].pid /\ r.scope = entry[i].scope
          /\ r.status = entry[i].status
      BY <1>2, DestroyedTyped DEF Reasons
    <2> HIDE DEF r
    <2>4. /\ entry' \in [Ids -> Entries] /\ Kept
          /\ \A j \in Ids : EntryFine(j)'
      <3>1. CASE kill
        <4>1. entry' = [entry EXCEPT ![i] = r] /\ entry[i].pid \notin alive'
          BY <2>1, <3>1 DEF r
        <4>2. /\ entry' \in [Ids -> Entries] /\ entry'[i] = r /\ Kept
              /\ \A j \in Ids : j # i => AsIs(j) /\ EntryFine(j)'
          BY <1>1, <2>2, <2>3, <4>1, OneChanges DEF Used
        <4>3. EntryFine(i)'
          BY <1>1, <1>2, <2>2, <2>3, <4>1, <4>2, ChangedFine DEF EntryFine, Over
        <4>. QED BY <4>2, <4>3
      <3>2. CASE ~kill
        BY <1>2, <2>1, <2>2, <3>2, SameEntries, EntriesStay DEF Kept
      <3>. QED BY <3>1, <3>2
    <2>5. \A j \in Ids : WatchFine(j)'
      BY <1>3, <1>5, <2>2, <2>4, WatchesStay DEF Kept
    <2>6. x \in Places \ {"ready", "publish", "record"}
      BY <2>1 DEF Places
    <2>7. at' \in [Runner -> Places] /\ at'[0] = x /\ \A w \in Runner : ThreadFine(w)'
      BY <1>3, <2>1, <2>4, <2>6, ZeroMoves
    <2>8. FileFine' /\ \A t \in Scopes : MapFine(t)'
      BY <1>5, <2>2, <2>4, FileStays, MapsStay DEF Basic, DevTyped
    <2>9. /\ request' \in [op : Operations, scope : Scopes \cup {"none"}, entry : {0} \cup Ids]
          /\ request'.entry = 0 /\ request'.scope = s /\ request'.op = request.op
      BY <1>1, <1>5 DEF Basic, DevTyped
    <2>10. RequestFine'
      <3>1. RequestFine /\ request.op # "sync start"
        BY <1>1 DEF Basic, RequestFine
      <3>2. at'[0] \in {"reread", "answer"}
        BY <2>1, <2>7
      <3>. QED BY <1>1, <2>9, <3>1, <3>2 DEF RequestFine
    <2>11. map' \in [Scopes -> {0} \cup Ids] /\ saved' \in Records
      BY <1>5 DEF Basic, DevTyped, NoFile, Records, Reasons
    <2>12. DevTyped'
      BY <1>3, <1>5, <2>4, <2>7, <2>9, <2>11 DEF Basic, DevTyped
    <2>. QED BY <2>2, <2>4, <2>5, <2>7, <2>8, <2>10, <2>12 DEF Basic
  <1>. QED BY <1>1, <1>4, <1>5 DEF Http

(* A fresh entry e is adopted by the scope.                                *)
LEMMA AdoptBasic ==
  ASSUME Basic, at[0] = "reread", NEW i \in Ids, entry[i].status = "free",
         NEW e \in Entries, e.status \in {"starting", "prepared", "running", "stopping", "failed"},
         e.scope = request.scope, e.pid <= born, KindOf(e.status, e.pid), ~e.cancelled,
         e.status \in Over => e.pid \notin alive,
         Adopt(i, e), MoveTo(0, "answer"), saved' = saved \/ saved' = State(e),
         UNCHANGED <<log, born, setups, broken, exits, snap, launched, history, calls>>
  PROVE  Basic'
  <1>1. PICK s \in Scopes : s = request.scope
    BY DEF Basic, RequestFine
  <1> DEFINE k == e.status = "running"
             r == [e EXCEPT !.watched = k]
  <1>2. entry' = [entry EXCEPT ![i] = r] /\ alive' = alive
    BY DEF Adopt
  <1>3. /\ r \in Entries /\ r.status = e.status /\ r.pid = e.pid
        /\ r.scope = e.scope /\ r.cancelled = e.cancelled
    BY DEF Entries, Wide
  <1> HIDE DEF r
  <1>4. Numbered' /\ Grows
    BY <1>2, OnlyEnds DEF Basic
  <1>5. /\ entry' \in [Ids -> Entries] /\ entry'[i] = r /\ Kept
        /\ \A j \in Ids : j # i => AsIs(j) /\ EntryFine(j)'
    BY <1>2, <1>3, <1>4, OneChanges DEF Used
  <1>6. EntryFine(i)'
    BY <1>1, <1>2, <1>3, <1>4, <1>5, ChangedFine
  <1>7. /\ idle' \in [Ids -> Idling] /\ \A j \in Ids : j # i => idle'[j] = idle[j]
        /\ (idle'[i] = "top" /\ e.status = "running") \/ idle' = idle
    BY DEF Basic, DevTyped, Idling, Adopt
  <1>8. \A j \in Ids : j # i => WatchFine(j)'
    BY <1>4, <1>5, <1>7, WatchesStay DEF Kept
  <1>9. WatchFine(i)'
    <2>1. CASE idle' = idle
      BY <1>4, <1>5, <2>1, WatchesStay DEF Kept
    <2>2. CASE idle'[i] = "top" /\ e.status = "running"
      <3>1. WatchFine(i) /\ entry[i].status = "free"
        BY DEF Basic
      <3>2. ~Setup(e.pid) /\ e.pid \in Nat /\ born \in Nat
        BY <2>2, Fields, Pids DEF KindOf
      <3>. QED BY <1>3, <1>4, <1>5, <2>2, <3>1, <3>2 DEF WatchFine, Used, Setup, Grows, Over
    <2>. QED BY <1>7, <2>1, <2>2
  <1>10. at' \in [Runner -> Places] /\ at'[0] = "answer" /\ \A w \in Runner : ThreadFine(w)'
    BY <1>5, ZeroMoves DEF Places
  <1>11. /\ map' \in [Scopes -> {0} \cup Ids] /\ map'[s] = i
         /\ \A t \in Scopes : t # s => map'[t] = map[t]
    BY <1>1 DEF Adopt, Basic, DevTyped
  <1>12. /\ request' \in [op : Operations, scope : Scopes \cup {"none"}, entry : {0} \cup Ids]
         /\ request'.scope = s /\ request'.entry = i /\ request'.op = request.op
    BY <1>1 DEF Adopt, Basic, DevTyped
  <1>13. \A t \in Scopes : MapFine(t)'
    <2>1. \A t \in Scopes : t # s => MapFine(t)'
      BY <1>5, <1>11, MapsStay
    <2>. QED BY <1>1, <1>3, <1>5, <1>11, <2>1 DEF MapFine, Used
  <1>14. FileFine' /\ saved' \in Records
    <2>1. CASE saved' = saved
      BY <1>4, <2>1, FileStays DEF Basic, DevTyped
    <2>2. CASE saved' = State(e)
      <3>1. saved' \in Records /\ saved'.pid = e.pid /\ saved'.status = e.status
        BY <2>2, StateTyped
      <3>2. e.pid \in Nat /\ born \in Nat
        BY Fields, Pids
      <3>. QED BY <1>2, <1>4, <3>1, <3>2 DEF FileFine, KindOf, Setup, Grows, Over, Dead
    <2>. QED BY <2>1, <2>2
  <1>15. RequestFine'
    <2>1. request.op # "sync start"
      BY DEF Basic, RequestFine
    <2>. QED BY <1>3, <1>5, <1>10, <1>12, <2>1, Limits DEF RequestFine, Used
  <1>16. DevTyped'
    BY <1>5, <1>7, <1>10, <1>11, <1>12, <1>14 DEF Basic, DevTyped, history
  <1>. QED BY <1>4, <1>5, <1>6, <1>8, <1>9, <1>10, <1>13, <1>14, <1>15, <1>16 DEF Basic

(* What Reread finds in the file and in the log.                           *)
LEMMA RereadFinds ==
  ASSUME Basic, at[0] = "reread", NEW e, e = Prepared(Loaded(saved, request.scope)),
         NEW logged, logged = [e EXCEPT !.pid = log, !.status = "running", !.reason = "none"]
  PROVE  /\ e.scope = request.scope /\ e.pid = saved.pid /\ e.pid <= born /\ ~e.cancelled
         /\ KindOf(e.status, e.pid) /\ e \in Wide /\ e.status # "free"
         /\ e.status \in Over => e.pid \notin alive
         /\ e.status = saved.status \/ (saved.status = "starting" /\ e.status = "prepared")
         /\ log # 0 => /\ logged \in Entries /\ logged.status = "running" /\ logged.pid = log
                       /\ logged.scope = request.scope /\ ~logged.cancelled
                       /\ KindOf("running", log)
  <1>1. request.scope \in Scopes /\ saved \in Records /\ FileFine /\ log \in Nat /\ log \notin setups
    BY DEF Basic, RequestFine, DevTyped, Numbered
  <1> DEFINE l == Loaded(saved, request.scope)
  <1>2. /\ l \in Wide /\ l.status = saved.status /\ l.pid = saved.pid /\ l.scope = request.scope
        /\ l.cancelled = FALSE /\ l.own = FALSE
    BY <1>1, LoadedTyped
  <1> HIDE DEF l
  <1>3. e = Prepared(l)
    BY DEF l
  <1>4. /\ e \in Wide /\ e.pid = l.pid /\ e.scope = l.scope /\ e.cancelled = l.cancelled
        /\ e.status = l.status \/ (l.status = "starting" /\ e.status = "prepared" /\ l.pid \notin alive)
    BY <1>2, <1>3, PreparedTyped
  <1>5. saved.status # "free"
    BY <1>1 DEF Records, Statuses
  <1>6. log # 0 => /\ logged \in Entries /\ logged.status = "running" /\ logged.pid = log
                   /\ logged.scope = e.scope /\ logged.cancelled = e.cancelled
    BY <1>1, <1>4 DEF Wide, Entries, Statuses, Reasons
  <1>7. log # 0 => KindOf("running", log)
    BY <1>1 DEF KindOf, Setup
  <1>8. e.status \in Over => e.pid \notin alive
    BY <1>1, <1>2, <1>4 DEF FileFine, Dead
  <1>. QED BY <1>1, <1>2, <1>4, <1>5, <1>6, <1>7, <1>8 DEF FileFine, KindOf

LEMMA RereadBasic ==
  ASSUME Basic, Reread PROVE Basic'
  <1> DEFINE e == Prepared(Loaded(saved, request.scope))
             logged == [e EXCEPT !.pid = log, !.status = "running", !.reason = "none"]
             pending == e.status \in {"starting", "prepared"}
  <1>1. /\ at[0] = "reread" /\ MoveTo(0, "answer")
        /\ UNCHANGED <<log, born, setups, broken, exits, snap, launched, history, calls>>
    BY DEF Reread
  <1>2. /\ e.scope = request.scope /\ e.pid = saved.pid /\ e.pid <= born /\ ~e.cancelled
        /\ KindOf(e.status, e.pid) /\ e \in Wide /\ e.status # "free"
        /\ e.status \in Over => e.pid \notin alive
        /\ e.status = saved.status \/ (saved.status = "starting" /\ e.status = "prepared")
    BY <1>1, RereadFinds
  <1>3. log # 0 => /\ logged \in Entries /\ logged.status = "running" /\ logged.pid = log
                   /\ logged.scope = request.scope /\ ~logged.cancelled
                   /\ KindOf("running", log)
    BY <1>1, RereadFinds
  <1>4. log \in Nat /\ log <= born /\ (log \in alive => log # 0) /\ 0 \notin alive
    BY DEF Basic, Numbered
  <1>5. \/ /\ pending \/ (~Terminal(e) /\ e.pid \in alive)
           /\ HasFresh /\ Adopt(Fresh, e) /\ saved' = saved
        \/ /\ log \in alive
           /\ HasFresh /\ Adopt(Fresh, logged) /\ saved' = State(logged)
        \/ /\ saved' \in {saved, NoFile} /\ alive' \subseteq alive
           /\ UNCHANGED <<entry, map, idle, request>>
    BY DEF Reread
  <1> HIDE DEF e, logged
  <1>6. CASE /\ pending \/ (~Terminal(e) /\ e.pid \in alive)
             /\ HasFresh /\ Adopt(Fresh, e) /\ saved' = saved
    <2>1. Fresh \in Ids /\ entry[Fresh].status = "free"
      BY <1>6, FreshFree DEF Basic
    <2>2. e.status # "absent"
      BY <1>2, <1>4, <1>6 DEF Basic, FileFine, NoFile, Over
    <2>3. e \in Entries
      BY <1>2, <2>2 DEF Entries
    <2>4. e.status \in {"starting", "prepared", "running", "stopping", "failed"}
      BY <1>2, <1>6, <2>2 DEF Wide, Statuses, Terminal
    <2>. QED BY <1>1, <1>2, <1>6, <2>1, <2>3, <2>4, AdoptBasic
  <1>7. CASE log \in alive /\ HasFresh /\ Adopt(Fresh, logged) /\ saved' = State(logged)
    <2>1. Fresh \in Ids /\ entry[Fresh].status = "free"
      BY <1>7, FreshFree DEF Basic
    <2>2. logged.status \notin Over /\ logged.pid <= born
      BY <1>3, <1>4, <1>7 DEF Over
    <2>. QED BY <1>1, <1>3, <1>4, <1>7, <2>1, <2>2, AdoptBasic
  <1>8. CASE saved' \in {saved, NoFile} /\ alive' \subseteq alive /\ UNCHANGED <<entry, map, idle, request>>
    <2>1. Numbered' /\ Grows
      BY <1>1, <1>8, OnlyEnds DEF Basic
    <2>2. Kept /\ \A i \in Ids : EntryFine(i)' /\ WatchFine(i)'
      BY <1>1, <1>8, <2>1, StillFine DEF Still
    <2>3. at' \in [Runner -> Places] /\ at'[0] = "answer" /\ \A w \in Runner : ThreadFine(w)'
      BY <1>1, <2>2, ZeroMoves DEF Places
    <2>4. DevTyped'
      BY <1>1, <1>8, <2>3 DEF Basic, DevTyped, history, NoFile, Records, Reasons
    <2>5. FileFine' /\ \A s \in Scopes : MapFine(s)'
      BY <1>8, <2>1, <2>2, FileStays, MapsStay
    <2>6. RequestFine'
      BY <1>1, <1>8, <2>3 DEF Basic, RequestFine, Used
    <2>. QED BY <2>1, <2>2, <2>3, <2>4, <2>5, <2>6 DEF Basic
  <1>. QED BY <1>5, <1>6, <1>7, <1>8

(* A step of the request that leaves the watchers and the threads alone.   *)
ServeKeeps(x) ==
  /\ request' \in [op : Operations, scope : Scopes \cup {"none"}, entry : {0} \cup Ids]
  /\ request'.entry = request.entry /\ request'.scope = request.scope
  /\ request'.op = "sync start" => request.entry # 0 /\ x \in {"install", "launch", "failed"}
  /\ x \in {"finalize", "generate"} => request.entry # 0
  /\ x = "finalize" => entry'[request.entry].pid \notin alive'

LEMMA RequestBasic ==
  ASSUME Basic, request.scope \in Scopes, Numbered', Grows, Kept,
         entry' \in [Ids -> Entries], \A j \in Ids : EntryFine(j)',
         UNCHANGED <<idle, exits, snap, launched>>,
         NEW x \in {"off", "answer", "finalize", "background", "generate", "install", "launch"}, MoveTo(0, x),
         map' \in [Scopes -> {0} \cup Ids], \A s \in Scopes : map'[s] \in {0, map[s]},
         saved' \in Records, FileFine',
         ServeKeeps(x) \/ (x = "off" /\ request' = NoRequest),
         excused' \in BOOLEAN, stopped' \in BOOLEAN, restarted' \in BOOLEAN
  PROVE  Basic'
  <1>1. \A i \in Ids : WatchFine(i)'
    BY WatchesStay DEF Kept
  <1>2. at' \in [Runner -> Places] /\ at'[0] = x /\ \A w \in Runner : ThreadFine(w)'
    BY ZeroMoves DEF Places
  <1>3. \A s \in Scopes : MapFine(s)'
    BY MapsStay
  <1>4. RequestFine'
    <2>1. CASE ServeKeeps(x)
      <3>1. request.entry # 0 => entry'[request.entry].status # "free"
        <4>1. request.entry \in {0} \cup Ids /\ (request.entry # 0 => entry[request.entry].status # "free")
          BY DEF Basic, RequestFine, DevTyped, Used
        <4>. QED BY <4>1 DEF Kept, KeptAt
      <3>. QED BY <1>2, <2>1, <3>1 DEF RequestFine, ServeKeeps, Used, Dead
    <2>2. CASE x = "off" /\ request' = NoRequest
      BY <1>2, <2>2 DEF RequestFine, NoRequest
    <2>. QED BY <2>1, <2>2
  <1>5. request' \in [op : Operations, scope : Scopes \cup {"none"}, entry : {0} \cup Ids]
    <2>1. NoRequest \in [op : Operations, scope : Scopes \cup {"none"}, entry : {0} \cup Ids]
      BY DEF NoRequest, Operations
    <2>. QED BY <2>1 DEF ServeKeeps
  <1>6. DevTyped'
    BY <1>2, <1>5 DEF Basic, DevTyped
  <1>. QED BY <1>1, <1>2, <1>3, <1>4, <1>6 DEF Basic

(* Where the request found an entry.                                       *)
LEMMA FoundIs ==
  ASSUME Basic, at[0] # "off"
  PROVE  /\ request.scope \in Scopes /\ request.entry \in {0} \cup Ids
         /\ request.entry # 0 => /\ request.entry \in Ids /\ Found /\ It = entry[request.entry]
                                 /\ It \in Entries /\ It.status # "free" /\ It.scope \in Scopes
                                 /\ It.pid <= born /\ It.pid \in Nat /\ KindOf(It.status, It.pid)
                                 /\ EntryFine(request.entry)
  BY Fields DEF Basic, RequestFine, DevTyped, EntryFine, Found, It, Used, Over

LEMMA BooleansStay ==
  ASSUME Basic, UNCHANGED history
  PROVE  excused' \in BOOLEAN /\ stopped' \in BOOLEAN /\ restarted' \in BOOLEAN
  BY DEF Basic, DevTyped, history

LEMMA StopBasic ==
  ASSUME Basic, StopDev PROVE Basic'
  <1>1. PICK i \in Ids : i = request.entry
    BY FoundIs DEF StopDev, Found
  <1>2. /\ at[0] = "answer" /\ request.scope \in Scopes /\ i # 0
        /\ entry[i] \in Entries /\ Used(i) /\ EntryFine(i) /\ It = entry[i]
    BY <1>1, Limits, FoundIs DEF StopDev, Used
  <1>3. /\ entry' = [entry EXCEPT ![i] = Destroyed(entry[i], "manual")]
        /\ alive' = alive \ {entry[i].pid} /\ MoveTo(0, "finalize")
        /\ UNCHANGED <<map, saved, log, born, setups, idle, exits, snap, request, launched, restarted>>
    BY <1>1, <1>2 DEF StopDev, watching
  <1> DEFINE r == Destroyed(entry[i], "manual")
  <1>4. /\ r \in Entries /\ r.pid = entry[i].pid /\ r.scope = entry[i].scope
        /\ r.status = entry[i].status
    BY <1>2, DestroyedTyped DEF Reasons
  <1>5. entry' = [entry EXCEPT ![i] = r] /\ r.pid \notin alive'
    BY <1>3, <1>4
  <1> HIDE DEF r
  <1>6. Numbered' /\ Grows
    BY <1>3, OnlyEnds DEF Basic
  <1>7. /\ entry' \in [Ids -> Entries] /\ entry'[i] = r /\ Kept
        /\ \A j \in Ids : j # i => AsIs(j) /\ EntryFine(j)'
    BY <1>2, <1>4, <1>5, <1>6, OneChanges DEF Used
  <1>8. EntryFine(i)'
    BY <1>2, <1>4, <1>5, <1>6, <1>7, ChangedFine DEF EntryFine, Over
  <1>9. FileFine' /\ saved' \in Records
    BY <1>3, <1>6, FileStays DEF Basic, DevTyped
  <1>10. ServeKeeps("finalize")
    <2>1. request.op # "sync start"
      BY <1>2 DEF Basic, RequestFine
    <2>. QED BY <1>1, <1>2, <1>3, <1>5, <1>7, <2>1 DEF ServeKeeps, Basic, DevTyped
  <1>11. map' \in [Scopes -> {0} \cup Ids] /\ \A s \in Scopes : map'[s] \in {0, map[s]}
    BY <1>3 DEF Basic, DevTyped
  <1>12. excused' \in BOOLEAN /\ stopped' \in BOOLEAN /\ restarted' \in BOOLEAN
    BY <1>3 DEF StopDev, Basic, DevTyped
  <1>13. \A j \in Ids : EntryFine(j)'
    BY <1>7, <1>8
  <1>. QED BY <1>2, <1>3, <1>6, <1>7, <1>9, <1>10, <1>11, <1>12, <1>13, RequestBasic

LEMMA FinalizeBasic ==
  ASSUME Basic, Finalize PROVE Basic'
  <1>1. at[0] = "finalize" /\ request.entry # 0
    BY DEF Finalize, Basic, RequestFine
  <1>2. PICK i \in Ids : i = request.entry
    BY <1>1, FoundIs
  <1>3. /\ request.scope \in Scopes /\ i # 0 /\ Dead(entry[i].pid)
        /\ entry[i] \in Entries /\ Used(i) /\ EntryFine(i) /\ It = entry[i]
    BY <1>1, <1>2, FoundIs DEF Used, Basic, RequestFine
  <1> DEFINE r == [entry[i] EXCEPT !.status = "stopped", !.old = FALSE]
  <1>4. /\ entry' = Aged([entry EXCEPT ![i] = r], i) /\ saved' = State(r)
        /\ map' = [map EXCEPT ![request.scope] = 0] /\ MoveTo(0, "off") /\ request' = NoRequest
        /\ UNCHANGED <<log, born, alive, setups, idle, exits, snap, launched, stopped, restarted>>
    BY <1>2, <1>3 DEF Finalize, Done, processes, watching
  <1>5. /\ r \in Entries /\ r.pid = entry[i].pid /\ r.scope = entry[i].scope
        /\ r.status = "stopped" /\ r.cancelled = entry[i].cancelled
    BY <1>3 DEF Entries, Wide, Statuses
  <1> HIDE DEF r
  <1>6. Numbered' /\ Grows
    BY <1>4, OnlyEnds DEF Basic
  <1>7. /\ entry' \in [Ids -> Entries] /\ entry'[i] = r /\ Kept
        /\ \A j \in Ids : j # i => AsIs(j) /\ EntryFine(j)'
    BY <1>3, <1>4, <1>5, <1>6, OneChanges DEF Used
  <1>8. EntryFine(i)'
    BY <1>3, <1>4, <1>5, <1>6, <1>7, ChangedFine DEF EntryFine, Dead, KindOf, Over
  <1>9. FileFine' /\ saved' \in Records
    BY <1>3, <1>4, <1>5, <1>6, StateTyped DEF FileFine, KindOf, Dead, EntryFine, Over
  <1>10. map' \in [Scopes -> {0} \cup Ids] /\ \A s \in Scopes : map'[s] \in {0, map[s]}
    BY <1>4 DEF Basic, DevTyped
  <1>11. excused' \in BOOLEAN /\ stopped' \in BOOLEAN /\ restarted' \in BOOLEAN
    BY <1>4 DEF Finalize, Overwrites, Basic, DevTyped
  <1>12. \A j \in Ids : EntryFine(j)'
    BY <1>7, <1>8
  <1>. QED BY <1>3, <1>4, <1>6, <1>7, <1>9, <1>10, <1>11, <1>12, RequestBasic

LEMMA NothingBasic ==
  ASSUME Basic, Nothing PROVE Basic'
  <1>1. /\ at[0] = "answer" /\ MoveTo(0, "off") /\ request' = NoRequest
        /\ UNCHANGED <<entry, map, saved, log, born, alive, setups, idle, exits, snap, launched, history>>
    BY DEF Nothing, Done, processes, watching
  <1>2. Numbered' /\ Grows
    BY <1>1, OnlyEnds DEF Basic
  <1>3. Kept /\ \A i \in Ids : EntryFine(i)'
    BY <1>1, <1>2, StillFine DEF Still
  <1>4. FileFine' /\ saved' \in Records /\ entry' \in [Ids -> Entries]
    BY <1>1, <1>2, FileStays DEF Basic, DevTyped
  <1>5. map' \in [Scopes -> {0} \cup Ids] /\ \A s \in Scopes : map'[s] \in {0, map[s]}
    BY <1>1 DEF Basic, DevTyped
  <1>. QED BY <1>1, <1>2, <1>3, <1>4, <1>5, BooleansStay, FoundIs, RequestBasic

LEMMA NoFileTyped == NoFile \in Records
  BY DEF NoFile, Records, Reasons

LEMMA StartBasic ==
  ASSUME Basic, Start PROVE Basic'
  <1>1. /\ at[0] = "answer" /\ request' = request /\ request.op # "sync start" /\ request.scope \in Scopes
        /\ UNCHANGED <<entry, log, born, alive, setups, idle, exits, snap, launched, excused, restarted>>
        /\ stopped' = FALSE
    BY FoundIs DEF Start, processes, watching
  <1>2. PICK x \in {"install", "background"} : MoveTo(0, x)
    BY DEF Start
  <1>3. Numbered' /\ Grows
    BY <1>1, OnlyEnds DEF Basic
  <1>4. Kept /\ \A i \in Ids : EntryFine(i)'
    BY <1>1, <1>3, StillFine DEF Still
  <1>5. saved' \in {saved, NoFile}
    BY DEF Start
  <1>6. FileFine' /\ saved' \in Records /\ entry' \in [Ids -> Entries]
    BY <1>1, <1>3, <1>5, FileStays, NoFileTyped DEF Basic, DevTyped
  <1>7. map' \in [Scopes -> {0} \cup Ids] /\ \A s \in Scopes : map'[s] \in {0, map[s]}
    BY <1>1 DEF Start, Basic, DevTyped
  <1>8. ServeKeeps(x)
    BY <1>1, <1>2 DEF ServeKeeps, Basic, DevTyped
  <1>9. excused' \in BOOLEAN /\ stopped' \in BOOLEAN /\ restarted' \in BOOLEAN
    BY <1>1 DEF Basic, DevTyped
  <1>. QED BY <1>1, <1>2, <1>3, <1>4, <1>6, <1>7, <1>8, <1>9, RequestBasic

(* A process that is launched: the dead stay dead.                         *)
LEMMA OneBorn ==
  ASSUME Numbered, born' = born + 1, born' <= MaxProcesses, alive' = alive \cup {born + 1},
         \/ setups' = setups \cup {born + 1} /\ log' = log
         \/ setups' = setups /\ log' = born + 1
  PROVE  Grows /\ Numbered'
  <1>1. born \in Nat /\ born' \in Nat /\ born <= born'
    BY DEF Numbered
  <1>2. \A p \in Nat : p <= born => p # born + 1
    BY <1>1
  <1>3. Grows
    BY <1>1, <1>2 DEF Grows
  <1>4. born + 1 \in 1 .. born' /\ 1 .. born \subseteq 1 .. born' /\ born + 1 \notin 1 .. born
    BY <1>1
  <1>5. alive' \subseteq 1 .. born' /\ setups' \subseteq 1 .. born'
    BY <1>4 DEF Numbered
  <1>6. log' \in Nat /\ log' <= born' /\ log' \notin setups'
    <2>1. CASE setups' = setups \cup {born + 1} /\ log' = log
      <3>1. log # born + 1
        BY <1>1 DEF Numbered
      <3>. QED BY <1>1, <2>1, <3>1 DEF Numbered
    <2>2. CASE setups' = setups /\ log' = born + 1
      BY <1>1, <1>4, <2>2 DEF Numbered
    <2>. QED BY <2>1, <2>2
  <1>. QED BY <1>1, <1>3, <1>5, <1>6 DEF Numbered

LEMMA PidOf ==
  ASSUME NEW a, NEW b, NEW c, NEW d, NEW p
  PROVE  [Free EXCEPT !.status = a, !.app = b, !.scope = c, !.own = d, !.pid = p].pid = p
  BY DEF Free

LEMMA BackgroundBasic ==
  ASSUME Basic, Background PROVE Basic'
  <1>1. at[0] = "background" /\ HasFresh
    BY DEF Background
  <1>2. PICK i \in Ids : i = Fresh /\ entry[i].status = "free" /\ i # 0
    BY <1>1, FreshFree DEF Basic
  <1>3. PICK s \in Scopes : s = request.scope
    BY <1>1 DEF Basic, RequestFine
  <1>4. PICK status \in {"prepared", "starting", "failed"}, app \in BOOLEAN :
          LET e == [Free EXCEPT !.status = status, !.app = app, !.scope = request.scope,
                                !.own = (status = "starting"),
                                !.pid = IF status = "starting" THEN born + 1 ELSE 0]
          IN /\ Outcome(status # "failed")
             /\ status = "prepared" => app
             /\ IF status = "starting"
                THEN /\ born < MaxProcesses /\ born' = born + 1
                     /\ alive' = alive \cup {e.pid} /\ setups' = setups \cup {e.pid}
                ELSE UNCHANGED <<born, alive, setups>>
             /\ entry' = Aged([entry EXCEPT ![Fresh] = e], Fresh)
             /\ map' = [map EXCEPT ![request.scope] = Fresh]
             /\ saved' = State(e)
             /\ at' = [at EXCEPT ![0] = "off",
                                 ![Fresh] = IF app /\ status # "failed" THEN "prepare" ELSE "off"]
    BY DEF Background
  <1> DEFINE p == IF status = "starting" THEN born + 1 ELSE 0
             o == status = "starting"
             r == [Free EXCEPT !.status = status, !.app = app, !.scope = s, !.own = o, !.pid = p]
             x == IF app /\ status # "failed" THEN "prepare" ELSE "off"
  <1>5. UNCHANGED <<log, broken, idle, exits, snap, launched, excused, stopped, restarted>>
        /\ request' = NoRequest
    BY DEF Background, watching, history
  <1>6. born \in Nat /\ p \in Nat
    BY DEF Basic, Numbered
  <1>7. /\ entry' = Aged([entry EXCEPT ![i] = r], i) /\ map' = [map EXCEPT ![s] = i] /\ saved' = State(r)
        /\ at' = [at EXCEPT ![0] = "off", ![i] = x]
    BY <1>2, <1>3, <1>4
  <1> HIDE DEF p
  <1>8. /\ r \in Entries /\ r.status = status /\ r.pid = p /\ r.scope = s /\ r.cancelled = FALSE
    BY <1>6 DEF Free, Entries, Wide, Statuses, Reasons
  <1>9. IF status = "starting"
        THEN /\ born < MaxProcesses /\ born' = born + 1
             /\ alive' = alive \cup {born + 1} /\ setups' = setups \cup {born + 1}
        ELSE UNCHANGED <<born, alive, setups>>
    <2>1. [Free EXCEPT !.status = status, !.app = app, !.scope = request.scope,
                       !.own = (status = "starting"),
                       !.pid = IF status = "starting" THEN born + 1 ELSE 0].pid = p
      BY DEF Free, p
    <2>. QED BY <1>4, <2>1 DEF p
  <1> HIDE DEF r
  <1>10. Numbered' /\ Grows
    <2>1. CASE status = "starting"
      BY <1>5, <1>6, <1>9, <2>1, OneBorn, Limits DEF Basic
    <2>2. CASE status # "starting"
      BY <1>5, <1>9, <2>2, OnlyEnds DEF Basic
    <2>. QED BY <2>1, <2>2
  <1>11. /\ entry' \in [Ids -> Entries] /\ entry'[i] = r /\ Kept
         /\ \A j \in Ids : j # i => AsIs(j) /\ EntryFine(j)'
    BY <1>2, <1>7, <1>8, <1>10, OneChanges DEF Used
  <1>12. p <= born' /\ (p = 0 \/ p \in setups') /\ born' \in Nat
    BY <1>6, <1>9 DEF p
  <1>13. EntryFine(i)' /\ FileFine' /\ saved' \in Records
    <2>1. saved' \in Records /\ saved'.pid = p /\ saved'.status = status
      BY <1>7, <1>8, StateTyped
    <2>2. status \in Over => p \notin alive'
      BY <1>10, <1>12 DEF Numbered, Over, p
    <2>. QED BY <1>8, <1>11, <1>12, <2>1, <2>2 DEF EntryFine, FileFine, KindOf, Setup, Dead
  <1>14. \A j \in Ids : WatchFine(j)'
    BY <1>5, <1>10, <1>11, WatchesStay DEF Kept
  <1>15. 0 \in Runner /\ i \in Runner /\ \A w \in Runner : w # 0 => w \in Ids
    BY DEF Runner
  <1>16. /\ at' \in [Runner -> Places] /\ at'[0] = "off" /\ at'[i] = x
         /\ \A w \in Runner : w # 0 /\ w # i => at'[w] = at[w]
    BY <1>2, <1>7, <1>15 DEF Basic, DevTyped, Places
  <1>17. ASSUME NEW w \in Runner PROVE ThreadFine(w)'
    <2>1. CASE w = 0
      BY <1>16, <2>1 DEF ThreadFine
    <2>2. CASE w = i
      <3>1. at'[i] \in {"off", "prepare"}
        BY <1>16
      <3>. QED BY <1>8, <1>11, <1>12, <1>16, <2>2, <3>1 DEF ThreadFine, Activating, Used, Setup
    <2>3. CASE w # 0 /\ w # i
      BY <1>5, <1>11, <1>16, <2>3, ThreadsStay
    <2>. QED BY <2>1, <2>2, <2>3
  <1>18. map' \in [Scopes -> {0} \cup Ids] /\ map'[s] = i /\ \A t \in Scopes : t # s => map'[t] = map[t]
    BY <1>7 DEF Basic, DevTyped
  <1>19. \A t \in Scopes : MapFine(t)'
    <2>1. \A t \in Scopes : t # s => MapFine(t)'
      BY <1>11, <1>18, MapsStay
    <2>. QED BY <1>8, <1>11, <1>18, <2>1 DEF MapFine, Used
  <1>20. RequestFine' /\ request' \in [op : Operations, scope : Scopes \cup {"none"}, entry : {0} \cup Ids]
    BY <1>5, <1>16 DEF RequestFine, NoRequest, Operations
  <1>21. DevTyped'
    BY <1>5, <1>11, <1>13, <1>16, <1>18, <1>20 DEF Basic, DevTyped
  <1>. QED BY <1>10, <1>11, <1>13, <1>14, <1>17, <1>19, <1>20, <1>21 DEF Basic

LEMMA SyncBasic ==
  ASSUME Basic, Sync PROVE Basic'
  <1>1. PICK i \in Ids : i = request.entry
    BY FoundIs DEF Sync, Found
  <1>2. /\ at[0] = "answer" /\ request.scope \in Scopes /\ i # 0
        /\ entry[i] \in Entries /\ Used(i) /\ EntryFine(i) /\ It = entry[i] /\ request.op = "sync"
    BY <1>1, Limits, FoundIs DEF Sync, Used
  <1> DEFINE e == Prepared(entry[i])
  <1>3. /\ e \in Wide /\ e.pid = entry[i].pid /\ e.scope = entry[i].scope /\ e.cancelled = entry[i].cancelled
        /\ \/ e.status = entry[i].status
           \/ /\ entry[i].status = "starting" /\ entry[i].pid \notin alive
              /\ e.status \in {"prepared", "stopped", "failed"}
    BY <1>2, Fields, PreparedTyped
  <1>4. e \in Entries /\ e.status # "free"
    BY <1>2, <1>3 DEF Entries, Used
  <1>5. /\ UNCHANGED <<map, saved, log, born, alive, setups, idle, exits, snap, launched, excused, restarted>>
        /\ stopped' = FALSE
    BY DEF Sync, processes, watching
  <1> HIDE DEF e
  <1>6. \/ /\ MoveTo(0, "off") /\ request' = NoRequest /\ entry' = [entry EXCEPT ![i] = e]
        \/ /\ \E k \in BOOLEAN : entry' = [entry EXCEPT ![i] = [e EXCEPT !.act = k]]
           /\ \/ /\ e.status = "prepared" /\ request' = [request EXCEPT !.op = "sync start"]
                 /\ MoveTo(0, "install")
              \/ request' = [request EXCEPT !.op = @] /\ MoveTo(0, "generate")
    <2>1. (e.act \/ e.status = "prepared") \in BOOLEAN
      OBVIOUS
    <2>. QED BY <1>1, <1>2, <2>1 DEF Sync, Done, e
  <1>7. PICK r \in Entries : /\ entry' = [entry EXCEPT ![i] = r]
                             /\ r.status = e.status /\ r.pid = e.pid /\ r.scope = e.scope
                             /\ r.cancelled = e.cancelled
    <2>1. \A k \in BOOLEAN : /\ [e EXCEPT !.act = k] \in Entries /\ [e EXCEPT !.act = k].status = e.status
                             /\ [e EXCEPT !.act = k].pid = e.pid /\ [e EXCEPT !.act = k].scope = e.scope
                             /\ [e EXCEPT !.act = k].cancelled = e.cancelled
      BY <1>4 DEF Entries, Wide
    <2>. QED BY <1>4, <1>6, <2>1
  <1>8. Numbered' /\ Grows
    BY <1>5, OnlyEnds DEF Basic
  <1>9. /\ entry' \in [Ids -> Entries] /\ entry'[i] = r /\ Kept
        /\ \A j \in Ids : j # i => AsIs(j) /\ EntryFine(j)'
    <2>1. r.status # "free" /\ r.pid = entry[i].pid /\ r.scope = entry[i].scope
      BY <1>3, <1>4, <1>7
    <2>. QED BY <1>7, <1>8, <2>1, OneChanges
  <1>10. EntryFine(i)'
    BY <1>2, <1>3, <1>5, <1>7, <1>8, <1>9, ChangedFine DEF EntryFine, Used, Over, Terminal, KindOf, Dead
  <1>11. \A j \in Ids : EntryFine(j)'
    BY <1>9, <1>10
  <1>12. FileFine' /\ saved' \in Records
    BY <1>5, <1>8, FileStays DEF Basic, DevTyped
  <1>13. map' \in [Scopes -> {0} \cup Ids] /\ \A s \in Scopes : map'[s] \in {0, map[s]}
    BY <1>5 DEF Basic, DevTyped
  <1>14. excused' \in BOOLEAN /\ stopped' \in BOOLEAN /\ restarted' \in BOOLEAN
    BY <1>5 DEF Basic, DevTyped
  <1>15. PICK x \in {"off", "install", "generate"} :
           /\ MoveTo(0, x)
           /\ ServeKeeps(x) \/ (x = "off" /\ request' = NoRequest)
    <2>1. CASE MoveTo(0, "off") /\ request' = NoRequest
      BY <2>1
    <2>2. CASE request' = [request EXCEPT !.op = "sync start"] /\ MoveTo(0, "install")
      <3>1. ServeKeeps("install")
        BY <1>1, <1>2, <2>2 DEF ServeKeeps, Basic, DevTyped, Operations
      <3>. QED BY <2>2, <3>1
    <2>3. CASE request' = [request EXCEPT !.op = @] /\ MoveTo(0, "generate")
      <3>1. ServeKeeps("generate")
        BY <1>1, <1>2, <2>3 DEF ServeKeeps, Basic, DevTyped, Operations
      <3>. QED BY <2>3, <3>1
    <2>. QED BY <1>6, <2>1, <2>2, <2>3
  <1>. QED BY <1>2, <1>5, <1>8, <1>9, <1>11, <1>12, <1>13, <1>14, <1>15, RequestBasic

LEMMA GenerateBasic ==
  ASSUME Basic, GenerateDev PROVE Basic'
  <1>1. at[0] = "generate" /\ request.entry # 0
    BY DEF GenerateDev, Basic, RequestFine
  <1>2. PICK i \in Ids : i = request.entry
    BY <1>1, FoundIs
  <1>3. /\ request.scope \in Scopes /\ i # 0 /\ request.op # "sync start"
        /\ entry[i] \in Entries /\ Used(i) /\ EntryFine(i) /\ It = entry[i]
    BY <1>1, <1>2, FoundIs DEF Used, Basic, RequestFine
  <1>4. UNCHANGED <<map, log, born, setups, idle, exits, snap, launched, history>>
    BY DEF GenerateDev, watching
  <1>5. map' \in [Scopes -> {0} \cup Ids] /\ \A s \in Scopes : map'[s] \in {0, map[s]}
    BY <1>4 DEF Basic, DevTyped
  <1>6. CASE /\ MoveTo(0, "launch") /\ request' = [request EXCEPT !.op = "restart"]
             /\ entry' = [entry EXCEPT ![i] = Destroyed(@, "other")]
             /\ alive' = alive \ {It.pid} /\ UNCHANGED saved
    <2> DEFINE r == Destroyed(entry[i], "other")
    <2>1. /\ r \in Entries /\ r.pid = entry[i].pid /\ r.scope = entry[i].scope
          /\ r.status = entry[i].status
      BY <1>3, DestroyedTyped DEF Reasons
    <2>2. entry' = [entry EXCEPT ![i] = r] /\ r.pid \notin alive'
      BY <1>3, <1>6, <2>1
    <2> HIDE DEF r
    <2>3. Numbered' /\ Grows
      BY <1>4, <1>6, OnlyEnds DEF Basic
    <2>4. /\ entry' \in [Ids -> Entries] /\ entry'[i] = r /\ Kept
          /\ \A j \in Ids : j # i => AsIs(j) /\ EntryFine(j)'
      BY <1>3, <2>1, <2>2, <2>3, OneChanges DEF Used
    <2>5. EntryFine(i)'
      BY <1>3, <2>1, <2>2, <2>3, <2>4, ChangedFine DEF EntryFine, Over
    <2>6. FileFine' /\ saved' \in Records
      BY <1>6, <2>3, FileStays DEF Basic, DevTyped
    <2>7. ServeKeeps("launch")
      BY <1>1, <1>6 DEF ServeKeeps, Basic, DevTyped, Operations
    <2>8. \A j \in Ids : EntryFine(j)'
      BY <2>4, <2>5
    <2>. QED BY <1>3, <1>4, <1>5, <1>6, <2>3, <2>4, <2>6, <2>7, <2>8, BooleansStay, RequestBasic
  <1>7. CASE /\ MoveTo(0, "off") /\ request' = NoRequest
             /\ \E fine \in BOOLEAN :
                  /\ saved' = IF fine THEN State(It) ELSE saved
                  /\ entry' = IF fine THEN Aged(entry, request.entry) ELSE entry
             /\ UNCHANGED alive
    <2>1. Numbered' /\ Grows
      BY <1>4, <1>7, OnlyEnds DEF Basic
    <2>2. entry' \in [Ids -> Entries] /\ Kept /\ \A j \in Ids : EntryFine(j)'
      <3>1. entry' = Aged(entry, i) \/ entry' = entry
        BY <1>2, <1>7
      <3>. QED BY <2>1, <3>1, OnlyAges
    <2>3. FileFine' /\ saved' \in Records
      <3>1. CASE saved' = saved
        BY <2>1, <3>1, FileStays DEF Basic, DevTyped
      <3>2. CASE saved' = State(entry[i])
        <4>1. saved' \in Records /\ saved'.pid = entry[i].pid /\ saved'.status = entry[i].status
              /\ saved'.status # "absent"
          BY <1>3, <3>2, StateTyped DEF Used
        <4>2. entry[i].pid \in Nat /\ entry[i].pid <= born
          BY Pids
        <4>. QED BY <1>3, <1>4, <1>7, <4>1, <4>2 DEF FileFine, EntryFine, KindOf, Setup, Dead, Over, Terminal
      <3>. QED BY <1>3, <1>7, <3>1, <3>2
    <2>. QED BY <1>3, <1>4, <1>5, <1>7, <2>1, <2>2, <2>3, BooleansStay, RequestBasic
  <1>. QED BY <1>2, <1>6, <1>7 DEF GenerateDev, Done

LEMMA InstallBasic ==
  ASSUME Basic, Install PROVE Basic'
  <1>1. /\ at[0] = "install" /\ request.scope \in Scopes /\ request.entry \in {0} \cup Ids
        /\ RequestFine
    BY FoundIs DEF Install, Basic
  <1>2. UNCHANGED <<map, saved, log, born, alive, setups, idle, exits, snap, launched, history>>
    BY DEF Install, processes, watching
  <1>3. Numbered' /\ Grows
    BY <1>2, OnlyEnds DEF Basic
  <1>4. FileFine' /\ saved' \in Records
    BY <1>2, <1>3, FileStays DEF Basic, DevTyped
  <1>5. map' \in [Scopes -> {0} \cup Ids] /\ \A s \in Scopes : map'[s] \in {0, map[s]}
    BY <1>2 DEF Basic, DevTyped
  <1>6. CASE MoveTo(0, "launch") /\ UNCHANGED <<entry, request>>
    <2>1. Kept /\ entry' \in [Ids -> Entries] /\ \A j \in Ids : EntryFine(j)'
      BY <1>2, <1>3, <1>6, StillFine DEF Still, Basic, DevTyped
    <2>2. ServeKeeps("launch")
      BY <1>1, <1>6 DEF ServeKeeps, RequestFine, Basic, DevTyped
    <2>. QED BY <1>1, <1>2, <1>3, <1>4, <1>5, <1>6, <2>1, <2>2, BooleansStay, RequestBasic
  <1>7. CASE /\ MoveTo(0, "off") /\ request' = NoRequest
             /\ entry' = IF request.op = "sync start"
                         THEN [entry EXCEPT ![request.entry].act = FALSE] ELSE entry
    <2>1. entry' \in [Ids -> Entries] /\ \A j \in Ids : AsIs(j)
      <3>1. CASE request.op = "sync start"
        <4>1. PICK i \in Ids : i = request.entry
          BY <1>1, <3>1 DEF RequestFine
        <4> DEFINE r == [entry[i] EXCEPT !.act = FALSE]
        <4>2. /\ r \in Entries /\ r.status = entry[i].status /\ r.pid = entry[i].pid
              /\ r.scope = entry[i].scope /\ r.cancelled = entry[i].cancelled
          <5>1. entry[i] \in Entries
            BY DEF Basic, DevTyped
          <5>. QED BY <5>1 DEF Entries, Wide
        <4>3. entry' = [entry EXCEPT ![i] = r] /\ entry \in [Ids -> Entries]
          BY <1>7, <3>1, <4>1 DEF Basic, DevTyped
        <4> HIDE DEF r
        <4>4. entry' \in [Ids -> Entries] /\ entry'[i] = r /\ \A j \in Ids : j # i => entry'[j] = entry[j]
          BY <4>2, <4>3
        <4>. QED BY <4>2, <4>4 DEF AsIs
      <3>2. CASE entry' = entry
        <4>1. entry \in [Ids -> Entries]
          BY DEF Basic, DevTyped
        <4>. QED BY <3>2, <4>1, SameEntries
      <3>. QED BY <1>7, <3>1, <3>2
    <2>2. Kept /\ \A j \in Ids : EntryFine(j)'
      BY <1>3, <2>1, EntriesStay DEF Kept, KeptAt, AsIs
    <2>. QED BY <1>1, <1>2, <1>3, <1>4, <1>5, <1>7, <2>1, <2>2, BooleansStay, RequestBasic
  <1>. QED BY <1>6, <1>7 DEF Install, Done

(* The file, once the state of an entry is written.                        *)
LEMMA StateFine ==
  ASSUME Basic, Grows, NEW r \in Entries, r.status # "free", r.pid <= born, KindOf(r.status, r.pid),
         r.status \in Over => r.pid \notin alive', saved' = State(r)
  PROVE  FileFine' /\ saved' \in Records
  <1>1. saved' \in Records /\ saved'.pid = r.pid /\ saved'.status = r.status /\ saved'.status # "absent"
    BY StateTyped
  <1>2. r.pid \in Nat /\ born \in Nat
    BY Fields, Pids
  <1>3. Setup(r.pid)' <=> Setup(r.pid)
    BY <1>2 DEF Grows, Setup
  <1>4. (KindOf(saved.status, saved.pid))'
    BY <1>1, <1>3 DEF KindOf
  <1>5. saved'.pid <= born'
    BY <1>1, <1>2 DEF Grows
  <1>. QED BY <1>1, <1>4, <1>5 DEF FileFine, Dead, Over

(* A thread that launches Vite does one step.                              *)
LEMMA HostStays ==
  ASSUME Basic, Kept, NEW w \in Ids, at[w] # "off"
  PROVE  /\ (Used(w) /\ Setup(entry[w].pid))' /\ Used(w) /\ Setup(entry[w].pid) /\ entry[w].scope \in Scopes
         /\ at[w] # "prepare" => (Dead(entry[w].pid))'
  <1>1. /\ Used(w) /\ Setup(entry[w].pid) /\ entry[w].pid \in Nat /\ entry[w].pid <= born
        /\ at[w] # "prepare" => Dead(entry[w].pid)
    BY Limits, Pids DEF Basic, ThreadFine, Runner
  <1>2. entry[w].scope \in Scopes
    BY <1>1 DEF Basic, EntryFine, Over
  <1>. QED BY <1>1, <1>2 DEF Kept, KeptAt, Grows, Used, Setup, Dead

LaunchFine(w, x) ==
  /\ at[w] = "prepare" => x = "off" \/ entry'[w].pid \notin alive'
  /\ x \in {"ready", "publish"} => launched'[w] \in 1 .. born' /\ launched'[w] \notin setups'
  /\ x = "record" => launched'[w] \in Ids /\ (Used(launched[w]) /\ ~Setup(entry[launched[w]].pid))'

LaunchRequest(w, x) ==
  \/ request' = request /\ (w = 0 => x # "off")
  \/ w = 0 /\ x = "off" /\ request' = NoRequest

LEMMA LaunchBasic ==
  ASSUME Basic, Numbered', Grows, Kept, NEW w \in Runner,
         NEW x \in {"off", "launch", "ready", "publish", "record", "failed"}, at[w] # "off", MoveTo(w, x),
         entry' \in [Ids -> Entries], \A j \in Ids : EntryFine(j)',
         idle' \in [Ids -> Idling], exits' \in [Ids -> {"off", "wait", "write"}], snap' = snap,
         \A j \in Ids : WatchFine(j)',
         map' \in [Scopes -> {0} \cup Ids], \A s \in Scopes : MapFine(s)',
         saved' \in Records, FileFine',
         launched' \in [Runner -> Nat], \A v \in Runner : v # w => launched'[v] = launched[v],
         LaunchFine(w, x), LaunchRequest(w, x),
         excused' \in BOOLEAN, stopped' \in BOOLEAN, restarted' \in BOOLEAN
  PROVE  Basic'
  <1>1. at' \in [Runner -> Places] /\ at'[w] = x /\ \A v \in Runner : v # w => at'[v] = at[v]
    BY Moved DEF Basic, Places
  <1>2. \A v \in Runner : v # w => ThreadFine(v)'
    BY <1>1, ThreadsStay
  <1>3. ThreadFine(w)'
    <2>1. w # 0 => (Used(w) /\ Setup(entry[w].pid))' /\ (x # "off" => (Dead(entry[w].pid))')
      BY HostStays DEF Runner, LaunchFine, Dead
    <2>. QED BY <1>1, <2>1 DEF ThreadFine, LaunchFine, Activating
  <1>4. RequestFine' /\ request' \in [op : Operations, scope : Scopes \cup {"none"}, entry : {0} \cup Ids]
    <2>1. CASE w # 0 /\ request' = request
      <3>1. 0 \in Runner
        BY DEF Runner
      <3>. QED BY <1>1, <2>1, <3>1, RequestStays DEF Basic, DevTyped
    <2>2. CASE w = 0 /\ x # "off" /\ request' = request
      <3>1. /\ request.entry # 0 => entry'[request.entry].status # "free"
            /\ request \in [op : Operations, scope : Scopes \cup {"none"}, entry : {0} \cup Ids]
        BY DEF Kept, KeptAt, Basic, RequestFine, DevTyped, Used
      <3>. QED BY <1>1, <2>2, <3>1 DEF RequestFine, Basic, Used
    <2>3. CASE w = 0 /\ x = "off" /\ request' = NoRequest
      BY <1>1, <2>3 DEF RequestFine, NoRequest, Operations
    <2>. QED BY <2>1, <2>2, <2>3 DEF LaunchRequest
  <1>5. DevTyped'
    BY <1>1, <1>4 DEF Basic, DevTyped
  <1>. QED BY <1>2, <1>3, <1>4, <1>5 DEF Basic

LEMMA LaunchesBasic ==
  ASSUME Basic, NEW w \in Runner, LaunchVite(w) PROVE Basic'
  <1>1. /\ at[w] = "launch" /\ born' = born + 1 /\ log' = born + 1 /\ born < MaxProcesses
        /\ alive' = alive \cup {born + 1} /\ launched' = [launched EXCEPT ![w] = born + 1] /\ MoveTo(w, "ready")
        /\ UNCHANGED <<entry, map, saved, setups, idle, exits, snap, request, history>>
    BY DEF LaunchVite, watching
  <1>2. born \in Nat /\ born' <= MaxProcesses
    BY <1>1, Limits DEF Basic, Numbered
  <1>3. Numbered' /\ Grows
    BY <1>1, <1>2, OneBorn DEF Basic
  <1>4. Kept /\ \A i \in Ids : EntryFine(i)' /\ WatchFine(i)'
    BY <1>1, <1>3, StillFine DEF Still
  <1>5. FileFine' /\ saved' \in Records /\ \A s \in Scopes : MapFine(s)'
    BY <1>1, <1>3, <1>4, FileStays, MapsStay DEF Basic, DevTyped
  <1>6. /\ launched' \in [Runner -> Nat] /\ launched'[w] = born + 1
        /\ \A v \in Runner : v # w => launched'[v] = launched[v]
    <2>1. launched \in [Runner -> Nat] /\ born + 1 \in Nat
      BY <1>2 DEF Basic, DevTyped
    <2>. QED BY <1>1, <2>1
  <1>7. LaunchFine(w, "ready")
    <2>1. born + 1 \in 1 .. born' /\ born + 1 \notin setups
      BY <1>1, <1>2 DEF Basic, Numbered
    <2>. QED BY <1>1, <1>6, <2>1 DEF LaunchFine
  <1>8. LaunchRequest(w, "ready")
    BY <1>1 DEF LaunchRequest
  <1>9. /\ entry' \in [Ids -> Entries] /\ map' \in [Scopes -> {0} \cup Ids] /\ idle' \in [Ids -> Idling]
        /\ exits' \in [Ids -> {"off", "wait", "write"}]
    BY <1>1 DEF Basic, DevTyped
  <1>. QED BY <1>1, <1>3, <1>4, <1>5, <1>6, <1>7, <1>8, <1>9, BooleansStay, LaunchBasic

LEMMA ReadyBasic ==
  ASSUME Basic, NEW w \in Runner, Ready(w) PROVE Basic'
  <1>1. /\ at[w] = "ready"
        /\ UNCHANGED <<entry, map, saved, log, born, setups, idle, exits, snap, request, history>>
    BY DEF Ready, watching
  <1>2. alive' \subseteq alive /\ launched \in [Runner -> Nat] /\ 0 \in Nat
    BY DEF Ready, Basic, DevTyped
  <1>3. Numbered' /\ Grows
    BY <1>1, <1>2, OnlyEnds DEF Basic
  <1>4. Kept /\ \A i \in Ids : EntryFine(i)' /\ WatchFine(i)'
    BY <1>1, <1>3, StillFine DEF Still
  <1>5. FileFine' /\ saved' \in Records /\ \A s \in Scopes : MapFine(s)'
    BY <1>1, <1>3, <1>4, FileStays, MapsStay DEF Basic, DevTyped
  <1>6. launched' \in [Runner -> Nat] /\ \A v \in Runner : v # w => launched'[v] = launched[v]
    BY <1>2 DEF Ready
  <1>7. PICK x \in {"publish", "failed"} : MoveTo(w, x) /\ (x = "publish" => launched' = launched)
    BY DEF Ready
  <1>8. LaunchFine(w, x)
    BY <1>1, <1>7 DEF LaunchFine, Basic, ThreadFine
  <1>9. LaunchRequest(w, x)
    BY <1>1 DEF LaunchRequest
  <1>10. /\ entry' \in [Ids -> Entries] /\ map' \in [Scopes -> {0} \cup Ids] /\ idle' \in [Ids -> Idling]
         /\ exits' \in [Ids -> {"off", "wait", "write"}]
    BY <1>1 DEF Basic, DevTyped
  <1>. QED BY <1>1, <1>3, <1>4, <1>5, <1>6, <1>7, <1>8, <1>9, <1>10, BooleansStay, LaunchBasic

LEMMA OneIsDone ==
  ASSUME Basic, request.entry # 0, request.op = "sync start",
         entry' = [entry EXCEPT ![request.entry].act = FALSE]
  PROVE  entry' \in [Ids -> Entries] /\ \A j \in Ids : AsIs(j) /\ entry'[j].old = entry[j].old
  <1>1. PICK i \in Ids : i = request.entry
    BY DEF Basic, DevTyped
  <1> DEFINE r == [entry[i] EXCEPT !.act = FALSE]
  <1>2. /\ r \in Entries /\ r.status = entry[i].status /\ r.pid = entry[i].pid /\ r.old = entry[i].old
        /\ r.scope = entry[i].scope /\ r.cancelled = entry[i].cancelled
    <2>1. entry[i] \in Entries
      BY DEF Basic, DevTyped
    <2>. QED BY <2>1 DEF Entries, Wide
  <1>3. entry' = [entry EXCEPT ![i] = r] /\ entry \in [Ids -> Entries]
    BY <1>1 DEF Basic, DevTyped
  <1> HIDE DEF r
  <1>4. entry' \in [Ids -> Entries] /\ entry'[i] = r /\ \A j \in Ids : j # i => entry'[j] = entry[j]
    BY <1>2, <1>3
  <1>. QED BY <1>2, <1>4 DEF AsIs

LEMMA AsIsKept ==
  ASSUME Basic, Grows, \A j \in Ids : AsIs(j)
  PROVE  Kept /\ \A j \in Ids : EntryFine(j)'
  BY EntriesStay DEF AsIs, Kept, KeptAt

LEMMA LaunchFailsBasic ==
  ASSUME Basic, NEW w \in Runner, LaunchFails(w) PROVE Basic'
  <1>1. /\ at[w] = "failed" /\ MoveTo(w, "off")
        /\ UNCHANGED <<log, born, alive, setups, idle, exits, snap, launched, stopped, restarted>>
    BY DEF LaunchFails, watching, processes
  <1>2. Numbered' /\ Grows
    BY <1>1, OnlyEnds DEF Basic
  <1>3. LaunchRequest(w, "off") /\ LaunchFine(w, "off")
    BY DEF LaunchFails, LaunchRequest, LaunchFine
  <1>4. excused' \in BOOLEAN /\ stopped' \in BOOLEAN /\ restarted' \in BOOLEAN
    BY <1>1 DEF LaunchFails, Overwrites, Basic, DevTyped
  <1>5. /\ idle' \in [Ids -> Idling] /\ exits' \in [Ids -> {"off", "wait", "write"}]
        /\ launched' \in [Runner -> Nat] /\ \A v \in Runner : v # w => launched'[v] = launched[v]
    BY <1>1 DEF Basic, DevTyped
  <1>6. CASE w = 0
    <2>1. entry' \in [Ids -> Entries] /\ \A j \in Ids : AsIs(j)
      <3>1. CASE entry' = entry
        <4>1. entry \in [Ids -> Entries]
          BY DEF Basic, DevTyped
        <4>. QED BY <3>1, <4>1, SameEntries
      <3>2. CASE request.op = "sync start" /\ entry' = [entry EXCEPT ![request.entry].act = FALSE]
        <4>1. request.entry # 0
          BY <3>2 DEF Basic, RequestFine
        <4>. QED BY <3>2, <4>1, OneIsDone
      <3>. QED BY <1>6, <3>1, <3>2 DEF LaunchFails
    <2>2. Kept /\ \A j \in Ids : EntryFine(j)'
      BY <1>2, <2>1, AsIsKept
    <2>3. \A j \in Ids : WatchFine(j)'
      BY <1>1, <1>2, <2>2, WatchesStay DEF Kept
    <2>4. FileFine' /\ saved' \in Records
      BY <1>2, <1>6, FileStays, NoFileTyped DEF LaunchFails, Basic, DevTyped
    <2>5. map' \in [Scopes -> {0} \cup Ids] /\ \A s \in Scopes : MapFine(s)'
      <3>1. map' \in [Scopes -> {0} \cup Ids] /\ \A s \in Scopes : map'[s] = map[s] \/ map'[s] = 0
        BY <1>6 DEF LaunchFails, Basic, DevTyped
      <3>. QED BY <2>2, <3>1, MapsStay
    <2>. QED BY <1>1, <1>2, <1>3, <1>4, <1>5, <2>1, <2>2, <2>3, <2>4, <2>5, LaunchBasic
  <1>7. CASE w # 0
    <2>1. w \in Ids
      BY <1>7 DEF Runner
    <2> DEFINE r == [entry[w] EXCEPT !.status = "failed"]
    <2>2. entry' = Aged([entry EXCEPT ![w] = r], w) /\ saved' = State(r) /\ map' = map
      BY <1>7 DEF LaunchFails
    <2>3. entry[w] \in Entries /\ EntryFine(w) /\ Used(w) /\ Setup(entry[w].pid)
          /\ entry[w].pid \notin alive'
      BY <1>1, <1>7, <2>1 DEF Basic, DevTyped, ThreadFine, Dead
    <2>4. /\ r \in Entries /\ r.pid = entry[w].pid /\ r.scope = entry[w].scope
          /\ r.status = "failed" /\ r.cancelled = entry[w].cancelled
      BY <2>3 DEF Entries, Wide, Statuses
    <2> HIDE DEF r
    <2>5. /\ entry' \in [Ids -> Entries] /\ entry'[w] = r /\ Kept
          /\ \A j \in Ids : j # w => AsIs(j) /\ EntryFine(j)'
      BY <1>2, <2>1, <2>2, <2>3, <2>4, OneChanges
    <2>6. EntryFine(w)'
      BY <1>2, <2>1, <2>3, <2>4, <2>5, ChangedFine DEF EntryFine, Dead, KindOf, Over
    <2>7. \A j \in Ids : EntryFine(j)' /\ WatchFine(j)'
      BY <1>1, <1>2, <2>5, <2>6, WatchesStay DEF Kept
    <2>8. FileFine' /\ saved' \in Records
      BY <1>2, <2>2, <2>3, <2>4, StateFine DEF KindOf, EntryFine, Over
    <2>9. map' \in [Scopes -> {0} \cup Ids] /\ \A s \in Scopes : MapFine(s)'
      BY <2>2, <2>5, MapsStay DEF Basic, DevTyped
    <2>. QED BY <1>1, <1>2, <1>3, <1>4, <1>5, <2>5, <2>7, <2>8, <2>9, LaunchBasic
  <1>. QED BY <1>6, <1>7

LEMMA PublishBasic ==
  ASSUME Basic, NEW w \in Runner, PublishEntry(w) PROVE Basic'
  <1>1. PICK i \in Ids : i = Fresh /\ entry[i].status = "free" /\ i # 0
    BY FreshFree DEF PublishEntry, Basic
  <1>2. PICK s \in Scopes : s = Scp(w)
    <2>1. CASE w = 0
      BY <2>1 DEF PublishEntry, Scp, Basic, RequestFine
    <2>2. CASE w # 0
      BY <2>2 DEF PublishEntry, Scp, Basic, ThreadFine, EntryFine, Runner, Over
    <2>. QED BY <2>1, <2>2
  <1> DEFINE r == [Free EXCEPT !.status = "running", !.pid = launched[w], !.own = TRUE, !.scope = s,
                               !.watched = TRUE]
  <1>3. /\ at[w] = "publish" /\ MoveTo(w, "record")
        /\ entry' = [entry EXCEPT ![i] = r] /\ map' = [map EXCEPT ![s] = i]
        /\ launched' = [launched EXCEPT ![w] = i]
        /\ UNCHANGED <<saved, log, born, alive, setups, idle, exits, snap, request, history>>
    BY <1>1, <1>2 DEF PublishEntry, processes, watching
  <1>4. /\ launched[w] \in 1 .. born /\ launched[w] \notin setups /\ born \in Nat
        /\ launched[w] \in Nat /\ launched[w] # 0
    BY <1>3 DEF Basic, ThreadFine, Numbered
  <1>5. /\ r \in Entries /\ r.pid = launched[w] /\ r.scope = s /\ r.status = "running" /\ ~r.cancelled
    BY <1>4 DEF Free, Entries, Wide, Statuses, Reasons
  <1> HIDE DEF r
  <1>6. Numbered' /\ Grows
    BY <1>3, OnlyEnds DEF Basic
  <1>7. /\ entry' \in [Ids -> Entries] /\ entry'[i] = r /\ Kept
        /\ \A j \in Ids : j # i => AsIs(j) /\ EntryFine(j)'
    BY <1>1, <1>3, <1>5, <1>6, OneChanges DEF Used
  <1>8. KindOf("running", launched[w]) /\ launched[w] <= born
    BY <1>4 DEF KindOf, Setup
  <1>9. EntryFine(i)'
    BY <1>5, <1>6, <1>7, <1>8, ChangedFine DEF Over
  <1>10. \A j \in Ids : EntryFine(j)' /\ WatchFine(j)'
    BY <1>3, <1>6, <1>7, <1>9, WatchesStay DEF Kept
  <1>11. FileFine' /\ saved' \in Records
    BY <1>3, <1>6, FileStays DEF Basic, DevTyped
  <1>12. map' \in [Scopes -> {0} \cup Ids] /\ map'[s] = i /\ \A t \in Scopes : t # s => map'[t] = map[t]
    BY <1>3 DEF Basic, DevTyped
  <1>13. \A t \in Scopes : MapFine(t)'
    <2>1. \A t \in Scopes : t # s => MapFine(t)'
      BY <1>7, <1>12, MapsStay
    <2>. QED BY <1>5, <1>7, <1>12, <2>1 DEF MapFine, Used
  <1>14. /\ launched' \in [Runner -> Nat] /\ launched'[w] = i
         /\ \A v \in Runner : v # w => launched'[v] = launched[v]
    <2>1. i \in Nat
      BY Limits DEF Ids
    <2>. QED BY <1>3, <2>1 DEF Basic, DevTyped
  <1>15. LaunchFine(w, "record")
    BY <1>3, <1>4, <1>5, <1>7, <1>14 DEF LaunchFine, Used, Setup
  <1>16. LaunchRequest(w, "record")
    BY <1>3 DEF LaunchRequest
  <1>17. idle' \in [Ids -> Idling] /\ exits' \in [Ids -> {"off", "wait", "write"}]
    BY <1>3 DEF Basic, DevTyped
  <1>. QED BY <1>3, <1>6, <1>7, <1>10, <1>11, <1>12, <1>13, <1>14, <1>15, <1>16, <1>17, BooleansStay,
              LaunchBasic

LEMMA RecordBasic ==
  ASSUME Basic, NEW w \in Runner, Record(w) PROVE Basic'
  <1>1. PICK i \in Ids : i = launched[w] /\ Used(i) /\ ~Setup(entry[i].pid)
    BY DEF Record, Basic, ThreadFine
  <1>2. /\ at[w] = "record" /\ MoveTo(w, "off")
        /\ saved' = State(entry[i]) /\ entry' = Aged(entry, i)
        /\ exits' = [exits EXCEPT ![i] = "wait"] /\ idle' = [idle EXCEPT ![i] = "top"]
        /\ launched' = [launched EXCEPT ![w] = 0]
        /\ UNCHANGED <<map, log, born, alive, setups, snap, history>>
    BY <1>1 DEF Record, processes
  <1>3. entry[i] \in Entries /\ EntryFine(i) /\ WatchFine(i)
    BY DEF Basic, DevTyped
  <1>4. Numbered' /\ Grows
    BY <1>2, OnlyEnds DEF Basic
  <1>5. entry' \in [Ids -> Entries] /\ Kept /\ \A j \in Ids : AsIs(j) /\ EntryFine(j)'
    BY <1>2, <1>4, OnlyAges
  <1>6. FileFine' /\ saved' \in Records
    BY <1>1, <1>2, <1>3, <1>4, StateFine DEF EntryFine, Used, Over, Terminal, Dead
  <1>7. idle' \in [Ids -> Idling] /\ exits' \in [Ids -> {"off", "wait", "write"}]
    BY <1>2 DEF Basic, DevTyped, Idling
  <1>8. /\ idle'[i] = "top" /\ exits'[i] = "wait"
        /\ \A j \in Ids : j # i => idle'[j] = idle[j] /\ exits'[j] = exits[j]
    BY <1>2 DEF Basic, DevTyped
  <1>9. WatchFine(i)'
    BY <1>1, <1>2, <1>5, <1>8 DEF WatchFine, AsIs, Used, Setup, Over
  <1>10. \A j \in Ids : WatchFine(j)'
    BY <1>2, <1>4, <1>5, <1>8, <1>9, WatchesStay DEF Kept
  <1>11. map' \in [Scopes -> {0} \cup Ids] /\ \A s \in Scopes : MapFine(s)'
    BY <1>2, <1>5, MapsStay DEF Basic, DevTyped
  <1>12. launched' \in [Runner -> Nat] /\ \A v \in Runner : v # w => launched'[v] = launched[v]
    BY <1>2 DEF Basic, DevTyped
  <1>13. LaunchRequest(w, "off") /\ LaunchFine(w, "off")
    BY DEF Record, LaunchRequest, LaunchFine
  <1>. QED BY <1>2, <1>4, <1>5, <1>6, <1>7, <1>10, <1>11, <1>12, <1>13, BooleansStay, LaunchBasic

LEMMA ActivateBasic ==
  ASSUME Basic, NEW i \in Ids, Activate(i) PROVE Basic'
  <1>1. i \in Runner /\ i # 0
    BY Limits DEF Runner
  <1>2. entry[i] \in Entries /\ EntryFine(i) /\ Used(i)
    BY <1>1 DEF Basic, DevTyped, ThreadFine, Activate
  <1> DEFINE e == Prepared(entry[i])
             go == ~e.cancelled /\ e.status = "prepared" /\ ~e.act /\ map[e.scope] = i
  <1>3. /\ at[i] = "prepare" /\ entry' = [entry EXCEPT ![i] = [e EXCEPT !.act = @ \/ go]]
        /\ MoveTo(i, IF go THEN "launch" ELSE "off")
        /\ UNCHANGED <<map, saved, log, born, alive, setups, idle, exits, snap, request, launched,
                       stopped, restarted>>
    BY DEF Activate, processes, watching
  <1>4. /\ e \in Wide /\ e.pid = entry[i].pid /\ e.scope = entry[i].scope /\ e.cancelled = entry[i].cancelled
        /\ \/ e.status = entry[i].status
           \/ /\ entry[i].status = "starting" /\ entry[i].pid \notin alive
              /\ e.status \in {"prepared", "stopped", "failed"}
    BY <1>2, Fields, PreparedTyped
  <1>5. e \in Entries /\ e.status # "free" /\ (go => e.status = "prepared")
    BY <1>2, <1>4 DEF Entries, Used
  <1>6. PICK k \in BOOLEAN : entry' = [entry EXCEPT ![i] = [e EXCEPT !.act = k]]
    <2>1. (e.act \/ go) \in BOOLEAN
      OBVIOUS
    <2>. QED BY <1>3, <2>1
  <1>7. PICK x \in {"launch", "off"} : MoveTo(i, x)
    BY <1>3
  <1>8. excused' \in BOOLEAN /\ stopped' \in BOOLEAN /\ restarted' \in BOOLEAN
    BY <1>3 DEF Activate, Basic, DevTyped
  <1> HIDE DEF e
  <1> DEFINE r == [e EXCEPT !.act = k]
  <1>9. /\ r \in Entries /\ r.status = e.status /\ r.pid = e.pid /\ r.scope = e.scope
        /\ r.cancelled = e.cancelled
    BY <1>5 DEF Entries, Wide
  <1>10. entry' = [entry EXCEPT ![i] = r]
    BY <1>6
  <1> HIDE DEF r
  <1>11. Numbered' /\ Grows
    BY <1>3, OnlyEnds DEF Basic
  <1>12. /\ entry' \in [Ids -> Entries] /\ entry'[i] = r /\ Kept
         /\ \A j \in Ids : j # i => AsIs(j) /\ EntryFine(j)'
    <2>1. r.status # "free" /\ r.pid = entry[i].pid /\ r.scope = entry[i].scope
      BY <1>4, <1>5, <1>9
    <2>. QED BY <1>9, <1>10, <1>11, <2>1, OneChanges
  <1>13. EntryFine(i)'
    BY <1>2, <1>3, <1>4, <1>9, <1>11, <1>12, ChangedFine DEF EntryFine, Used, Over, Terminal, KindOf, Dead
  <1>14. \A j \in Ids : EntryFine(j)' /\ WatchFine(j)'
    BY <1>3, <1>11, <1>12, <1>13, WatchesStay DEF Kept
  <1>15. FileFine' /\ saved' \in Records
    BY <1>3, <1>11, FileStays DEF Basic, DevTyped
  <1>16. map' \in [Scopes -> {0} \cup Ids] /\ \A s \in Scopes : MapFine(s)'
    BY <1>3, <1>12, MapsStay DEF Basic, DevTyped
  <1>17. /\ launched' \in [Runner -> Nat] /\ \A v \in Runner : v # i => launched'[v] = launched[v]
         /\ idle' \in [Ids -> Idling] /\ exits' \in [Ids -> {"off", "wait", "write"}]
    BY <1>3 DEF Basic, DevTyped
  <1>18. LaunchFine(i, x) /\ LaunchRequest(i, x)
    <2>1. x = "launch" => go
      BY <1>1, <1>3, <1>7, Moved DEF Basic, Places
    <2>2. go => entry'[i].pid \notin alive'
      BY <1>2, <1>3, <1>4, <1>5, <1>9, <1>12 DEF EntryFine, Over, Dead
    <2>. QED BY <1>1, <1>3, <1>7, <2>1, <2>2 DEF LaunchFine, LaunchRequest
  <1>. QED BY <1>1, <1>3, <1>7, <1>8, <1>11, <1>12, <1>14, <1>15, <1>16, <1>17, <1>18, LaunchBasic

(* A watcher does one step.                                                *)
LEMMA WatcherBasic ==
  ASSUME Basic, Numbered', Grows, Kept, UNCHANGED <<at, launched, request, stopped, restarted>>,
         entry' \in [Ids -> Entries], \A j \in Ids : EntryFine(j)',
         idle' \in [Ids -> Idling], exits' \in [Ids -> {"off", "wait", "write"}],
         snap' \in [Ids -> [idle : Records, exit : Records]], \A j \in Ids : WatchFine(j)',
         map' \in [Scopes -> {0} \cup Ids], \A s \in Scopes : map'[s] \in {0, map[s]},
         saved' \in Records, FileFine', excused' \in BOOLEAN
  PROVE  Basic'
  <1>1. \A w \in Runner : ThreadFine(w)'
    BY ThreadsStay
  <1>2. RequestFine'
    BY RequestStays
  <1>3. \A s \in Scopes : MapFine(s)'
    BY MapsStay
  <1>4. DevTyped'
    BY DEF Basic, DevTyped
  <1>. QED BY <1>1, <1>2, <1>3, <1>4 DEF Basic

LEMMA SnapExit ==
  ASSUME Basic, NEW i \in Ids, NEW f \in Records, snap' = [snap EXCEPT ![i].exit = f]
  PROVE  /\ snap' \in [Ids -> [idle : Records, exit : Records]] /\ snap'[i].exit = f
         /\ snap'[i].idle = snap[i].idle /\ \A j \in Ids : j # i => snap'[j] = snap[j]
  <1>1. snap \in [Ids -> [idle : Records, exit : Records]]
    BY DEF Basic, DevTyped
  <1>. QED BY <1>1

LEMMA SnapIdle ==
  ASSUME Basic, NEW i \in Ids, NEW f \in Records, snap' = [snap EXCEPT ![i].idle = f]
  PROVE  /\ snap' \in [Ids -> [idle : Records, exit : Records]] /\ snap'[i].idle = f
         /\ snap'[i].exit = snap[i].exit /\ \A j \in Ids : j # i => snap'[j] = snap[j]
  <1>1. snap \in [Ids -> [idle : Records, exit : Records]]
    BY DEF Basic, DevTyped
  <1>. QED BY <1>1

(* The watchers of the other entries.                                      *)
LEMMA OthersWatch ==
  ASSUME Basic, Grows, Kept, NEW i \in Ids,
         \A j \in Ids : j # i => idle'[j] = idle[j] /\ exits'[j] = exits[j] /\ snap'[j] = snap[j]
  PROVE  \A j \in Ids : j # i => WatchFine(j)'
  BY WatchesStay DEF Kept

(* What is known of the entry of a watcher at work.                        *)
LEMMA WatcherIs ==
  ASSUME Basic, NEW i \in Ids, idle[i] # "off" \/ exits[i] # "off"
  PROVE  /\ Used(i) /\ ~Setup(entry[i].pid) /\ EntryFine(i) /\ WatchFine(i)
         /\ entry[i] \in Entries /\ entry[i].scope \in Scopes /\ entry[i].pid \in Nat
         /\ entry[i].pid <= born /\ snap[i].idle \in Records /\ snap[i].exit \in Records
         /\ entry[i].cancelled \in BOOLEAN /\ entry[i].reason \in Reasons
  <1>1. Used(i) /\ ~Setup(entry[i].pid) /\ EntryFine(i) /\ WatchFine(i)
    BY DEF Basic, WatchFine, Over
  <1>2. entry[i] \in Entries /\ snap[i].idle \in Records /\ snap[i].exit \in Records
    BY DEF Basic, DevTyped
  <1>. QED BY <1>1, <1>2, Fields DEF EntryFine, Over

LEMMA ExitReadsBasic ==
  ASSUME Basic, NEW i \in Ids, ExitReads(i) PROVE Basic'
  <1>1. /\ exits[i] = "wait" /\ entry[i].pid \notin alive
        /\ UNCHANGED <<entry, saved, log, born, alive, setups, at, idle, request, launched, history>>
    BY DEF ExitReads, processes
  <1>2. WatchFine(i) /\ Used(i) /\ ~Setup(entry[i].pid) /\ saved \in Records
    BY <1>1, WatcherIs DEF Basic, DevTyped
  <1>3. Numbered' /\ Grows
    BY <1>1, OnlyEnds DEF Basic
  <1>4. Kept /\ \A j \in Ids : EntryFine(j)'
    BY <1>1, <1>3, SameEntries, AsIsKept
  <1>5. /\ snap' \in [Ids -> [idle : Records, exit : Records]] /\ snap'[i].exit = saved
        /\ snap'[i].idle = snap[i].idle /\ \A j \in Ids : j # i => snap'[j] = snap[j]
    BY <1>2, SnapExit DEF ExitReads
  <1>6. /\ exits' \in [Ids -> {"off", "wait", "write"}] /\ \A j \in Ids : j # i => exits'[j] = exits[j]
        /\ exits'[i] \in {"off", "write"} /\ (exits'[i] = "write" => saved.pid = entry[i].pid)
    BY DEF ExitReads, Basic, DevTyped
  <1>7. WatchFine(i)'
    BY <1>1, <1>2, <1>5, <1>6 DEF WatchFine, Used, Setup, Dead, Over
  <1>8. \A j \in Ids : WatchFine(j)'
    BY <1>1, <1>3, <1>4, <1>5, <1>6, <1>7, OthersWatch
  <1>9. map' \in [Scopes -> {0} \cup Ids] /\ \A s \in Scopes : map'[s] \in {0, map[s]}
    BY DEF ExitReads, Basic, DevTyped
  <1>10. FileFine' /\ saved' \in Records
    BY <1>1, <1>3, FileStays DEF Basic, DevTyped
  <1>11. entry' \in [Ids -> Entries] /\ idle' \in [Ids -> Idling] /\ excused' \in BOOLEAN
         /\ UNCHANGED <<stopped, restarted>>
    BY <1>1 DEF Basic, DevTyped, history
  <1>. QED BY <1>1, <1>3, <1>4, <1>5, <1>6, <1>8, <1>9, <1>10, <1>11, WatcherBasic

(* A final state is written of a process that is dead.                     *)
LEMMA FinalFine ==
  ASSUME Basic, Grows, alive' = alive, born' = born, NEW f \in Records, NEW c \in BOOLEAN, NEW r \in Reasons,
         f.pid \notin alive, f.pid <= born, saved' = Final(f, c, r)
  PROVE  FileFine' /\ saved' \in Records
  <1>1. saved' \in Records /\ saved'.pid = f.pid /\ saved'.status \in {"stopped", "exited"}
    BY FinalTyped
  <1>. QED BY <1>1 DEF FileFine, KindOf, Dead, Over

LEMMA ExitWritesBasic ==
  ASSUME Basic, NEW i \in Ids, ExitWrites(i) PROVE Basic'
  <1>1. /\ exits[i] = "write" /\ saved' = Final(snap[i].exit, entry[i].cancelled, entry[i].reason)
        /\ entry' = Aged(entry, 0) /\ exits' = [exits EXCEPT ![i] = "off"]
        /\ snap' = [snap EXCEPT ![i].exit = NoFile]
        /\ UNCHANGED <<map, log, born, alive, setups, at, idle, request, launched, stopped, restarted>>
    BY DEF ExitWrites, processes
  <1>2. /\ WatchFine(i) /\ Used(i) /\ ~Setup(entry[i].pid) /\ snap[i].exit \in Records
        /\ entry[i].cancelled \in BOOLEAN /\ entry[i].reason \in Reasons /\ entry[i].pid <= born
    BY <1>1, WatcherIs
  <1>3. Numbered' /\ Grows
    BY <1>1, OnlyEnds DEF Basic
  <1>4. entry' \in [Ids -> Entries] /\ Kept /\ \A j \in Ids : AsIs(j) /\ EntryFine(j)'
    BY <1>1, <1>3, OnlyAges
  <1>5. /\ snap' \in [Ids -> [idle : Records, exit : Records]]
        /\ snap'[i].idle = snap[i].idle /\ \A j \in Ids : j # i => snap'[j] = snap[j]
    BY <1>1, NoFileTyped, SnapExit
  <1>6. /\ exits' \in [Ids -> {"off", "wait", "write"}] /\ \A j \in Ids : j # i => exits'[j] = exits[j]
        /\ exits'[i] = "off"
    BY <1>1 DEF Basic, DevTyped
  <1>7. WatchFine(i)'
    BY <1>1, <1>2, <1>4, <1>5, <1>6 DEF WatchFine, Used, Setup, Dead, AsIs, Over
  <1>8. \A j \in Ids : WatchFine(j)'
    BY <1>1, <1>3, <1>4, <1>5, <1>6, <1>7, OthersWatch
  <1>9. FileFine' /\ saved' \in Records
    BY <1>1, <1>2, <1>3, FinalFine DEF WatchFine, Dead, Over
  <1>10. map' \in [Scopes -> {0} \cup Ids] /\ \A s \in Scopes : map'[s] \in {0, map[s]}
    BY <1>1 DEF Basic, DevTyped
  <1>11. idle' \in [Ids -> Idling] /\ excused' \in BOOLEAN
    BY <1>1 DEF Basic, DevTyped, ExitWrites, Overwrites
  <1>. QED BY <1>1, <1>3, <1>4, <1>5, <1>6, <1>8, <1>9, <1>10, <1>11, WatcherBasic

(* The idle watcher does one step.                                         *)
LEMMA IdleBasic ==
  ASSUME Basic, NEW i \in Ids, idle[i] # "off", Numbered', Grows, Kept,
         UNCHANGED <<at, exits, launched, request, stopped, restarted>>,
         entry' \in [Ids -> Entries], \A j \in Ids : EntryFine(j)',
         NEW x \in Idling, idle' = [idle EXCEPT ![i] = x],
         NEW f \in Records, snap' = [snap EXCEPT ![i].idle = f],
         x \in {"gone", "write", "final"} => entry[i].pid \notin alive,
         x = "write" => f.pid = entry[i].pid,
         map' \in [Scopes -> {0} \cup Ids], \A s \in Scopes : map'[s] \in {0, map[s]},
         saved' \in Records, FileFine', excused' \in BOOLEAN
  PROVE  Basic'
  <1>1. /\ WatchFine(i) /\ Used(i) /\ ~Setup(entry[i].pid) /\ entry[i].pid \in Nat
        /\ entry[i].pid <= born /\ born \in Nat
    BY WatcherIs, Pids
  <1>2. /\ snap' \in [Ids -> [idle : Records, exit : Records]] /\ snap'[i].idle = f
        /\ snap'[i].exit = snap[i].exit /\ \A j \in Ids : j # i => snap'[j] = snap[j]
    BY SnapIdle
  <1>3. idle' \in [Ids -> Idling] /\ idle'[i] = x /\ \A j \in Ids : j # i => idle'[j] = idle[j]
    BY DEF Basic, DevTyped
  <1>4. (Used(i) /\ ~Setup(entry[i].pid))' /\ entry'[i].pid = entry[i].pid
        /\ (entry[i].pid \notin alive => entry[i].pid \notin alive')
    BY <1>1 DEF Kept, KeptAt, Grows, Used, Setup
  <1>5. WatchFine(i)'
    BY <1>1, <1>2, <1>3, <1>4 DEF WatchFine, Dead, Over
  <1>6. \A j \in Ids : WatchFine(j)'
    BY <1>2, <1>3, <1>5, OthersWatch
  <1>7. exits' \in [Ids -> {"off", "wait", "write"}]
    BY DEF Basic, DevTyped
  <1>. QED BY <1>2, <1>3, <1>6, <1>7, WatcherBasic

LEMMA SnapSame ==
  ASSUME DevTyped, NEW i \in Ids
  PROVE  snap = [snap EXCEPT ![i].idle = snap[i].idle] /\ snap[i].idle \in Records
  <1>1. snap \in [Ids -> [idle : Records, exit : Records]]
    BY DEF DevTyped
  <1>. QED BY <1>1

(* A step of the watcher that writes nothing.                              *)
LEMMA IdleMoves ==
  ASSUME Basic, NEW i \in Ids, idle[i] # "off", NEW x \in Idling, idle' = [idle EXCEPT ![i] = x],
         UNCHANGED <<entry, saved, processes, at, exits, request, launched, history>>,
         NEW f \in Records, snap' = [snap EXCEPT ![i].idle = f],
         x \in {"gone", "write", "final"} => entry[i].pid \notin alive,
         x = "write" => f.pid = entry[i].pid,
         map' \in [Scopes -> {0} \cup Ids], \A s \in Scopes : map'[s] \in {0, map[s]}
  PROVE  Basic'
  <1>1. UNCHANGED <<log, born, alive, setups, excused, stopped, restarted>>
    BY DEF processes, history
  <1>2. Numbered' /\ Grows
    BY <1>1, OnlyEnds DEF Basic
  <1>3. Kept /\ \A j \in Ids : EntryFine(j)'
    BY <1>2, SameEntries, AsIsKept
  <1>4. FileFine' /\ saved' \in Records /\ entry' \in [Ids -> Entries] /\ excused' \in BOOLEAN
    BY <1>1, <1>2, FileStays DEF Basic, DevTyped
  <1>. QED BY <1>1, <1>2, <1>3, <1>4, IdleBasic

LEMMA IdleTopBasic ==
  ASSUME Basic, NEW i \in Ids, IdleTop(i) PROVE Basic'
  <1>1. PICK x \in {"off", "check", "check other"} : idle' = [idle EXCEPT ![i] = x]
    BY DEF IdleTop
  <1>2. /\ idle[i] # "off"
        /\ UNCHANGED <<entry, map, saved, processes, at, exits, snap, request, launched, history>>
    BY DEF IdleTop
  <1>3. snap' = [snap EXCEPT ![i].idle = snap[i].idle] /\ snap[i].idle \in Records
    BY <1>2, SnapSame DEF Basic
  <1>4. map' \in [Scopes -> {0} \cup Ids] /\ \A s \in Scopes : map'[s] \in {0, map[s]}
    BY <1>2 DEF Basic, DevTyped
  <1>. QED BY <1>1, <1>2, <1>3, <1>4, IdleMoves DEF Idling

LEMMA IdleChecksBasic ==
  ASSUME Basic, NEW i \in Ids, IdleChecks(i) PROVE Basic'
  <1>1. PICK x \in {"poll", "gone", "off"} : /\ idle' = [idle EXCEPT ![i] = x]
                                             /\ x = "gone" => ~Alive(entry[i])
    BY DEF IdleChecks
  <1>2. /\ idle[i] # "off"
        /\ UNCHANGED <<entry, map, saved, processes, at, exits, snap, request, launched, history>>
    BY DEF IdleChecks
  <1>3. x = "gone" => entry[i].pid \notin alive
    BY <1>1 DEF Alive, Terminal, Basic, EntryFine, Dead, Over
  <1>4. snap' = [snap EXCEPT ![i].idle = snap[i].idle] /\ snap[i].idle \in Records
    BY <1>2, SnapSame DEF Basic
  <1>5. map' \in [Scopes -> {0} \cup Ids] /\ \A s \in Scopes : map'[s] \in {0, map[s]}
    BY <1>2 DEF Basic, DevTyped
  <1>. QED BY <1>1, <1>2, <1>3, <1>4, <1>5, IdleMoves DEF Idling

LEMMA IdleGoneBasic ==
  ASSUME Basic, NEW i \in Ids, IdleGone(i) PROVE Basic'
  <1>1. idle[i] = "gone" /\ UNCHANGED <<entry, saved, processes, at, exits, request, launched, history>>
        /\ map' = [map EXCEPT ![entry[i].scope] = 0]
    BY DEF IdleGone
  <1>2. WatchFine(i) /\ saved \in Records
    BY DEF Basic, DevTyped
  <1>3. PICK x \in {"write", "off"}, f \in {saved, NoFile} :
          /\ idle' = [idle EXCEPT ![i] = x] /\ snap' = [snap EXCEPT ![i].idle = f]
          /\ x = "write" => f.pid = entry[i].pid
    BY DEF IdleGone
  <1>4. map' \in [Scopes -> {0} \cup Ids] /\ \A s \in Scopes : map'[s] \in {0, map[s]}
    BY <1>1 DEF Basic, DevTyped
  <1>5. x \in Idling /\ f \in Records
    BY <1>2, <1>3, NoFileTyped DEF Idling
  <1>. QED BY <1>1, <1>2, <1>3, <1>4, <1>5, IdleMoves DEF WatchFine, Dead, Over

LEMMA IdleWritesBasic ==
  ASSUME Basic, NEW i \in Ids, IdleWrites(i) PROVE Basic'
  <1> DEFINE st == IF snap[i].idle.status = "stopping" THEN snap[i].idle.status ELSE "running"
             f == [snap[i].idle EXCEPT !.status = st]
  <1>1. /\ idle[i] = "write" /\ entry' = Aged(entry, 0)
        /\ idle' = [idle EXCEPT ![i] = "off"] /\ snap' = [snap EXCEPT ![i].idle = NoFile]
        /\ UNCHANGED <<map, log, born, alive, setups, at, exits, request, launched, stopped, restarted>>
    BY DEF IdleWrites, processes
  <1>2. /\ WatchFine(i) /\ snap[i].idle \in Records /\ entry[i].pid <= born
    BY <1>1, WatcherIs
  <1>3. saved' = Final(f, FALSE, "none")
    <2>1. f = [snap[i].idle EXCEPT !.status = IF @ = "stopping" THEN @ ELSE "running"]
      BY <1>2 DEF Records
    <2>. QED BY <2>1 DEF IdleWrites
  <1>4. st \in Statuses
    BY DEF Statuses
  <1> HIDE DEF st
  <1>5. f \in Records /\ f.pid = snap[i].idle.pid
    BY <1>2, <1>4 DEF Records
  <1> HIDE DEF f
  <1>6. Numbered' /\ Grows
    BY <1>1, OnlyEnds DEF Basic
  <1>7. entry' \in [Ids -> Entries] /\ Kept /\ \A j \in Ids : AsIs(j) /\ EntryFine(j)'
    BY <1>1, <1>6, OnlyAges
  <1>8. FileFine' /\ saved' \in Records
    <2>1. f.pid \notin alive /\ f.pid <= born
      BY <1>1, <1>2, <1>5 DEF WatchFine, Dead, Over
    <2>2. FALSE \in BOOLEAN /\ "none" \in Reasons
      BY DEF Reasons
    <2>. QED BY <1>1, <1>3, <1>5, <1>6, <2>1, <2>2, FinalFine
  <1>9. map' \in [Scopes -> {0} \cup Ids] /\ \A s \in Scopes : map'[s] \in {0, map[s]}
    BY <1>1 DEF Basic, DevTyped
  <1>10. excused' \in BOOLEAN /\ "off" \in Idling
    BY DEF IdleWrites, Overwrites, Basic, DevTyped, Idling
  <1>. QED BY <1>1, <1>6, <1>7, <1>8, <1>9, <1>10, NoFileTyped, IdleBasic

LEMMA IdlePollsBasic ==
  ASSUME Basic, NEW i \in Ids, IdlePolls(i) PROVE Basic'
  <1>1. /\ idle[i] = "poll"
        /\ UNCHANGED <<map, log, born, alive, setups, at, exits, snap, request, launched, stopped, restarted>>
    BY DEF IdlePolls, processes
  <1>2. /\ Used(i) /\ ~Setup(entry[i].pid) /\ EntryFine(i) /\ entry[i] \in Entries
        /\ entry[i].scope \in Scopes
    BY <1>1, WatcherIs
  <1> DEFINE r == [entry[i] EXCEPT !.status = "stopping", !.reason = "idle", !.old = FALSE]
  <1>3. /\ r \in Entries /\ r.pid = entry[i].pid /\ r.scope = entry[i].scope
        /\ r.status = "stopping" /\ r.cancelled = entry[i].cancelled
    BY <1>2 DEF Entries, Wide, Statuses, Reasons
  <1>4. \/ entry' = Aged([entry EXCEPT ![i] = r], i) /\ saved' = State(r)
        \/ entry' = Aged(entry, i) /\ saved' = State(entry[i])
        \/ UNCHANGED <<entry, saved>>
    BY DEF IdlePolls
  <1>5. PICK x \in {"top", "stop"} : idle' = [idle EXCEPT ![i] = x]
    BY DEF IdlePolls
  <1> HIDE DEF r
  <1>6. Numbered' /\ Grows
    BY <1>1, OnlyEnds DEF Basic
  <1>7. entry' \in [Ids -> Entries] /\ Kept /\ \A j \in Ids : EntryFine(j)'
    <2>1. CASE entry' = Aged([entry EXCEPT ![i] = r], i)
      <3>1. /\ entry' \in [Ids -> Entries] /\ entry'[i] = r /\ Kept
            /\ \A j \in Ids : j # i => AsIs(j) /\ EntryFine(j)'
        BY <1>3, <1>6, <2>1, OneChanges
      <3>2. EntryFine(i)'
        BY <1>1, <1>2, <1>3, <1>6, <3>1, ChangedFine DEF EntryFine, KindOf, Dead, Over
      <3>. QED BY <3>1, <3>2
    <2>2. CASE entry' = Aged(entry, i) \/ entry' = entry
      BY <1>6, <2>2, OnlyAges
    <2>. QED BY <1>4, <2>1, <2>2
  <1>8. FileFine' /\ saved' \in Records
    <2>1. CASE saved' = State(r)
      BY <1>2, <1>3, <1>6, <2>1, StateFine DEF EntryFine, KindOf, Over
    <2>2. CASE saved' = State(entry[i])
      BY <1>1, <1>2, <1>6, <2>2, StateFine DEF EntryFine, Used, Over, Terminal, Dead
    <2>3. CASE saved' = saved
      BY <1>6, <2>3, FileStays DEF Basic, DevTyped
    <2>. QED BY <1>4, <2>1, <2>2, <2>3
  <1>9. snap' = [snap EXCEPT ![i].idle = snap[i].idle] /\ snap[i].idle \in Records
    BY <1>1, SnapSame DEF Basic
  <1>10. map' \in [Scopes -> {0} \cup Ids] /\ \A s \in Scopes : map'[s] \in {0, map[s]}
    BY <1>1 DEF Basic, DevTyped
  <1>11. excused' \in BOOLEAN
    BY DEF IdlePolls, Overwrites, Basic, DevTyped
  <1>12. x \in Idling /\ x \notin {"gone", "write", "final"}
    BY DEF Idling
  <1>. QED BY <1>1, <1>5, <1>6, <1>7, <1>8, <1>9, <1>10, <1>11, <1>12, IdleBasic

LEMMA IdleStopsBasic ==
  ASSUME Basic, NEW i \in Ids, IdleStops(i) PROVE Basic'
  <1>1. /\ idle[i] = "stop" /\ alive' = alive \ {entry[i].pid} /\ idle' = [idle EXCEPT ![i] = "final"]
        /\ entry' = [entry EXCEPT ![i] = Destroyed(entry[i], "idle")]
        /\ UNCHANGED <<saved, log, born, setups, at, exits, snap, request, launched, history>>
    BY DEF IdleStops, Basic, DevTyped
  <1>2. /\ Used(i) /\ ~Setup(entry[i].pid) /\ EntryFine(i) /\ entry[i] \in Entries
        /\ entry[i].scope \in Scopes /\ entry[i].pid \in Nat /\ entry[i].pid <= born
    BY <1>1, WatcherIs
  <1> DEFINE r == Destroyed(entry[i], "idle")
  <1>3. /\ r \in Entries /\ r.pid = entry[i].pid /\ r.scope = entry[i].scope
        /\ r.status = entry[i].status
    BY <1>2, DestroyedTyped DEF Reasons
  <1>4. entry' = [entry EXCEPT ![i] = r]
    BY <1>1
  <1> HIDE DEF r
  <1>5. Numbered' /\ Grows
    BY <1>1, OnlyEnds DEF Basic
  <1>6. /\ entry' \in [Ids -> Entries] /\ entry'[i] = r /\ Kept
        /\ \A j \in Ids : j # i => AsIs(j) /\ EntryFine(j)'
    BY <1>2, <1>3, <1>4, <1>5, OneChanges DEF Used
  <1>7. EntryFine(i)'
    BY <1>1, <1>2, <1>3, <1>5, <1>6, ChangedFine DEF EntryFine, Over
  <1>8. /\ exits' \in [Ids -> {"off", "wait", "write"}] /\ idle' \in [Ids -> Idling]
        /\ idle'[i] = "final" /\ snap' \in [Ids -> [idle : Records, exit : Records]]
        /\ \A j \in Ids : j # i => idle'[j] = idle[j] /\ exits'[j] = exits[j] /\ snap'[j] = snap[j]
    BY <1>1 DEF Basic, DevTyped, Idling
  <1>9. WatchFine(i)'
    <2>1. WatchFine(i)
      BY DEF Basic
    <2>2. (Used(i) /\ ~Setup(entry[i].pid))' /\ entry'[i].pid = entry[i].pid /\ entry[i].pid \notin alive'
      BY <1>1, <1>2, <1>3, <1>6 DEF Used, Setup
    <2>. QED BY <1>1, <1>8, <2>1, <2>2 DEF WatchFine, Dead, Over
  <1>10. \A j \in Ids : EntryFine(j)' /\ WatchFine(j)'
    BY <1>5, <1>6, <1>7, <1>8, <1>9, OthersWatch
  <1>11. FileFine' /\ saved' \in Records
    BY <1>1, <1>5, FileStays DEF Basic, DevTyped
  <1>12. map' \in [Scopes -> {0} \cup Ids] /\ \A s \in Scopes : map'[s] \in {0, map[s]}
    BY DEF IdleStops, Basic, DevTyped
  <1>13. excused' \in BOOLEAN /\ UNCHANGED <<stopped, restarted>>
    BY <1>1 DEF Basic, DevTyped, history
  <1>. QED BY <1>1, <1>5, <1>6, <1>8, <1>10, <1>11, <1>12, <1>13, WatcherBasic

LEMMA IdleFinalBasic ==
  ASSUME Basic, NEW i \in Ids, IdleFinal(i) PROVE Basic'
  <1> DEFINE r == [entry[i] EXCEPT !.status = "stopped", !.old = FALSE]
  <1>1. /\ idle[i] = "final" /\ idle' = [idle EXCEPT ![i] = "off"]
        /\ entry' = Aged([entry EXCEPT ![i] = r], i) /\ saved' = State(r)
        /\ UNCHANGED <<map, log, born, alive, setups, at, exits, snap, request, launched, stopped, restarted>>
    BY DEF IdleFinal, processes
  <1>2. /\ Used(i) /\ EntryFine(i) /\ WatchFine(i) /\ entry[i] \in Entries /\ entry[i].scope \in Scopes
        /\ entry[i].pid <= born
    BY <1>1, WatcherIs
  <1>3. /\ r \in Entries /\ r.pid = entry[i].pid /\ r.scope = entry[i].scope
        /\ r.status = "stopped" /\ r.cancelled = entry[i].cancelled
    BY <1>2 DEF Entries, Wide, Statuses
  <1> HIDE DEF r
  <1>4. Numbered' /\ Grows
    BY <1>1, OnlyEnds DEF Basic
  <1>5. /\ entry' \in [Ids -> Entries] /\ entry'[i] = r /\ Kept
        /\ \A j \in Ids : j # i => AsIs(j) /\ EntryFine(j)'
    BY <1>1, <1>2, <1>3, <1>4, OneChanges DEF Used
  <1>6. r.pid \notin alive' /\ KindOf(r.status, r.pid)
    BY <1>1, <1>2, <1>3 DEF WatchFine, Dead, KindOf, Over
  <1>7. EntryFine(i)'
    BY <1>2, <1>3, <1>4, <1>5, <1>6, ChangedFine
  <1>8. FileFine' /\ saved' \in Records
    BY <1>1, <1>2, <1>3, <1>4, <1>6, StateFine
  <1>9. snap' = [snap EXCEPT ![i].idle = snap[i].idle] /\ snap[i].idle \in Records
    BY <1>1, SnapSame DEF Basic
  <1>10. map' \in [Scopes -> {0} \cup Ids] /\ \A s \in Scopes : map'[s] \in {0, map[s]}
    BY <1>1 DEF Basic, DevTyped
  <1>11. excused' \in BOOLEAN /\ "off" \in Idling
    BY DEF IdleFinal, Overwrites, Basic, DevTyped, Idling
  <1>12. \A j \in Ids : EntryFine(j)'
    BY <1>5, <1>7
  <1>13. /\ idle[i] # "off" /\ UNCHANGED <<at, exits, launched, request, stopped, restarted>>
         /\ idle' = [idle EXCEPT ![i] = "off"] /\ entry' \in [Ids -> Entries] /\ Kept
         /\ "off" \notin {"gone", "write", "final"}
    BY <1>1, <1>5
  <1>. QED BY <1>4, <1>8, <1>9, <1>10, <1>11, <1>12, <1>13, IdleBasic

(* Only processes end, or nothing happens.                                 *)
LEMMA RestBasic ==
  ASSUME Basic, alive' \subseteq alive,
         UNCHANGED <<entry, map, saved, log, born, setups, at, watching, request, launched, history>>
  PROVE  Basic'
  <1>1. UNCHANGED <<idle, exits, snap, excused, stopped, restarted>>
    BY DEF watching, history
  <1>2. Numbered' /\ Grows
    BY OnlyEnds DEF Basic
  <1>3. Kept /\ \A i \in Ids : EntryFine(i)' /\ WatchFine(i)'
    BY <1>1, <1>2, StillFine DEF Still
  <1>4. FileFine' /\ saved' \in Records
    BY <1>2, FileStays DEF Basic, DevTyped
  <1>5. map' \in [Scopes -> {0} \cup Ids] /\ \A s \in Scopes : map'[s] \in {0, map[s]}
    BY DEF Basic, DevTyped
  <1>6. /\ entry' \in [Ids -> Entries] /\ idle' \in [Ids -> Idling] /\ excused' \in BOOLEAN
        /\ exits' \in [Ids -> {"off", "wait", "write"}]
        /\ snap' \in [Ids -> [idle : Records, exit : Records]]
    BY <1>1 DEF Basic, DevTyped
  <1>. QED BY <1>1, <1>2, <1>3, <1>4, <1>5, <1>6, WatcherBasic

LEMMA RestartBasic ==
  ASSUME Basic, Restart PROVE Basic'
  <1>1. /\ entry' = [i \in Ids |-> Free] /\ map' = [s \in Scopes |-> 0]
        /\ alive' \subseteq alive /\ at' = [w \in Runner |-> "off"]
        /\ idle' = [i \in Ids |-> "off"] /\ exits' = [i \in Ids |-> "off"]
        /\ snap' = [i \in Ids |-> [idle |-> NoFile, exit |-> NoFile]]
        /\ request' = NoRequest /\ launched' = [w \in Runner |-> 0]
        /\ restarted' = TRUE /\ UNCHANGED <<saved, log, born, setups, stopped>>
    BY DEF Restart
  <1>2. Numbered' /\ Grows
    BY <1>1, OnlyEnds DEF Basic
  <1>3. DevTyped'
    <2>1. entry' \in [Ids -> Entries]
      BY <1>1, FreeTyped
    <2>2. request' \in [op : Operations, scope : Scopes \cup {"none"}, entry : {0} \cup Ids]
      BY <1>1 DEF NoRequest, Operations
    <2>3. snap' \in [Ids -> [idle : Records, exit : Records]]
      BY <1>1, NoFileTyped
    <2>4. at' \in [Runner -> Places] /\ idle' \in [Ids -> Idling]
      BY <1>1 DEF Places, Idling
    <2>5. excused' \in BOOLEAN
      BY DEF Restart
    <2>. QED BY <1>1, <2>1, <2>2, <2>3, <2>4, <2>5 DEF Basic, DevTyped
  <1>4. FileFine'
    BY <1>1, <1>2, FileStays
  <1>5. RequestFine'
    BY <1>1 DEF RequestFine, NoRequest, Runner
  <1>6. ASSUME NEW i \in Ids PROVE EntryFine(i)' /\ WatchFine(i)'
    <2>1. entry'[i] = Free /\ idle'[i] = "off" /\ exits'[i] = "off" /\ 0 <= born'
      BY <1>1, <1>2 DEF Numbered
    <2>. QED BY <2>1, FreeTyped DEF EntryFine, WatchFine, Used, Over, KindOf, Setup
  <1>7. ASSUME NEW w \in Runner PROVE ThreadFine(w)'
    BY <1>1 DEF ThreadFine, Activating
  <1>8. ASSUME NEW s \in Scopes PROVE MapFine(s)'
    BY <1>1 DEF MapFine
  <1>. QED BY <1>2, <1>3, <1>4, <1>5, <1>6, <1>7, <1>8 DEF Basic

LEMMA NextBasic == Basic /\ [DevNext]_devVars => Basic'
  <1> SUFFICES ASSUME Basic, [DevNext]_devVars PROVE Basic'
    OBVIOUS
  <1>1. CASE ServeStep
    BY <1>1, LookBasic, HttpBasic, RereadBasic, StopBasic, FinalizeBasic, NothingBasic, StartBasic,
       BackgroundBasic, SyncBasic, GenerateBasic, InstallBasic DEF ServeStep
  <1>2. CASE \E s \in Scopes : AskDev(s)
    BY <1>2, AskBasic
  <1>3. CASE \E w \in Runner : LaunchStep(w)
    BY <1>3, LaunchesBasic, ReadyBasic, LaunchFailsBasic, PublishBasic, RecordBasic DEF LaunchStep
  <1>4. CASE \E i \in Ids : Activate(i)
    BY <1>4, ActivateBasic
  <1>5. CASE \E i \in Ids : WatcherStep(i)
    BY <1>5, ExitReadsBasic, ExitWritesBasic, IdleTopBasic, IdleChecksBasic, IdleGoneBasic,
       IdleWritesBasic, IdlePollsBasic, IdleStopsBasic, IdleFinalBasic DEF WatcherStep
  <1>6. CASE \E p \in Pid : ProcessExits(p)
    <2>1. /\ alive' \subseteq alive
          /\ UNCHANGED <<entry, map, saved, log, born, setups, at, watching, request, launched, history>>
      BY <1>6 DEF ProcessExits
    <2>. QED BY <2>1, RestBasic
  <1>7. CASE Restart
    BY <1>7, RestartBasic
  <1>8. CASE devVars' = devVars
    <2>1. UNCHANGED <<entry, map, saved, log, born, alive, setups, at, watching, request, launched, history>>
      BY <1>8 DEF devVars, processes
    <2>. QED BY <2>1, RestBasic
  <1>. QED BY <1>1, <1>2, <1>3, <1>4, <1>5, <1>6, <1>7, <1>8 DEF DevNext

(* Every state is well formed, whatever the races, failures and restarts:   *)
(* a process is what its entries and the state file say, a dead process    *)
(* stays dead, and each thread is where the entry it works on allows it    *)
(* (frontendLaunchDev, frontendWatchDev, frontendDevEntry).                *)
THEOREM BasicHolds == DevSpec => []Basic
  <1>. QED BY InitBasic, NextBasic, PTL DEF DevSpec

LEMMA BasicIsTrue == Basic => StateTrue
  <1> SUFFICES ASSUME Basic PROVE StateTrue
    OBVIOUS
  <1>1. born \in Nat /\ MaxProcesses \in Nat /\ 1 .. born \subseteq Pid /\ born <= MaxProcesses
    BY Limits DEF Basic, Numbered, Pid
  <1>2. alive \subseteq Pid /\ setups \subseteq Pid
    BY <1>1 DEF Basic, Numbered
  <1>3. saved \in Files
    <2>1. saved \in Records /\ saved.pid \in Nat /\ saved.pid <= MaxProcesses
      BY <1>1, Pids DEF Basic, DevTyped
    <2>2. saved.pid \in Pid \cup {0}
      BY <1>1, <2>1 DEF Pid
    <2>3. saved = [pid |-> saved.pid, status |-> saved.status, reason |-> saved.reason]
          /\ saved.status \in Statuses \cup {"absent"} /\ saved.reason \in Reasons
      BY <2>1 DEF Records
    <2>. QED BY <2>2, <2>3 DEF Files
  <1>4. ASSUME NEW i \in Ids PROVE entry[i].pid \in Pid \cup {0} /\ entry[i].status \in Statuses \cup {"free"}
    <2>1. entry[i].pid \in Nat /\ entry[i].pid <= MaxProcesses /\ entry[i] \in Entries
      BY <1>1, Pids DEF Basic, DevTyped
    <2>2. entry[i].pid \in Pid \cup {0}
      BY <1>1, <2>1 DEF Pid
    <2>. QED BY <2>1, <2>2, Fields
  <1>5. \A s \in Scopes : map[s] # 0 => entry[map[s]].scope = s /\ entry[map[s]].status # "free"
    BY DEF Basic, MapFine, Used
  <1>6. FinalMeansDead
    BY DEF FinalMeansDead, Basic, FileFine, Dead, Over
  <1>. QED BY <1>2, <1>3, <1>4, <1>5, <1>6 DEF StateTrue, DevTypeOK

(* What the state file says of the server is true of its process: one that *)
(* it says stopped or exited is dead, whoever wrote it, the stop, the exit *)
(* watcher or the idle watcher (frontendSetDevState, frontendWatchDev).    *)
THEOREM StateIsTrue == DevSpec => []StateTrue
  <1>. QED BY BasicHolds, BasicIsTrue, PTL

-----------------------------------------------------------------------------
(* What is true as long as none of the races the model excuses happened.   *)
Running == log \in alive
Up(w) == at[w] \in {"ready", "publish", "record"}
Rising == \E w \in Runner : Up(w)

(* An activation launches alone, while no request is served.               *)
OneLaunch ==
  /\ \A i \in Ids : Launching(i) => at[0] = "off"
  /\ \A i, j \in Ids : Launching(i) /\ Launching(j) => i = j

(* Only the process whose address the log holds runs Vite.                 *)
Alone == Servers \subseteq {log}

(* A thread that launched a server launched this one.                      *)
MadeFine ==
  \A w \in Runner : /\ at[w] \in {"ready", "publish"} => launched[w] = log
                    /\ at[w] = "record" => entry[launched[w]].pid = log

(* After a stop no server runs and none will: an activation that has not   *)
(* given up yet is of a cancelled entry.                                   *)
StopFine == stopped =>
  /\ ~Running
  /\ \A i \in Ids : at[i] = "off" \/ (at[i] = "prepare" /\ entry[i].cancelled)
  /\ at[0] \in {"off", "look", "http", "reread", "answer", "finalize"}

(* The entry an activation would launch is of a scope that knows nothing   *)
(* of the server; a scope that has an entry of it has it in its map, if any.*)
Apart(i) == at[i] = "prepare" /\ map[entry[i].scope] = i =>
              \A j \in Ids : entry[j].scope = entry[i].scope => entry[j].pid # log
Current(i) == entry[i].pid = log /\ map[entry[i].scope] # 0 => entry[map[entry[i].scope]].pid = log
WellPlaced == \A i \in Ids : Apart(i) /\ Current(i)

(* The file names the server that runs, entries that would start another   *)
(* are older than the file, and a watcher guards it.                       *)
Named == saved.pid = log \/ (at[0] = "reread" /\ saved.status \in {"absent", "failed"})
Olds == \A i \in Ids : entry[i].status \in {"starting", "prepared"} => entry[i].old
Guarded == restarted \/ \E i \in Ids : entry[i].pid = log /\ idle[i] # "off"

Busy == {"background", "install", "launch", "failed", "finalize"}
(* While a server runs, the request answers from it or is about to find it. *)
RunningFine ==
  /\ \A i \in Ids : at[i] # "launch"
  /\ at[0] \notin Busy
  /\ at[0] \in {"http", "answer", "generate"} => request.entry # 0 /\ entry[request.entry].pid = log
  /\ WellPlaced
  /\ Rising \/ (Named /\ Olds /\ Guarded)

Calm == OneLaunch /\ Alone /\ MadeFine /\ StopFine /\ (Running => RunningFine)
Tame == ~excused => Calm

(* A server is a process that is no installation.                          *)
LEMMA LogIs ==
  ASSUME Basic, Running
  PROVE  /\ log \in Nat /\ log # 0 /\ log <= born /\ ~Setup(log) /\ Servers # {}
         /\ \A i \in Ids : entry[i].pid = log =>
              /\ Used(i) /\ entry[i].scope \in Scopes /\ entry[i].status \notin Over \cup {"free", "starting"}
              /\ entry[i].status \in {"running", "stopping"} /\ ~entry[i].cancelled
         /\ saved.pid = log => saved.status \in {"running", "stopping"}
  <1>1. log \in Nat /\ log # 0 /\ log <= born /\ ~Setup(log) /\ Servers # {}
    BY DEF Basic, Numbered, Running, Setup, Servers
  <1>2. ASSUME NEW i \in Ids, entry[i].pid = log
        PROVE  /\ Used(i) /\ entry[i].scope \in Scopes /\ entry[i].status \in {"running", "stopping"}
               /\ ~entry[i].cancelled
    <2>1. EntryFine(i) /\ entry[i].status \in Statuses \cup {"free"}
      BY Fields DEF Basic, DevTyped
    <2>2. entry[i].status \in {"running", "stopping"}
      BY <1>1, <1>2, <2>1 DEF EntryFine, KindOf, Over, Dead, Running, Statuses
    <2>. QED BY <1>1, <1>2, <2>1, <2>2 DEF EntryFine, Dead, Running, Used
  <1>3. saved.pid = log => saved.status \in {"running", "stopping"}
    <2>1. FileFine /\ saved.status \in Statuses \cup {"absent"}
      BY DEF Basic, DevTyped, Records
    <2>. QED BY <1>1, <2>1 DEF FileFine, KindOf, Over, Dead, Running, Statuses, NoFile
  <1>. QED BY <1>1, <1>2, <1>3 DEF Over

LEMMA AloneIs ==
  ASSUME Basic, Alone
  PROVE  /\ Servers # {} => Running
         /\ \A p \in Nat : p \in alive /\ ~Setup(p) => p = log
  BY DEF Alone, Servers, Running, Setup

(* The servers only get fewer.                                             *)
Fewer == log' = log /\ alive' \subseteq alive /\ setups' = setups

LEMMA FewerIs ==
  ASSUME Fewer
  PROVE  (Alone => Alone') /\ (Running' => Running)
  BY DEF Fewer, Alone, Servers, Running

(* The entries stay where they are, and the scopes at most forget theirs.  *)
SamePids == \A i \in Ids : entry'[i].pid = entry[i].pid /\ entry'[i].scope = entry[i].scope

LEMMA PlacedStays ==
  ASSUME Basic, Running, WellPlaced, SamePids, log' = log, \A s \in Scopes : map'[s] \in {0, map[s]},
         \A i \in Ids : at'[i] = "prepare" => at[i] = "prepare"
  PROVE  WellPlaced'
  <1>1. ASSUME NEW i \in Ids PROVE Apart(i)'
    <2> SUFFICES ASSUME at'[i] = "prepare", map'[entry[i].scope] = i, NEW j \in Ids,
                        entry[j].scope = entry[i].scope
                 PROVE  entry[j].pid # log
      BY DEF Apart, SamePids
    <2>1. at[i] = "prepare" /\ i \in Runner /\ i # 0
      BY Limits DEF Runner
    <2>2. entry[i].scope \in Scopes
      BY <2>1 DEF Basic, ThreadFine, EntryFine
    <2>3. map[entry[i].scope] = i
      BY <2>1, <2>2
    <2>. QED BY <2>1, <2>3 DEF WellPlaced, Apart
  <1>2. ASSUME NEW i \in Ids PROVE Current(i)'
    <2> SUFFICES ASSUME entry[i].pid = log, map'[entry[i].scope] # 0
                 PROVE  entry'[map'[entry[i].scope]].pid = log
      BY DEF Current, SamePids
    <2>1. entry[i].scope \in Scopes
      BY LogIs
    <2>2. map'[entry[i].scope] = map[entry[i].scope] /\ map[entry[i].scope] \in Ids
      BY <2>1 DEF Basic, DevTyped
    <2>. QED BY <2>2 DEF WellPlaced, Current, SamePids
  <1>. QED BY <1>1, <1>2 DEF WellPlaced

(* The scope of an entry that is made of the server knows it by this one.  *)
LEMMA PlacedNew ==
  ASSUME Basic, Running, WellPlaced, NEW f \in Ids, NEW s \in Scopes, log' = log,
         entry[f].status = "free", entry'[f].pid = log, entry'[f].scope = s,
         \A i \in Ids : i # f => entry'[i].pid = entry[i].pid /\ entry'[i].scope = entry[i].scope,
         map'[s] = f, \A t \in Scopes : t # s => map'[t] = map[t],
         \A i \in Ids : at'[i] = "prepare" => at[i] = "prepare"
  PROVE  WellPlaced'
  <1>1. ASSUME NEW i \in Ids PROVE Apart(i)'
    <2> SUFFICES ASSUME at'[i] = "prepare", map'[entry'[i].scope] = i, NEW j \in Ids,
                        entry'[j].scope = entry'[i].scope
                 PROVE  entry'[j].pid # log
      BY DEF Apart
    <2>1. at[i] = "prepare" /\ i \in Runner /\ i # 0
      BY Limits DEF Runner
    <2>2. entry[i].scope \in Scopes /\ i # f
      BY <2>1 DEF Basic, ThreadFine, EntryFine, Used
    <2>3. entry'[i].scope # s /\ entry'[i].scope = entry[i].scope
      BY <2>2
    <2>4. map[entry[i].scope] = i /\ j # f
      BY <2>2, <2>3
    <2>. QED BY <2>1, <2>3, <2>4 DEF WellPlaced, Apart
  <1>2. ASSUME NEW i \in Ids PROVE Current(i)'
    <2> SUFFICES ASSUME entry'[i].pid = log, map'[entry'[i].scope] # 0
                 PROVE  entry'[map'[entry'[i].scope]].pid = log
      BY DEF Current
    <2>1. CASE entry'[i].scope = s
      BY <2>1
    <2>2. CASE entry'[i].scope # s
      <3>1. i # f /\ entry[i].pid = log /\ entry'[i].scope = entry[i].scope
        BY <2>2
      <3>2. entry[i].scope \in Scopes
        BY <3>1, LogIs
      <3>3. map[entry[i].scope] \in Ids /\ MapFine(entry[i].scope) /\ map[entry[i].scope] # 0
            /\ map'[entry'[i].scope] = map[entry[i].scope]
        BY <2>2, <3>1, <3>2 DEF Basic, DevTyped
      <3>4. map[entry[i].scope] # f
        BY <3>3 DEF MapFine, Used
      <3>. QED BY <3>1, <3>3, <3>4 DEF WellPlaced, Current
    <2>. QED BY <2>1, <2>2
  <1>. QED BY <1>1, <1>2 DEF WellPlaced

(* A step that no request and no launch does.                              *)
Aging == \A i \in Ids :
  /\ entry'[i].status \in {"starting", "prepared"} =>
       entry[i].status \in {"starting", "prepared"} /\ (entry[i].old => entry'[i].old)
  /\ entry[i].cancelled => entry'[i].cancelled

LEMMA QuietTame ==
  ASSUME Basic, Calm, Fewer, SamePids, Aging,
         UNCHANGED <<at, launched, request, stopped, restarted>>,
         \A s \in Scopes : map'[s] \in {0, map[s]},
         Running' => saved' = saved \/ (saved'.pid = saved.pid /\ ~Setup(saved.pid)),
         Running' => \A i \in Ids : entry[i].pid = log /\ idle[i] # "off" => idle'[i] # "off"
  PROVE  Calm'
  <1>1. OneLaunch'
    BY DEF Calm, OneLaunch, Launching
  <1>2. Alone' /\ (Running' => Running)
    BY FewerIs DEF Calm
  <1>3. MadeFine'
    <2> SUFFICES ASSUME NEW w \in Runner
                 PROVE  /\ at[w] \in {"ready", "publish"} => launched[w] = log
                        /\ at[w] = "record" => entry'[launched[w]].pid = log
      BY DEF MadeFine, Fewer
    <2>1. at[w] = "record" => launched[w] \in Ids
      BY DEF Basic, ThreadFine
    <2>. QED BY <2>1 DEF Calm, MadeFine, SamePids
  <1>4. StopFine'
    BY <1>2 DEF Calm, StopFine, Aging
  <1>5. ASSUME Running' PROVE RunningFine'
    <2>1. Running /\ RunningFine /\ log' = log
      BY <1>2, <1>5 DEF Calm, Fewer
    <2>2. WellPlaced'
      BY <2>1, PlacedStays DEF RunningFine
    <2>3. Rising' <=> Rising
      BY DEF Rising, Up
    <2>4. at[0] \in {"http", "answer", "generate"} => request.entry # 0 /\ entry'[request.entry].pid = log
      <3>1. request.entry \in {0} \cup Ids
        BY DEF Basic, DevTyped
      <3>. QED BY <2>1, <3>1 DEF RunningFine, SamePids
    <2>5. ASSUME Named, Olds, Guarded PROVE (Named /\ Olds /\ Guarded)'
      <3>1. Named'
        <4>1. CASE saved' = saved
          BY <2>1, <2>5, <4>1 DEF Named
        <4>2. CASE saved'.pid = saved.pid /\ ~Setup(saved.pid)
          <5>1. saved.status \notin {"absent", "failed"}
            BY <4>2 DEF Basic, FileFine, KindOf, Setup, NoFile
          <5>. QED BY <2>1, <2>5, <4>2, <5>1 DEF Named
        <4>. QED BY <1>5, <4>1, <4>2
      <3>2. Olds'
        BY <2>5 DEF Olds, Aging
      <3>3. Guarded'
        BY <1>5, <2>1, <2>5 DEF Guarded, SamePids
      <3>. QED BY <3>1, <3>2, <3>3
    <2>. QED BY <2>1, <2>2, <2>3, <2>4, <2>5 DEF RunningFine
  <1>. QED BY <1>1, <1>2, <1>3, <1>4, <1>5 DEF Calm

(* Where the state of process p is written without an excuse.              *)
LEMMA NotExcused ==
  ASSUME Basic, NEW p, excused' = Overwrites(p), ~excused'
  PROVE  ~excused /\ (Running => saved.pid = p)
  BY LogIs DEF Overwrites

(* What the entries do in a step of a watcher.                             *)
LEMMA AgedOnly ==
  ASSUME Basic, NEW i, entry' = Aged(entry, i) \/ entry' = entry
  PROVE  SamePids /\ Aging
  <1>1. entry \in [Ids -> Entries]
    BY DEF Basic, DevTyped
  <1>. QED BY <1>1, AgedTyped DEF SamePids, Aging

LEMMA AgedBut ==
  ASSUME Basic, NEW i \in Ids, NEW r \in Entries, r.pid = entry[i].pid, r.scope = entry[i].scope,
         r.status \notin {"starting", "prepared"}, entry[i].cancelled => r.cancelled,
         entry' = Aged([entry EXCEPT ![i] = r], i) \/ entry' = [entry EXCEPT ![i] = r]
  PROVE  SamePids /\ Aging
  <1> DEFINE es == [entry EXCEPT ![i] = r]
  <1>1. es \in [Ids -> Entries] /\ es[i] = r /\ \A j \in Ids : j # i => es[j] = entry[j]
    BY DEF Basic, DevTyped
  <1>2. Aged(es, i)[i] = es[i]
    BY DEF Aged
  <1> HIDE DEF es
  <1>3. entry' = es \/ entry' = Aged(es, i)
    BY DEF es
  <1>4. /\ entry'[i] = r
        /\ \A j \in Ids : j # i => /\ entry'[j].pid = entry[j].pid /\ entry'[j].scope = entry[j].scope
                                   /\ entry'[j].status = entry[j].status
                                   /\ entry'[j].cancelled = entry[j].cancelled
                                   /\ entry[j].old => entry'[j].old
    <2>1. CASE entry' = es
      BY <1>1, <2>1
    <2>2. CASE entry' = Aged(es, i)
      BY <1>1, <1>2, <2>2, AgedTyped
    <2>. QED BY <1>3, <2>1, <2>2
  <1>. QED BY <1>4 DEF SamePids, Aging

LEMMA ExitReadsTame ==
  ASSUME Basic, Calm, NEW i \in Ids, ExitReads(i) PROVE Calm'
  <1>1. Fewer /\ UNCHANGED <<entry, saved, at, launched, request, stopped, restarted, idle>>
    BY DEF ExitReads, processes, history, Fewer
  <1>2. \A s \in Scopes : map'[s] \in {0, map[s]}
    BY DEF ExitReads, Basic, DevTyped
  <1>. QED BY <1>1, <1>2, AgedOnly, QuietTame

LEMMA ExitWritesTame ==
  ASSUME Basic, Tame, NEW i \in Ids, ExitWrites(i), ~excused' PROVE Calm'
  <1>1. /\ Fewer /\ UNCHANGED <<map, at, launched, request, stopped, restarted, idle>>
        /\ entry' = Aged(entry, 0) /\ excused' = Overwrites(entry[i].pid)
        /\ saved' = Final(snap[i].exit, entry[i].cancelled, entry[i].reason) /\ exits[i] = "write"
    BY DEF ExitWrites, processes, Fewer
  <1>2. /\ WatchFine(i) /\ ~Setup(entry[i].pid) /\ snap[i].exit \in Records
        /\ entry[i].cancelled \in BOOLEAN /\ entry[i].reason \in Reasons
    BY <1>1, WatcherIs
  <1>3. Calm /\ (Running => saved.pid = entry[i].pid)
    BY <1>1, NotExcused DEF Tame
  <1>4. saved'.pid = entry[i].pid
    BY <1>1, <1>2, FinalTyped DEF WatchFine
  <1>5. SamePids /\ Aging
    BY <1>1, AgedOnly
  <1>6. Running' => saved'.pid = saved.pid /\ ~Setup(saved.pid)
    BY <1>1, <1>2, <1>3, <1>4, FewerIs
  <1>. QED BY <1>1, <1>3, <1>5, <1>6, QuietTame

(* The watcher of the server that runs does not end.                       *)
LEMMA RunningWatch ==
  ASSUME Basic, Running, WellPlaced, NEW i \in Ids, entry[i].pid = log, idle[i] # "off"
  PROVE  /\ Alive(entry[i]) /\ ~Terminal(entry[i]) /\ ~entry[i].cancelled
         /\ idle[i] \notin {"gone", "write", "final"}
         /\ map[entry[i].scope] # 0 => entry[map[entry[i].scope]].pid = entry[i].pid
  <1>1. /\ entry[i].status \in {"running", "stopping"} /\ ~entry[i].cancelled
    BY LogIs
  <1>2. WatchFine(i) /\ Current(i)
    BY DEF Basic, WellPlaced
  <1>. QED BY <1>1, <1>2 DEF Alive, Terminal, Running, WatchFine, Dead, Current

LEMMA IdleTopTame ==
  ASSUME Basic, Calm, NEW i \in Ids, IdleTop(i) PROVE Calm'
  <1>1. /\ Fewer /\ UNCHANGED <<entry, map, saved, at, launched, request, stopped, restarted>>
        /\ idle[i] = "top"
    BY DEF IdleTop, processes, history, Fewer
  <1> DEFINE c == map[entry[i].scope]
             replaced == c \notin {0, i} /\ (entry[i].pid = 0 \/ entry[c].pid # entry[i].pid)
  <1>2. /\ \A j \in Ids : j # i => idle'[j] = idle[j]
        /\ idle'[i] = "off" => entry[i].cancelled \/ Terminal(entry[i]) \/ replaced
    BY DEF IdleTop, Basic, DevTyped
  <1>3. Running' => Running /\ WellPlaced
    BY <1>1, FewerIs DEF Calm, RunningFine
  <1>4. ASSUME Running', entry[i].pid = log PROVE idle'[i] # "off"
    BY <1>1, <1>2, <1>3, <1>4, RunningWatch, LogIs
  <1>5. Running' => \A j \in Ids : entry[j].pid = log /\ idle[j] # "off" => idle'[j] # "off"
    BY <1>2, <1>4
  <1>. QED BY <1>1, <1>5, AgedOnly, QuietTame

LEMMA IdleChecksTame ==
  ASSUME Basic, Calm, NEW i \in Ids, IdleChecks(i) PROVE Calm'
  <1>1. /\ Fewer /\ UNCHANGED <<entry, map, saved, at, launched, request, stopped, restarted>>
        /\ idle[i] # "off"
    BY DEF IdleChecks, processes, history, Fewer
  <1>2. /\ \A j \in Ids : j # i => idle'[j] = idle[j]
        /\ idle'[i] = "off" => ~Alive(entry[i])
    BY DEF IdleChecks, Basic, DevTyped
  <1>3. Running' => Running /\ WellPlaced
    BY <1>1, FewerIs DEF Calm, RunningFine
  <1>4. ASSUME Running', entry[i].pid = log PROVE idle'[i] # "off"
    BY <1>1, <1>2, <1>3, <1>4, RunningWatch
  <1>5. Running' => \A j \in Ids : entry[j].pid = log /\ idle[j] # "off" => idle'[j] # "off"
    BY <1>2, <1>4
  <1>. QED BY <1>1, <1>5, AgedOnly, QuietTame

(* A watcher that found its process dead does not watch the one that runs. *)
LEMMA DeadWatch ==
  ASSUME Basic, NEW i \in Ids, idle[i] \in {"gone", "write", "final"}, Running,
         \A j \in Ids : j # i => idle'[j] = idle[j]
  PROVE  \A j \in Ids : entry[j].pid = log /\ idle[j] # "off" => idle'[j] # "off"
  <1>1. WatchFine(i)
    BY DEF Basic
  <1>2. entry[i].pid # log
    BY <1>1 DEF WatchFine, Dead, Running
  <1>. QED BY <1>2

LEMMA IdleGoneTame ==
  ASSUME Basic, Calm, NEW i \in Ids, IdleGone(i) PROVE Calm'
  <1>1. /\ Fewer /\ UNCHANGED <<entry, saved, at, launched, request, stopped, restarted>>
        /\ idle[i] = "gone"
    BY DEF IdleGone, processes, history, Fewer
  <1>2. \A j \in Ids : j # i => idle'[j] = idle[j]
    BY DEF IdleGone, Basic, DevTyped
  <1>3. \A s \in Scopes : map'[s] \in {0, map[s]}
    BY DEF IdleGone, Basic, DevTyped
  <1>4. Running' => \A j \in Ids : entry[j].pid = log /\ idle[j] # "off" => idle'[j] # "off"
    BY <1>1, <1>2, FewerIs, DeadWatch
  <1>. QED BY <1>1, <1>3, <1>4, AgedOnly, QuietTame

LEMMA IdleWritesTame ==
  ASSUME Basic, Tame, NEW i \in Ids, IdleWrites(i), ~excused' PROVE Calm'
  <1> DEFINE st == IF snap[i].idle.status = "stopping" THEN snap[i].idle.status ELSE "running"
             f == [snap[i].idle EXCEPT !.status = st]
  <1>1. /\ Fewer /\ UNCHANGED <<map, at, launched, request, stopped, restarted>>
        /\ entry' = Aged(entry, 0) /\ excused' = Overwrites(entry[i].pid)
        /\ idle[i] = "write" /\ idle' = [idle EXCEPT ![i] = "off"]
    BY DEF IdleWrites, processes, Fewer
  <1>2. /\ WatchFine(i) /\ ~Setup(entry[i].pid) /\ snap[i].idle \in Records
    BY <1>1, WatcherIs
  <1>3. saved' = Final(f, FALSE, "none")
    <2>1. f = [snap[i].idle EXCEPT !.status = IF @ = "stopping" THEN @ ELSE "running"]
      BY <1>2 DEF Records
    <2>. QED BY <2>1 DEF IdleWrites
  <1>4. st \in Statuses /\ "none" \in Reasons
    BY DEF Statuses, Reasons
  <1> HIDE DEF st
  <1>5. f \in Records /\ f.pid = snap[i].idle.pid
    BY <1>2, <1>4 DEF Records
  <1> HIDE DEF f
  <1>6. saved'.pid = entry[i].pid
    BY <1>1, <1>2, <1>3, <1>4, <1>5, FinalTyped DEF WatchFine
  <1>7. Calm /\ (Running => saved.pid = entry[i].pid)
    BY <1>1, NotExcused DEF Tame
  <1>8. SamePids /\ Aging
    BY <1>1, AgedOnly
  <1>9. Running' => saved'.pid = saved.pid /\ ~Setup(saved.pid)
    BY <1>1, <1>2, <1>6, <1>7, FewerIs
  <1>10. \A j \in Ids : j # i => idle'[j] = idle[j]
    BY <1>1 DEF Basic, DevTyped
  <1>11. Running' => \A j \in Ids : entry[j].pid = log /\ idle[j] # "off" => idle'[j] # "off"
    BY <1>1, <1>10, FewerIs, DeadWatch
  <1>. QED BY <1>1, <1>7, <1>8, <1>9, <1>11, QuietTame

LEMMA IdlePollsTame ==
  ASSUME Basic, Tame, NEW i \in Ids, IdlePolls(i), ~excused' PROVE Calm'
  <1> DEFINE r == [entry[i] EXCEPT !.status = "stopping", !.reason = "idle", !.old = FALSE]
  <1>1. /\ Fewer /\ UNCHANGED <<map, at, launched, request, stopped, restarted>>
        /\ idle[i] = "poll"
        /\ excused' = Overwrites(entry[i].pid) \/ (excused' = excused /\ entry' = entry /\ saved' = saved)
        /\ \/ entry' = Aged([entry EXCEPT ![i] = r], i) /\ saved' = State(r)
           \/ entry' = Aged(entry, i) /\ saved' = State(entry[i])
           \/ entry' = entry /\ saved' = saved
    <2>1. /\ Fewer /\ UNCHANGED <<map, at, launched, request, stopped, restarted>>
          /\ idle[i] = "poll"
      BY DEF IdlePolls, processes, Fewer
    <2>2. \/ /\ excused' = Overwrites(entry[i].pid)
             /\ \/ entry' = Aged([entry EXCEPT ![i] = r], i) /\ saved' = State(r)
                \/ entry' = Aged(entry, i) /\ saved' = State(entry[i])
          \/ excused' = excused /\ entry' = entry /\ saved' = saved
      BY DEF IdlePolls
    <2> HIDE DEF r
    <2>. QED BY <2>1, <2>2
  <1>2. /\ ~Setup(entry[i].pid) /\ entry[i] \in Entries /\ Used(i)
    BY <1>1, WatcherIs
  <1>3. /\ r \in Entries /\ r.pid = entry[i].pid /\ r.scope = entry[i].scope
        /\ r.status = "stopping" /\ r.cancelled = entry[i].cancelled
    BY <1>2 DEF Entries, Wide, Statuses, Reasons
  <1>4. \A j \in Ids : idle[j] # "off" => idle'[j] # "off"
    BY DEF IdlePolls, Basic, DevTyped
  <1> HIDE DEF r
  <1>5. Calm /\ (excused' = Overwrites(entry[i].pid) /\ Running => saved.pid = entry[i].pid)
    BY <1>1, NotExcused DEF Tame
  <1>6. SamePids /\ Aging
    <2>1. CASE entry' = Aged([entry EXCEPT ![i] = r], i)
      BY <1>3, <2>1, AgedBut
    <2>2. CASE entry' = Aged(entry, i) \/ entry' = entry
      BY <2>2, AgedOnly
    <2>. QED BY <1>1, <2>1, <2>2
  <1>7. Running' => saved' = saved \/ (saved'.pid = saved.pid /\ ~Setup(saved.pid))
    <2>1. Running' => Running
      BY <1>1, FewerIs
    <2>2. saved' = saved \/ (saved'.pid = entry[i].pid /\ excused' = Overwrites(entry[i].pid))
      <3>1. State(r).pid = entry[i].pid /\ State(entry[i]).pid = entry[i].pid
        BY <1>3 DEF State
      <3>. QED BY <1>1, <3>1
    <2>. QED BY <1>2, <1>5, <2>1, <2>2
  <1>. QED BY <1>1, <1>4, <1>5, <1>6, <1>7, QuietTame

LEMMA IdleStopsTame ==
  ASSUME Basic, Calm, NEW i \in Ids, IdleStops(i) PROVE Calm'
  <1> DEFINE r == Destroyed(entry[i], "idle")
  <1>1. /\ Fewer /\ UNCHANGED <<saved, at, launched, request, stopped, restarted>>
        /\ idle[i] = "stop" /\ entry' = [entry EXCEPT ![i] = r]
        /\ idle' = [idle EXCEPT ![i] = "final"]
    BY DEF IdleStops, history, Fewer, Basic, DevTyped
  <1>2. entry[i] \in Entries /\ Used(i) /\ ~Setup(entry[i].pid) /\ EntryFine(i)
    BY <1>1, WatcherIs
  <1>3. /\ r \in Entries /\ r.pid = entry[i].pid /\ r.scope = entry[i].scope
        /\ r.status = entry[i].status /\ r.cancelled = TRUE
    BY <1>2, DestroyedTyped DEF Reasons
  <1> HIDE DEF r
  <1>4. r.status \notin {"starting", "prepared"}
    BY <1>2, <1>3 DEF EntryFine, KindOf
  <1>5. SamePids /\ Aging
    BY <1>1, <1>3, <1>4, AgedBut
  <1>6. \A s \in Scopes : map'[s] \in {0, map[s]}
    BY DEF IdleStops, Basic, DevTyped
  <1>7. \A j \in Ids : idle[j] # "off" => idle'[j] # "off"
    BY <1>1 DEF Basic, DevTyped
  <1>. QED BY <1>1, <1>5, <1>6, <1>7, QuietTame

LEMMA IdleFinalTame ==
  ASSUME Basic, Tame, NEW i \in Ids, IdleFinal(i), ~excused' PROVE Calm'
  <1> DEFINE r == [entry[i] EXCEPT !.status = "stopped", !.old = FALSE]
  <1>1. /\ Fewer /\ UNCHANGED <<map, at, launched, request, stopped, restarted>>
        /\ idle[i] = "final" /\ idle' = [idle EXCEPT ![i] = "off"]
        /\ entry' = Aged([entry EXCEPT ![i] = r], i) /\ saved' = State(r)
        /\ excused' = Overwrites(entry[i].pid)
    BY DEF IdleFinal, processes, Fewer
  <1>2. entry[i] \in Entries /\ Used(i) /\ ~Setup(entry[i].pid)
    BY <1>1, WatcherIs
  <1>3. /\ r \in Entries /\ r.pid = entry[i].pid /\ r.scope = entry[i].scope
        /\ r.status = "stopped" /\ r.cancelled = entry[i].cancelled
    BY <1>2 DEF Entries, Wide, Statuses
  <1> HIDE DEF r
  <1>4. Calm /\ (Running => saved.pid = entry[i].pid)
    BY <1>1, NotExcused DEF Tame
  <1>5. SamePids /\ Aging
    BY <1>1, <1>3, AgedBut
  <1>6. Running' => saved'.pid = saved.pid /\ ~Setup(saved.pid)
    <2>1. State(r).pid = entry[i].pid
      BY <1>3 DEF State
    <2>. QED BY <1>1, <1>2, <1>4, <2>1, FewerIs
  <1>7. \A j \in Ids : j # i => idle'[j] = idle[j]
    BY <1>1 DEF Basic, DevTyped
  <1>8. Running' => \A j \in Ids : entry[j].pid = log /\ idle[j] # "off" => idle'[j] # "off"
    BY <1>1, <1>7, FewerIs, DeadWatch
  <1>. QED BY <1>1, <1>4, <1>5, <1>6, <1>8, QuietTame

LEMMA RestTame ==
  ASSUME Basic, Calm, alive' \subseteq alive,
         UNCHANGED <<entry, map, saved, log, born, setups, at, watching, request, launched, history>>
  PROVE  Calm'
  <1>1. Fewer /\ idle' = idle /\ stopped' = stopped /\ restarted' = restarted
    BY DEF Fewer, watching, history
  <1>. QED BY <1>1, AgedOnly, QuietTame

LEMMA RestartTame ==
  ASSUME Basic, Tame, Restart, ~excused' PROVE Calm'
  <1>1. /\ entry' = [i \in Ids |-> Free] /\ map' = [s \in Scopes |-> 0]
        /\ alive' \subseteq alive /\ at' = [w \in Runner |-> "off"]
        /\ restarted' = TRUE /\ UNCHANGED <<saved, log, setups, stopped>>
        /\ alive' \ setups \subseteq {saved.pid} /\ Calm
    BY DEF Restart, Tame
  <1>2. 0 \in Runner /\ \A i \in Ids : i \in Runner
    BY DEF Runner
  <1>3. OneLaunch' /\ MadeFine'
    BY <1>1, <1>2 DEF OneLaunch, MadeFine, Launching
  <1>4. Fewer /\ Alone' /\ (Running' => Running)
    BY <1>1, FewerIs DEF Fewer, Calm
  <1>5. StopFine'
    BY <1>1, <1>2, <1>4 DEF StopFine, Calm
  <1>6. ASSUME Running' PROVE RunningFine'
    <2>1. Running /\ log' = log /\ log \notin setups /\ log # 0
      BY <1>1, <1>4, <1>6, LogIs DEF Setup
    <2>2. saved'.pid = log'
      BY <1>1, <1>6, <2>1 DEF Running
    <2>3. \A i \in Ids : entry'[i].status = "free" /\ entry'[i].pid = 0
      BY <1>1, FreeTyped
    <2>4. \A i \in Ids : entry'[i].pid # log'
      BY <2>1, <2>3
    <2>5. WellPlaced'
      BY <2>4 DEF WellPlaced, Apart, Current
    <2>6. (Named /\ Olds /\ Guarded)'
      BY <1>1, <2>2, <2>3 DEF Named, Olds, Guarded
    <2>. QED BY <1>1, <1>2, <2>5, <2>6 DEF RunningFine, Busy
  <1>. QED BY <1>3, <1>4, <1>5, <1>6 DEF Calm

-----------------------------------------------------------------------------
(* The steps of the request: no activation launches meanwhile.             *)
Nobody == \A i \in Ids : ~Launching(i)
PcSame == \A i \in Ids : at'[i] = at[i]
OfServer(r) == r.entry # 0 /\ entry[r.entry].pid = log

LEMMA NobodyIs ==
  ASSUME Calm, at[0] # "off" PROVE Nobody
  BY DEF Calm, OneLaunch, Nobody

LEMMA SettledIs ==
  ASSUME Calm, Nobody, ~Up(0), Running
  PROVE  /\ WellPlaced /\ Named /\ Olds /\ Guarded /\ at[0] \notin Busy
         /\ at[0] \in {"http", "answer", "generate"} => OfServer(request)
  BY DEF Calm, Nobody, RunningFine, Rising, Up, Launching, Runner, OfServer

LEMMA RequestTame ==
  ASSUME Basic, Calm, Nobody, Servers' \subseteq Servers, log' = log, Running' => Running,
         \A i \in Ids : at'[i] = at[i] \/ at'[i] = "prepare",
         at'[0] \notin {"ready", "publish", "record"}, StopFine',
         Running' => /\ at'[0] \notin Busy
                     /\ at'[0] \in {"http", "answer", "generate"} => OfServer(request)'
                     /\ WellPlaced' /\ Named' /\ Olds' /\ Guarded'
  PROVE  Calm'
  <1>1. Nobody'
    BY DEF Nobody, Launching
  <1>2. OneLaunch' /\ MadeFine'
    BY <1>1 DEF OneLaunch, Nobody, Launching, MadeFine, Runner
  <1>3. Alone'
    BY DEF Calm, Alone
  <1>4. Running' => RunningFine'
    BY <1>1 DEF RunningFine, Nobody, Launching, OfServer
  <1>. QED BY <1>2, <1>3, <1>4 DEF Calm

LEMMA StopStays ==
  ASSUME Calm, stopped' => stopped, Running' => Running, PcSame,
         \A i \in Ids : at[i] = "prepare" /\ entry[i].cancelled => entry'[i].cancelled,
         stopped => at'[0] \in {"off", "look", "http", "reread", "answer", "finalize"}
  PROVE  StopFine'
  BY DEF Calm, StopFine, PcSame

(* What is left as it is by a step that runs a server still.               *)
LEMMA SettledStays ==
  ASSUME Basic, Running, Running', WellPlaced, Olds, Guarded, log' = log, restarted' = restarted,
         SamePids, Aging, PcSame,
         \A s \in Scopes : map'[s] \in {0, map[s]},
         \A i \in Ids : entry[i].pid = log /\ idle[i] # "off" => idle'[i] # "off"
  PROVE  WellPlaced' /\ Olds' /\ Guarded'
  <1>1. WellPlaced'
    BY PlacedStays DEF PcSame
  <1>2. Olds'
    BY DEF Olds, Aging
  <1>3. Guarded'
    BY DEF Guarded, SamePids
  <1>. QED BY <1>1, <1>2, <1>3

LEMMA ZeroGoes ==
  ASSUME Basic, NEW x \in Places, MoveTo(0, x)
  PROVE  at'[0] = x /\ PcSame
  <1>1. 0 \in Runner /\ \A i \in Ids : i # 0 /\ i \in Runner
    BY Limits DEF Runner
  <1>. QED BY <1>1, Moved DEF Basic, PcSame

LEMMA AskTame ==
  ASSUME Basic, Tame, NEW s \in Scopes, AskDev(s), ~excused' PROVE Calm'
  <1>1. /\ Calm /\ Nobody /\ at[0] = "off" /\ ~Up(0)
        /\ MoveTo(0, "look")
        /\ UNCHANGED <<entry, map, saved, log, alive, setups, idle, stopped, restarted>>
    BY DEF AskDev, Tame, Nobody, processes, watching, Up
  <1>2. at'[0] = "look" /\ PcSame
    BY <1>1, ZeroGoes DEF Places
  <1>3. Fewer /\ SamePids /\ Aging /\ (Running' => Running) /\ Servers' = Servers
    BY <1>1, AgedOnly DEF Fewer, Running, Servers
  <1>4. StopFine'
    BY <1>1, <1>2, <1>3, StopStays DEF Aging
  <1>5. ASSUME Running' PROVE WellPlaced' /\ Named' /\ Olds' /\ Guarded'
    <2>1. Running /\ WellPlaced /\ Named /\ Olds /\ Guarded
      BY <1>1, <1>3, <1>5, SettledIs
    <2>2. Named'
      BY <1>1, <2>1 DEF Named
    <2>. QED BY <1>1, <1>2, <1>3, <1>5, <2>1, <2>2, SettledStays
  <1>. QED BY <1>1, <1>2, <1>3, <1>4, <1>5, RequestTame DEF Busy, PcSame

LEMMA NothingTame ==
  ASSUME Basic, Tame, Nothing, ~excused' PROVE Calm'
  <1>1. /\ Calm /\ at[0] = "answer" /\ ~Up(0) /\ MoveTo(0, "off")
        /\ UNCHANGED <<entry, map, saved, log, alive, setups, idle, stopped, restarted>>
    BY DEF Nothing, Done, Tame, processes, watching, history, Up
  <1>2. at'[0] = "off" /\ PcSame /\ Nobody
    BY <1>1, ZeroGoes, NobodyIs DEF Places
  <1>3. Fewer /\ SamePids /\ Aging /\ (Running' => Running) /\ Servers' = Servers
    BY <1>1, AgedOnly DEF Fewer, Running, Servers
  <1>4. StopFine'
    BY <1>1, <1>2, <1>3, StopStays DEF Aging
  <1>5. ASSUME Running' PROVE WellPlaced' /\ Named' /\ Olds' /\ Guarded'
    <2>1. Running /\ WellPlaced /\ Named /\ Olds /\ Guarded
      BY <1>1, <1>2, <1>3, <1>5, SettledIs
    <2>2. Named'
      BY <1>1, <2>1 DEF Named
    <2>. QED BY <1>1, <1>2, <1>3, <1>5, <2>1, <2>2, SettledStays
  <1>. QED BY <1>1, <1>2, <1>3, <1>4, <1>5, RequestTame DEF Busy, PcSame

(* What the request found is the server, when there is one.                *)
LEMMA FoundServer ==
  ASSUME Basic, Calm, at[0] \in {"answer", "generate"}, Running
  PROVE  /\ request.entry \in Ids /\ Found /\ It = entry[request.entry] /\ It.pid = log
         /\ It.status \in {"running", "stopping"} /\ It \in Entries
  <1>1. Nobody /\ ~Up(0)
    BY NobodyIs DEF Up
  <1>2. request.entry # 0 /\ entry[request.entry].pid = log
    BY <1>1, SettledIs DEF OfServer
  <1>3. request.entry \in Ids /\ Found /\ It = entry[request.entry] /\ It \in Entries
    BY <1>2, FoundIs
  <1>. QED BY <1>2, <1>3, LogIs

(* A step of the request after which no server runs.                       *)
LEMMA NoneTame ==
  ASSUME Basic, Calm, at[0] # "off", Servers' \subseteq Servers, log' = log, ~Running',
         \A i \in Ids : at'[i] = at[i] \/ at'[i] = "prepare",
         at'[0] \notin {"ready", "publish", "record"}, StopFine'
  PROVE  Calm'
  BY NobodyIs, RequestTame

LEMMA StartTame ==
  ASSUME Basic, Tame, Start, ~excused' PROVE Calm'
  <1>1. /\ Calm /\ at[0] = "answer"
        /\ UNCHANGED <<entry, log, alive, setups>> /\ stopped' = FALSE
        /\ ~Found \/ It.status \in {"failed", "prepared"}
    BY DEF Start, Tame, processes
  <1>2. PICK x \in {"install", "background"} : MoveTo(0, x)
    BY DEF Start
  <1>3. at'[0] = x /\ PcSame
    BY <1>2, ZeroGoes DEF Places
  <1>4. ~Running' /\ Servers' = Servers
    BY <1>1, FoundServer DEF Running, Servers
  <1>. QED BY <1>1, <1>3, <1>4, NoneTame DEF PcSame, StopFine

LEMMA InstallTame ==
  ASSUME Basic, Tame, Install, ~excused' PROVE Calm'
  <1>1. /\ Calm /\ at[0] = "install" /\ ~Up(0)
        /\ UNCHANGED <<log, alive, setups, stopped>>
    BY DEF Install, Tame, processes, history, Up
  <1>2. PICK x \in {"launch", "off"} : MoveTo(0, x)
    BY DEF Install, Done
  <1>3. at'[0] = x /\ PcSame /\ Nobody
    BY <1>1, <1>2, ZeroGoes, NobodyIs DEF Places
  <1>4. ~Running' /\ Servers' = Servers /\ ~stopped'
    BY <1>1, <1>3, SettledIs DEF Running, Servers, Calm, StopFine, Busy
  <1>. QED BY <1>1, <1>3, <1>4, NoneTame DEF PcSame, StopFine

LEMMA FinalizeTame ==
  ASSUME Basic, Tame, Finalize, ~excused' PROVE Calm'
  <1>1. /\ at[0] = "finalize" /\ ~Up(0) /\ MoveTo(0, "off")
        /\ UNCHANGED <<log, alive, setups, stopped>>
        /\ Calm
    BY DEF Finalize, Done, Tame, processes, Up, Overwrites
  <1>2. request.entry \in Ids /\ It = entry[request.entry] /\ It \in Entries
    BY <1>1, FoundIs DEF Basic, RequestFine
  <1> DEFINE r == [It EXCEPT !.status = "stopped", !.old = FALSE]
  <1>3. /\ r \in Entries /\ r.pid = It.pid /\ r.scope = It.scope
        /\ r.status = "stopped" /\ r.cancelled = It.cancelled
    BY <1>2 DEF Entries, Wide, Statuses
  <1>4. entry' = Aged([entry EXCEPT ![request.entry] = r], request.entry)
    BY DEF Finalize
  <1> HIDE DEF r
  <1>5. Aging
    BY <1>2, <1>3, <1>4, AgedBut
  <1>6. at'[0] = "off" /\ PcSame /\ Nobody
    BY <1>1, ZeroGoes, NobodyIs DEF Places
  <1>7. ~Running' /\ Servers' = Servers
    BY <1>1, <1>6, SettledIs DEF Running, Servers, Busy
  <1>8. StopFine'
    BY <1>1, <1>5, <1>6, <1>7, StopStays DEF Aging
  <1>. QED BY <1>1, <1>6, <1>7, <1>8, NoneTame DEF PcSame

LEMMA StopTame ==
  ASSUME Basic, Tame, StopDev, ~excused' PROVE Calm'
  <1>1. /\ at[0] = "answer" /\ MoveTo(0, "finalize") /\ Found
        /\ UNCHANGED <<log, setups>> /\ alive' = alive \ {It.pid}
        /\ entry' = [entry EXCEPT ![request.entry] = Destroyed(@, "manual")]
    BY DEF StopDev
  <1>2. ~excused /\ \A j \in Ids : at[j] # "off" => j = request.entry /\ at[j] = "prepare"
    BY DEF StopDev
  <1>3. Calm
    BY <1>2 DEF Tame
  <1>4. at'[0] = "finalize" /\ PcSame
    BY <1>1, ZeroGoes DEF Places
  <1>5. request.entry \in Ids /\ entry[request.entry] \in Entries
    BY <1>1, FoundIs DEF Found, Basic, DevTyped
  <1>6. entry'[request.entry].cancelled
    BY <1>1, <1>5, DestroyedTyped DEF Basic, DevTyped, Reasons
  <1>7. ~Running' /\ Servers' \subseteq Servers
    BY <1>1, <1>3, FoundServer DEF Running, Servers
  <1>8. StopFine'
    BY <1>2, <1>4, <1>6, <1>7 DEF StopFine, PcSame
  <1>. QED BY <1>1, <1>3, <1>4, <1>7, <1>8, NoneTame DEF PcSame

LEMMA SyncTame ==
  ASSUME Basic, Tame, Sync, ~excused' PROVE Calm'
  <1>1. /\ at[0] = "answer" /\ Found /\ ~Up(0) /\ Calm
        /\ UNCHANGED <<map, saved, log, alive, setups, idle, restarted>> /\ stopped' = FALSE
    BY DEF Sync, Tame, processes, watching, Up
  <1>2. PICK x \in {"off", "install", "generate"} : MoveTo(0, x)
    BY DEF Sync, Done
  <1>3. at'[0] = x /\ PcSame /\ Nobody
    BY <1>1, <1>2, ZeroGoes, NobodyIs DEF Places
  <1>4. Servers' = Servers /\ (Running' => Running) /\ StopFine'
    BY <1>1 DEF Running, Servers, StopFine
  <1>5. ASSUME Running'
        PROVE  /\ x = "generate" /\ OfServer(request)'
               /\ WellPlaced' /\ Named' /\ Olds' /\ Guarded'
    <2>1. /\ Running /\ WellPlaced /\ Named /\ Olds /\ Guarded
      BY <1>1, <1>3, <1>4, <1>5, SettledIs
    <2>2. PICK i \in Ids : i = request.entry
      BY <1>1, <2>1, FoundServer
    <2>3. /\ It = entry[i] /\ It.pid = log
          /\ It.status \in {"running", "stopping"} /\ entry[i] \in Entries
      BY <1>1, <2>1, <2>2, FoundServer
    <2>4. Prepared(It) = It
      BY <2>3 DEF Prepared
    <2> DEFINE k == entry[i].act \/ entry[i].status = "prepared"
               r == [entry[i] EXCEPT !.act = k]
    <2>5. /\ entry' = [entry EXCEPT ![i] = r]
          /\ request' = [request EXCEPT !.op = @]
          /\ MoveTo(0, "generate")
      BY <2>2, <2>3, <2>4 DEF Sync
    <2>6. k \in BOOLEAN
      BY <2>3 DEF Entries, Wide
    <2> HIDE DEF k
    <2>7. /\ r \in Entries /\ r.pid = entry[i].pid /\ r.scope = entry[i].scope
          /\ r.status = entry[i].status /\ r.cancelled = entry[i].cancelled
      BY <2>3, <2>6 DEF Entries, Wide
    <2> HIDE DEF r
    <2>8. SamePids /\ Aging
      BY <2>3, <2>5, <2>7, AgedBut
    <2>9. at'[0] = "generate"
      BY <2>5, ZeroGoes DEF Places
    <2>10. request'.entry = i /\ i # 0
      BY <2>2, <2>5, Limits DEF Basic, DevTyped
    <2>11. OfServer(request)'
      BY <1>1, <2>3, <2>8, <2>10 DEF OfServer, SamePids
    <2>12. Named'
      BY <1>1, <2>1 DEF Named
    <2>13. WellPlaced' /\ Olds' /\ Guarded'
      BY <1>1, <1>3, <1>5, <2>1, <2>8, SettledStays
    <2>. QED BY <1>3, <2>9, <2>11, <2>12, <2>13
  <1>. QED BY <1>1, <1>3, <1>4, <1>5, RequestTame DEF Busy, PcSame

LEMMA GenerateTame ==
  ASSUME Basic, Tame, GenerateDev, ~excused' PROVE Calm'
  <1>1. /\ at[0] = "generate" /\ ~Up(0) /\ Calm
        /\ UNCHANGED <<map, log, setups, idle, stopped, restarted>>
    BY DEF GenerateDev, Tame, watching, history, Up
  <1>2. Nobody /\ ~stopped
    BY <1>1, NobodyIs DEF Calm, StopFine
  <1>3. CASE MoveTo(0, "launch") /\ alive' = alive \ {It.pid}
    <2>1. at'[0] = "launch" /\ PcSame
      BY <1>3, ZeroGoes DEF Places
    <2>2. ~Running' /\ Servers' \subseteq Servers
      BY <1>1, <1>3, FoundServer DEF Running, Servers
    <2>. QED BY <1>1, <1>2, <2>1, <2>2, NoneTame DEF PcSame, StopFine
  <1>4. CASE /\ MoveTo(0, "off") /\ alive' = alive
             /\ \/ saved' = State(It) /\ entry' = Aged(entry, request.entry)
                \/ saved' = saved /\ entry' = entry
    <2>1. at'[0] = "off" /\ PcSame
      BY <1>4, ZeroGoes DEF Places
    <2>2. SamePids /\ Aging
      BY <1>4, AgedOnly
    <2>3. Servers' = Servers /\ (Running' => Running) /\ StopFine'
      BY <1>1, <1>2, <1>4 DEF Running, Servers, StopFine
    <2>4. ASSUME Running' PROVE WellPlaced' /\ Named' /\ Olds' /\ Guarded'
      <3>1. Running /\ WellPlaced /\ Named /\ Olds /\ Guarded
        BY <1>1, <1>2, <2>3, <2>4, SettledIs
      <3>2. WellPlaced' /\ Olds' /\ Guarded'
        BY <1>1, <2>1, <2>2, <2>4, <3>1, SettledStays
      <3>3. It.pid = log
        BY <1>1, <3>1, FoundServer
      <3>4. State(It).pid = log
        BY <3>3 DEF State
      <3>5. Named'
        BY <1>1, <1>4, <3>1, <3>4 DEF Named
      <3>. QED BY <3>2, <3>5
    <2>. QED BY <1>1, <1>2, <2>1, <2>3, <2>4, RequestTame DEF Busy, PcSame
  <1>. QED BY <1>3, <1>4 DEF GenerateDev, Done

LEMMA BackgroundTame ==
  ASSUME Basic, Tame, Background, ~excused' PROVE Calm'
  <1>1. /\ at[0] = "background" /\ ~Up(0) /\ Calm /\ HasFresh
        /\ UNCHANGED <<log, stopped>>
    BY DEF Background, Tame, history, Up
  <1>2. Nobody /\ ~stopped /\ ~Running
    BY <1>1, NobodyIs, SettledIs DEF Calm, StopFine, Busy
  <1>3. \/ /\ alive' = alive \cup {born + 1} /\ setups' = setups \cup {born + 1}
        \/ UNCHANGED <<alive, setups>>
    BY DEF Background
  <1>4. log \in Nat /\ born \in Nat /\ log <= born
    BY DEF Basic, Numbered
  <1>5. Servers' \subseteq Servers /\ ~Running'
    BY <1>1, <1>2, <1>3, <1>4 DEF Servers, Running
  <1>6. Fresh \in Ids /\ Fresh # 0
    BY <1>1, FreshFree DEF Basic
  <1>7. PICK x \in {"prepare", "off"} : at' = [at EXCEPT ![0] = "off", ![Fresh] = x]
    BY DEF Background
  <1>8. at'[0] = "off" /\ \A i \in Ids : at'[i] = at[i] \/ at'[i] = x
    BY <1>6, <1>7, Limits DEF Basic, DevTyped, Runner
  <1>9. at[Fresh] = "off"
    BY <1>1, <1>6, FreshFree DEF Basic, ThreadFine, Used, Runner
  <1>10. \A i \in Ids : at'[i] = at[i] \/ at'[i] = "prepare"
    BY <1>6, <1>7, <1>9, Limits DEF Basic, DevTyped, Runner
  <1>. QED BY <1>1, <1>2, <1>5, <1>8, <1>10, NoneTame DEF StopFine

(* The scope settles on an entry: the server's, when there is one.         *)
LEMMA SettleTame ==
  ASSUME Basic, Calm, at[0] = "look", NEW i \in Ids, NEW es, NEW killed, Offered(i, es),
         Settle(i, es, killed),
         UNCHANGED <<log, setups, watching, history>>,
         \A j \in Ids : at[j] = "prepare" /\ entry[j].cancelled => es[j].cancelled,
         Running /\ log \notin killed =>
           /\ es[i].pid = log
           /\ \A j \in Ids : j # i => es[j].old = entry[j].old
           /\ (entry[i].pid = log /\ Mine = i) \/ entry[i].status = "free"
  PROVE  Calm'
  <1>1. /\ request.scope \in Scopes /\ es \in [Ids -> Entries] /\ Nobody /\ ~Up(0)
        /\ idle' = idle /\ stopped' = stopped /\ restarted' = restarted
    BY NobodyIs DEF Basic, RequestFine, Offered, Up, watching, history
  <1>2. /\ entry'[i] = Prepared(es[i])
        /\ \A j \in Ids : j # i => entry'[j] = es[j]
    BY <1>1, SettleFacts DEF Basic
  <1>3. /\ at'[0] \in {"reread", "answer", "http"}
        /\ \A j \in Ids : at'[j] = at[j]
        /\ alive' = alive \ killed
    BY <1>1, SettleFacts DEF Basic
  <1>4. PcSame /\ Servers' \subseteq Servers /\ (Running' => Running /\ log \notin killed)
    BY <1>3 DEF PcSame, Servers, Running
  <1>5. /\ es[i] \in Entries /\ Prepared(es[i]).cancelled = es[i].cancelled
        /\ Prepared(es[i]).pid = es[i].pid /\ Prepared(es[i]).scope = es[i].scope
    BY <1>1, Fields, PreparedTyped
  <1>6. StopFine'
    BY <1>1, <1>2, <1>3, <1>4, <1>5, StopStays
  <1>7. ASSUME Running'
        PROVE  at'[0] \notin Busy /\ OfServer(request)' /\ WellPlaced' /\ Named' /\ Olds' /\ Guarded'
    <2>1. Running /\ WellPlaced /\ Named /\ Olds /\ Guarded
      BY <1>1, <1>4, <1>7, SettledIs
    <2>2. /\ es[i].pid = log
          /\ \A j \in Ids : j # i => es[j].old = entry[j].old
          /\ (entry[i].pid = log /\ Mine = i) \/ entry[i].status = "free"
      BY <1>4, <1>7
    <2>3. es[i].status \in {"running", "stopping"} /\ es[i].scope = request.scope
      <3>1. es[i].status \in Statuses \cup {"free"} /\ ~Setup(log)
        BY <1>5, <2>1, Fields, LogIs
      <3>. QED BY <2>1, <2>2, <3>1 DEF Offered, KindOf, Over, Dead, Running, Statuses
    <2>4. Prepared(es[i]) = es[i] /\ Alive(es[i])
      BY <2>1, <2>2, <2>3 DEF Prepared, Alive, Terminal, Running
    <2>5. /\ map' = [map EXCEPT ![request.scope] = i] /\ saved' = saved
          /\ request' = [request EXCEPT !.entry = i] /\ MoveTo(0, "http")
      BY <2>3, <2>4 DEF Settle
    <2>6. /\ at'[0] = "http" /\ request'.entry = i /\ i # 0
          /\ map'[request.scope] = i /\ \A s \in Scopes : s # request.scope => map'[s] = map[s]
      BY <1>1, <2>5, ZeroGoes, Limits DEF Basic, DevTyped, Places
    <2>7. entry'[i].pid = log /\ entry'[i].scope = request.scope /\ entry'[i].status = es[i].status
      BY <1>2, <2>2, <2>3, <2>4
    <2>8. \A j \in Ids : j # i => /\ entry'[j].pid = entry[j].pid /\ entry'[j].scope = entry[j].scope
                                  /\ entry'[j].status = entry[j].status /\ entry'[j].old = entry[j].old
      BY <1>2, <2>2 DEF Offered
    <2>9. WellPlaced'
      <3>1. CASE entry[i].status = "free"
        BY <1>1, <1>3, <2>1, <2>6, <2>7, <2>8, <3>1, PlacedNew
      <3>2. CASE entry[i].pid = log /\ Mine = i
        <4>1. entry[i].scope = request.scope
          BY <1>1, <3>2, Limits DEF Basic, MapFine, Mine
        <4>2. SamePids
          BY <2>7, <2>8, <3>2, <4>1 DEF SamePids
        <4>3. \A s \in Scopes : map'[s] \in {0, map[s]}
          BY <2>6, <3>2 DEF Mine
        <4>. QED BY <1>3, <2>1, <4>2, <4>3, PlacedStays
      <3>. QED BY <2>2, <3>1, <3>2
    <2>10. Named'
      BY <2>1, <2>5 DEF Named
    <2>11. Olds'
      BY <2>1, <2>3, <2>7, <2>8 DEF Olds
    <2>12. Guarded'
      BY <1>1, <2>1, <2>7, <2>8 DEF Guarded
    <2>13. OfServer(request)'
      BY <2>6, <2>7 DEF OfServer
    <2>. QED BY <2>6, <2>9, <2>10, <2>11, <2>12, <2>13 DEF Busy
  <1>. QED BY <1>1, <1>3, <1>4, <1>6, <1>7, RequestTame

LEMMA LookTame ==
  ASSUME Basic, Tame, Look, ~excused' PROVE Calm'
  <1>1. /\ at[0] = "look" /\ request.scope \in Scopes /\ Calm /\ Nobody /\ ~Up(0)
        /\ UNCHANGED <<log, setups, watching, history>> /\ stopped' = stopped
    BY NobodyIs DEF Look, Basic, RequestFine, Tame, history, Up, Calm, OneLaunch, Nobody
  <1>2. Running => /\ saved.pid = log /\ saved # NoFile /\ log # 0 /\ log \in Nat
                   /\ saved.status \in {"running", "stopping"} /\ saved \in Records
    BY <1>1, SettledIs, LogIs DEF Named, NoFile, Basic, DevTyped
  <1>3. CASE MoveTo(0, "reread") /\ saved = NoFile /\ UNCHANGED <<entry, alive>>
    <2>1. at'[0] = "reread" /\ PcSame
      BY <1>3, ZeroGoes DEF Places
    <2>2. ~Running' /\ ~Running /\ Servers' = Servers
      BY <1>1, <1>2, <1>3 DEF Running, Servers
    <2>3. StopFine'
      BY <1>1, <1>3, <2>1, <2>2, StopStays
    <2>. QED BY <1>1, <2>1, <2>2, <2>3, NoneTame DEF PcSame
  <1>4. CASE SameProcess /\ \E es : /\ es = [entry EXCEPT ![Mine].status = saved.status,
                                                          ![Mine].reason = saved.reason,
                                                          ![Mine].old = FALSE]
                                    /\ Settle(Mine, es, {})
    <2>1. PICK es : /\ es = [entry EXCEPT ![Mine].status = saved.status,
                                          ![Mine].reason = saved.reason,
                                          ![Mine].old = FALSE]
                    /\ Settle(Mine, es, {})
      BY <1>4
    <2>2. /\ Offered(Mine, es) /\ Mine \in Ids
          /\ es[Mine].pid = entry[Mine].pid
          /\ \A j \in Ids : j # Mine => es[j] = entry[j]
      BY <1>1, <1>4, <2>1, RefreshedIs
    <2>3. es[Mine].cancelled = entry[Mine].cancelled
      BY <2>1, <2>2 DEF Basic, DevTyped, Entries, Wide
    <2>4. Running => entry[Mine].pid = log
      BY <1>2, <1>4 DEF SameProcess
    <2>5. \A j \in Ids : at[j] = "prepare" /\ entry[j].cancelled => es[j].cancelled
      BY <2>2, <2>3
    <2>6. Running => /\ es[Mine].pid = log
                     /\ \A j \in Ids : j # Mine => es[j].old = entry[j].old
                     /\ entry[Mine].pid = log
      BY <2>2, <2>4
    <2>. QED BY <1>1, <2>1, <2>2, <2>5, <2>6, SettleTame
  <1>5. CASE Mine # 0 /\ ~SameProcess /\ ~FileWins /\ Settle(Mine, entry, {})
    <2>1. Mine \in Ids /\ Offered(Mine, entry)
      BY <1>1, <1>5, KnownOffered
    <2>2. ASSUME Running PROVE FALSE
      <3> DEFINE l == Loaded(saved, request.scope)
                 c == entry[Mine]
      <3>1. l.pid = log /\ l.status \in {"running", "stopping"}
        BY <1>1, <1>2, <2>2, LoadedTyped
      <3>2. ~PersistedWins(c, l) /\ c.pid # log
        BY <1>2, <1>5, <2>2 DEF FileWins, SameProcess
      <3> HIDE DEF l
      <3>3. Alive(l)
        BY <2>2, <3>1 DEF Alive, Terminal, Running
      <3>4. Alive(c) /\ ~c.old
        BY <3>1, <3>2, <3>3 DEF PersistedWins
      <3>5. c.status \notin {"starting", "prepared"}
        BY <1>1, <2>1, <2>2, <3>4, SettledIs DEF Olds
      <3>6. c \in Entries /\ EntryFine(Mine) /\ c.status # "free" /\ c.pid \in Nat
        BY <2>1, Pids DEF Basic, DevTyped, Offered
      <3>7. c.pid \in alive /\ ~Terminal(c)
        BY <3>4, <3>5 DEF Alive
      <3>8. c.status \in {"running", "stopping"}
        BY <3>5, <3>6, <3>7 DEF Entries, Wide, Statuses, Terminal, EntryFine, Over, Dead
      <3>9. ~Setup(c.pid)
        BY <3>6, <3>8 DEF EntryFine, KindOf
      <3>. QED BY <1>1, <3>2, <3>6, <3>7, <3>9, AloneIs DEF Calm
    <2>. QED BY <1>1, <1>5, <2>1, <2>2, SettleTame
  <1>6. CASE FileWins /\ HasFresh /\ \E killed : /\ killed \subseteq (IF Superseded
                                                                    THEN {entry[Mine].pid} ELSE {})
                                                 /\ Settle(Fresh, Reconciled, killed)
    <2>1. PICK killed : /\ killed \subseteq (IF Superseded THEN {entry[Mine].pid} ELSE {})
                        /\ Settle(Fresh, Reconciled, killed)
      BY <1>6
    <2>2. /\ Offered(Fresh, Reconciled) /\ Fresh \in Ids
          /\ Reconciled[Fresh] = Loaded(saved, request.scope)
          /\ \A j \in Ids : j # Fresh => /\ Reconciled[j].old = entry[j].old
                                         /\ entry[j].cancelled => Reconciled[j].cancelled
      BY <1>1, <1>6, ReconciledIs
    <2>3. entry[Fresh].status = "free" /\ at[Fresh] = "off"
      BY <1>6, <2>2, FreshFree DEF Basic, ThreadFine, Used, Runner
    <2>4. Running => Reconciled[Fresh].pid = log
      <3>1. saved \in Records
        BY DEF Basic, DevTyped
      <3>2. Loaded(saved, request.scope).pid = saved.pid
        BY <1>1, <3>1, LoadedTyped
      <3>. QED BY <1>2, <2>2, <3>2
    <2>5. \A j \in Ids : at[j] = "prepare" /\ entry[j].cancelled => Reconciled[j].cancelled
      BY <2>2, <2>3
    <2>. QED BY <1>1, <2>1, <2>2, <2>3, <2>4, <2>5, SettleTame
  <1>7. \/ MoveTo(0, "reread") /\ saved = NoFile /\ UNCHANGED <<entry, alive>>
        \/ SameProcess /\ Settle(Mine, [entry EXCEPT ![Mine].status = saved.status,
                                                     ![Mine].reason = saved.reason,
                                                     ![Mine].old = FALSE], {})
        \/ Mine # 0 /\ ~SameProcess /\ ~FileWins /\ Settle(Mine, entry, {})
        \/ FileWins /\ HasFresh /\ Settle(Fresh, Reconciled,
                                          IF Superseded /\ entry[Mine].own THEN {entry[Mine].pid} ELSE {})
    BY DEF Look
  <1>8. (IF Superseded /\ entry[Mine].own THEN {entry[Mine].pid} ELSE {})
          \subseteq (IF Superseded THEN {entry[Mine].pid} ELSE {})
    OBVIOUS
  <1>. QED BY <1>3, <1>4, <1>5, <1>6, <1>7, <1>8

LEMMA HttpTame ==
  ASSUME Basic, Tame, Http, ~excused' PROVE Calm'
  <1>1. /\ at[0] = "http" /\ Calm /\ Nobody /\ ~Up(0)
        /\ UNCHANGED <<log, setups, stopped, restarted>>
    BY NobodyIs DEF Http, Tame, history, Up, Calm, OneLaunch, Nobody
  <1>2. PICK i \in Ids : i = request.entry
    BY <1>1 DEF Basic, RequestFine, DevTyped
  <1>3. request.scope \in Scopes /\ i # 0 /\ entry[i] \in Entries /\ Used(i) /\ EntryFine(i)
        /\ (Running => entry[i].pid = log)
    BY <1>1, <1>2, Limits, SettledIs DEF Basic, RequestFine, DevTyped, OfServer
  <1>4. CASE /\ entry' = [entry EXCEPT ![i].watched = @ \/ entry[i].status = "running"]
             /\ \A j \in Ids : idle[j] # "off" => idle'[j] # "off"
             /\ MoveTo(0, "answer")
             /\ UNCHANGED <<map, saved, alive, request>>
    <2> DEFINE k == entry[i].watched \/ entry[i].status = "running"
               r == [entry[i] EXCEPT !.watched = k]
    <2>1. k \in BOOLEAN
      BY <1>3 DEF Entries, Wide
    <2>2. entry' = [entry EXCEPT ![i] = r]
      BY <1>3, <1>4
    <2> HIDE DEF k
    <2>3. /\ r \in Entries /\ r.status = entry[i].status /\ r.pid = entry[i].pid
          /\ r.scope = entry[i].scope /\ r.cancelled = entry[i].cancelled /\ r.old = entry[i].old
      BY <1>3, <2>1 DEF Entries, Wide
    <2> HIDE DEF r
    <2>4. \A j \in Ids : /\ entry'[j].status = entry[j].status /\ entry'[j].pid = entry[j].pid
                         /\ entry'[j].scope = entry[j].scope /\ entry'[j].old = entry[j].old
                         /\ entry'[j].cancelled = entry[j].cancelled
      BY <2>2, <2>3 DEF Basic, DevTyped
    <2>5. SamePids /\ Aging
      BY <2>4 DEF SamePids, Aging
    <2>6. at'[0] = "answer" /\ PcSame
      BY <1>4, ZeroGoes DEF Places
    <2>7. Servers' = Servers /\ (Running' => Running)
      BY <1>1, <1>4 DEF Servers, Running
    <2>8. StopFine'
      BY <1>1, <2>4, <2>6, <2>7, StopStays
    <2>9. ASSUME Running' PROVE OfServer(request)' /\ WellPlaced' /\ Named' /\ Olds' /\ Guarded'
      <3>1. Running /\ WellPlaced /\ Named /\ Olds /\ Guarded
        BY <1>1, <2>7, <2>9, SettledIs
      <3>2. WellPlaced' /\ Olds' /\ Guarded'
        BY <1>1, <1>4, <2>5, <2>6, <2>9, <3>1, SettledStays
      <3>3. Named'
        BY <1>1, <1>4, <3>1 DEF Named
      <3>4. OfServer(request)'
        BY <1>1, <1>2, <1>3, <1>4, <2>4, <3>1 DEF OfServer
      <3>. QED BY <3>2, <3>3, <3>4
    <2>. QED BY <1>1, <2>6, <2>7, <2>8, <2>9, RequestTame DEF PcSame, Busy
  <1>5. CASE \E route \in BOOLEAN :
               LET kill == entry[i].own \/ ~route
               IN /\ entry' = IF kill THEN [entry EXCEPT ![i] = Destroyed(@, "other")] ELSE entry
                  /\ alive' = IF kill THEN alive \ {entry[i].pid} ELSE alive
                  /\ MoveTo(0, IF route THEN "reread" ELSE "answer")
                  /\ map' = [map EXCEPT ![request.scope] = 0] /\ saved' = NoFile /\ idle' = idle
    <2>1. PICK route \in BOOLEAN, kill \in BOOLEAN :
            /\ ~route => kill
            /\ entry' = IF kill THEN [entry EXCEPT ![i] = Destroyed(entry[i], "other")] ELSE entry
            /\ alive' = IF kill THEN alive \ {entry[i].pid} ELSE alive
            /\ MoveTo(0, IF route THEN "reread" ELSE "answer")
            /\ map' = [map EXCEPT ![request.scope] = 0] /\ saved' = NoFile /\ idle' = idle
      <3>1. PICK route \in BOOLEAN :
              LET kill == entry[i].own \/ ~route
              IN /\ entry' = IF kill THEN [entry EXCEPT ![i] = Destroyed(@, "other")] ELSE entry
                 /\ alive' = IF kill THEN alive \ {entry[i].pid} ELSE alive
                 /\ MoveTo(0, IF route THEN "reread" ELSE "answer")
                 /\ map' = [map EXCEPT ![request.scope] = 0] /\ saved' = NoFile /\ idle' = idle
        BY <1>5
      <3>2. (entry[i].own \/ ~route) \in BOOLEAN /\ (~route => entry[i].own \/ ~route)
        OBVIOUS
      <3>. QED BY <1>3, <3>1, <3>2
    <2>2. /\ Destroyed(entry[i], "other").pid = entry[i].pid
          /\ Destroyed(entry[i], "other").scope = entry[i].scope
          /\ Destroyed(entry[i], "other").cancelled
      BY <1>3, DestroyedTyped DEF Reasons
    <2>3. \A j \in Ids : entry[j].cancelled => entry'[j].cancelled
      BY <2>1, <2>2 DEF Basic, DevTyped
    <2>4. PICK x \in {"reread", "answer"} : MoveTo(0, x) /\ (route => x = "reread")
      BY <2>1
    <2>5. at'[0] = x /\ PcSame
      BY <2>4, ZeroGoes DEF Places
    <2>6. Servers' \subseteq Servers /\ (Running' => Running /\ ~kill)
      BY <1>1, <1>3, <2>1 DEF Servers, Running
    <2>7. StopFine'
      BY <1>1, <2>3, <2>5, <2>6, StopStays
    <2>8. ASSUME Running' PROVE at'[0] = "reread" /\ WellPlaced' /\ Named' /\ Olds' /\ Guarded'
      <3>1. Running /\ WellPlaced /\ Named /\ Olds /\ Guarded /\ ~kill
        BY <1>1, <2>6, <2>8, SettledIs
      <3>2. entry' = entry /\ at'[0] = "reread"
        BY <2>1, <2>4, <2>5, <3>1
      <3>3. SamePids /\ Aging
        BY <3>2, AgedOnly
      <3>4. \A s \in Scopes : map'[s] \in {0, map[s]}
        BY <2>1 DEF Basic, DevTyped
      <3>5. WellPlaced' /\ Olds' /\ Guarded'
        BY <1>1, <2>1, <2>5, <2>8, <3>1, <3>3, <3>4, SettledStays
      <3>6. Named'
        BY <2>1, <3>2 DEF Named, NoFile
      <3>. QED BY <3>2, <3>5, <3>6
    <2>. QED BY <1>1, <2>4, <2>5, <2>6, <2>7, <2>8, RequestTame DEF PcSame, Busy
  <1>6. \/ /\ entry' = [entry EXCEPT ![i].watched = @ \/ entry[i].status = "running"]
           /\ idle' = IF ~entry[i].watched /\ entry[i].status = "running"
                      THEN [idle EXCEPT ![i] = "top"] ELSE idle
           /\ MoveTo(0, "answer")
           /\ UNCHANGED <<map, saved, alive, request>>
        \/ \E route \in BOOLEAN :
               LET kill == entry[i].own \/ ~route
               IN /\ entry' = IF kill THEN [entry EXCEPT ![i] = Destroyed(@, "other")] ELSE entry
                  /\ alive' = IF kill THEN alive \ {entry[i].pid} ELSE alive
                  /\ MoveTo(0, IF route THEN "reread" ELSE "answer")
                  /\ map' = [map EXCEPT ![request.scope] = 0] /\ saved' = NoFile /\ idle' = idle
    BY <1>2 DEF Http
  <1>7. (idle' = IF ~entry[i].watched /\ entry[i].status = "running"
                 THEN [idle EXCEPT ![i] = "top"] ELSE idle)
          => \A j \in Ids : idle[j] # "off" => idle'[j] # "off"
    BY DEF Basic, DevTyped
  <1>. QED BY <1>4, <1>5, <1>6, <1>7

(* The scope adopts a fresh entry: of the server, when there is one.       *)
LEMMA AdoptTame ==
  ASSUME Basic, Calm, at[0] = "reread", NEW i \in Ids, entry[i].status = "free",
         NEW e \in Entries, e.scope = request.scope, Adopt(i, e), MoveTo(0, "answer"),
         UNCHANGED <<log, setups, stopped, restarted>>,
         Running => /\ e.pid = log /\ e.status \notin {"starting", "prepared"}
                    /\ saved'.pid = log
  PROVE  Calm'
  <1> DEFINE k == e.status = "running"
             r == [e EXCEPT !.watched = k]
  <1>1. /\ entry' = [entry EXCEPT ![i] = r] /\ alive' = alive /\ map' = [map EXCEPT ![request.scope] = i]
        /\ request' = [request EXCEPT !.entry = i]
        /\ \A j \in Ids : idle[j] # "off" => idle'[j] # "off"
    BY DEF Adopt, Basic, DevTyped
  <1>2. r \in Entries /\ r.status = e.status /\ r.pid = e.pid /\ r.scope = e.scope
    BY DEF Entries, Wide
  <1> HIDE DEF r
  <1>3. entry'[i] = r /\ \A j \in Ids : j # i => entry'[j] = entry[j]
    BY <1>1 DEF Basic, DevTyped
  <1>4. at'[0] = "answer" /\ PcSame
    BY ZeroGoes DEF Places
  <1>5. Nobody /\ ~Up(0) /\ request.scope \in Scopes /\ i # 0 /\ at[i] = "off"
    BY NobodyIs, Limits DEF Up, Basic, RequestFine, ThreadFine, Used, Runner
  <1>6. Servers' = Servers /\ (Running' => Running)
    BY <1>1 DEF Servers, Running
  <1>7. StopFine'
    BY <1>3, <1>4, <1>5, <1>6, StopStays
  <1>8. ASSUME Running' PROVE OfServer(request)' /\ WellPlaced' /\ Named' /\ Olds' /\ Guarded'
    <2>1. Running /\ WellPlaced /\ Named /\ Olds /\ Guarded
      BY <1>5, <1>6, <1>8, SettledIs
    <2>2. entry'[i].pid = log /\ entry'[i].scope = request.scope
      BY <1>2, <1>3, <2>1
    <2>3. map'[request.scope] = i /\ \A t \in Scopes : t # request.scope => map'[t] = map[t]
      BY <1>1, <1>5 DEF Basic, DevTyped
    <2>4. WellPlaced'
      BY <1>3, <1>4, <1>5, <2>1, <2>2, <2>3, PlacedNew DEF PcSame
    <2>5. Olds'
      BY <1>2, <1>3, <2>1 DEF Olds
    <2>6. Guarded'
      BY <1>1, <1>3, <2>1, <2>2 DEF Guarded
    <2>7. request'.entry = i
      BY <1>1 DEF Basic, DevTyped
    <2>. QED BY <1>5, <2>1, <2>2, <2>4, <2>5, <2>6, <2>7 DEF OfServer, Named
  <1>. QED BY <1>4, <1>5, <1>6, <1>7, <1>8, RequestTame DEF PcSame, Busy

LEMMA RereadTame ==
  ASSUME Basic, Tame, Reread, ~excused' PROVE Calm'
  <1> DEFINE e == Prepared(Loaded(saved, request.scope))
             logged == [e EXCEPT !.pid = log, !.status = "running", !.reason = "none"]
             pending == e.status \in {"starting", "prepared"}
  <1>1. /\ at[0] = "reread" /\ MoveTo(0, "answer") /\ Calm /\ Nobody /\ ~Up(0)
        /\ UNCHANGED <<log, setups, stopped, restarted>>
    BY NobodyIs DEF Reread, Tame, history, Up, Calm, OneLaunch, Nobody
  <1>2. /\ e.scope = request.scope /\ e.pid = saved.pid /\ e \in Wide
        /\ e.status \in Over => e.pid \notin alive
        /\ e.status = saved.status \/ (saved.status = "starting" /\ e.status = "prepared")
    BY <1>1, RereadFinds
  <1>3. log # 0 => /\ logged \in Entries /\ logged.status = "running" /\ logged.pid = log
                   /\ logged.scope = request.scope
    BY <1>1, RereadFinds
  <1>4. State(logged).pid = logged.pid
    BY DEF State
  <1>5. log # 0 => State(logged).pid = log
    BY <1>3, <1>4
  <1>6. 0 \notin alive
    BY DEF Basic, Numbered
  <1>7. \/ /\ pending \/ (~Terminal(e) /\ e.pid \in alive)
           /\ HasFresh /\ Adopt(Fresh, e) /\ saved' = saved
        \/ /\ log \in alive
           /\ HasFresh /\ Adopt(Fresh, logged) /\ saved' = State(logged)
        \/ log \notin alive' /\ alive' \subseteq alive /\ entry' = entry
        \/ Terminal(e) /\ alive' = alive /\ entry' = entry
    BY DEF Reread
  <1> HIDE DEF e, logged
  <1>8. CASE /\ pending \/ (~Terminal(e) /\ e.pid \in alive)
             /\ HasFresh /\ Adopt(Fresh, e) /\ saved' = saved
    <2>1. Fresh \in Ids /\ entry[Fresh].status = "free"
      BY <1>8, FreshFree DEF Basic
    <2>2. e.status # "absent"
      BY <1>2, <1>6, <1>8 DEF Basic, FileFine, NoFile
    <2>3. e \in Entries
      BY <1>2, <2>2 DEF Entries
    <2>4. ASSUME Running PROVE e.pid = log /\ e.status \notin {"starting", "prepared"} /\ saved'.pid = log
      <3>1. Named
        BY <1>1, <2>4, SettledIs
      <3>2. saved.pid = log => saved.status \in {"running", "stopping"}
        BY <2>4, LogIs
      <3>3. saved.status \notin {"absent", "failed"}
        BY <1>2, <1>8, <2>2 DEF Over
      <3>. QED BY <1>2, <1>8, <3>1, <3>2, <3>3 DEF Named
    <2>. QED BY <1>1, <1>2, <1>8, <2>1, <2>3, <2>4, AdoptTame
  <1>9. CASE log \in alive /\ HasFresh /\ Adopt(Fresh, logged) /\ saved' = State(logged)
    <2>1. Fresh \in Ids /\ entry[Fresh].status = "free" /\ log # 0
      BY <1>6, <1>9, FreshFree DEF Basic
    <2>. QED BY <1>1, <1>3, <1>5, <1>9, <2>1, AdoptTame
  <1>10. CASE \/ log \notin alive' /\ alive' \subseteq alive /\ entry' = entry
              \/ Terminal(e) /\ alive' = alive /\ entry' = entry
    <2>1. at'[0] = "answer" /\ PcSame
      BY <1>1, ZeroGoes DEF Places
    <2>2. ASSUME Terminal(e), Running PROVE FALSE
      <3>1. Named
        BY <1>1, <2>2, SettledIs
      <3>2. saved.pid = log => saved.status \in {"running", "stopping"}
        BY <2>2, LogIs
      <3>. QED BY <1>2, <2>2, <3>1, <3>2 DEF Named, Terminal
    <2>3. ~Running' /\ Servers' \subseteq Servers
      BY <1>1, <1>10, <2>2 DEF Running, Servers
    <2>4. StopFine'
      BY <1>1, <1>10, <2>1, <2>3, StopStays
    <2>. QED BY <1>1, <2>1, <2>3, <2>4, NoneTame DEF PcSame
  <1>. QED BY <1>7, <1>8, <1>9, <1>10

-----------------------------------------------------------------------------
(* The launches: one at a time, and no other server runs meanwhile.        *)
LEMMA OnlyOne ==
  ASSUME Calm, NEW w \in Runner, Launching(w)
  PROVE  /\ ~stopped /\ \A v \in Runner : v # w => ~Launching(v)
         /\ w # 0 => at[0] = "off"
  <1>1. at[0] # "off" => Nobody
    BY NobodyIs
  <1>2. w # 0 => w \in Ids /\ at[0] = "off"
    BY <1>1 DEF Runner, Nobody
  <1>3. \A v \in Runner : v # w => ~Launching(v)
    BY <1>1, <1>2 DEF Calm, OneLaunch, Runner, Launching, Nobody
  <1>4. ~stopped
    BY <1>2 DEF Calm, StopFine, Launching, Runner
  <1>. QED BY <1>2, <1>3, <1>4

LEMMA LaunchTame ==
  ASSUME Basic, Calm, NEW w \in Runner, Launching(w), stopped' = stopped, Alone',
         NEW x \in {"ready", "publish", "record", "failed", "off"}, MoveTo(w, x),
         x \in {"ready", "publish"} => launched'[w] = log',
         x = "record" => entry'[launched'[w]].pid = log',
         x = "failed" => ~Running',
         Running' => /\ WellPlaced'
                     /\ x \in {"ready", "publish", "record"} \/ (Named' /\ Olds' /\ Guarded')
  PROVE  Calm'
  <1>1. /\ ~stopped /\ \A v \in Runner : v # w => ~Launching(v)
        /\ w # 0 => at[0] = "off"
    BY OnlyOne
  <1>2. x \in Places
    BY DEF Places
  <1>3. at'[w] = x /\ \A v \in Runner : v # w => at'[v] = at[v]
    BY <1>2, Moved DEF Basic
  <1>4. \A v \in Runner : v # w => ~(Launching(v))' /\ ~(Up(v))'
    BY <1>1, <1>3 DEF Launching, Up
  <1>5. 0 \in Runner /\ \A i \in Ids : i \in Runner /\ i # 0
    BY Limits DEF Runner
  <1>6. OneLaunch'
    BY <1>1, <1>3, <1>4, <1>5 DEF OneLaunch
  <1>7. MadeFine'
    BY <1>3, <1>4 DEF MadeFine, Up
  <1>8. StopFine'
    BY <1>1 DEF StopFine
  <1>9. ASSUME Running' PROVE RunningFine'
    <2>1. \A i \in Ids : at'[i] # "launch"
      BY <1>3, <1>4, <1>5 DEF Launching
    <2>2. at'[0] \notin Busy /\ at'[0] \notin {"http", "answer", "generate"}
      BY <1>1, <1>3, <1>5, <1>9 DEF Busy
    <2>3. Rising' \/ (Named' /\ Olds' /\ Guarded')
      BY <1>3, <1>9 DEF Rising, Up
    <2>. QED BY <1>9, <2>1, <2>2, <2>3 DEF RunningFine
  <1>. QED BY <1>6, <1>7, <1>8, <1>9 DEF Calm

LEMMA StartsTame ==
  ASSUME Basic, Tame, NEW w \in Runner, LaunchVite(w), ~excused' PROVE Calm'
  <1>1. /\ at[w] = "launch" /\ Launching(w) /\ Calm /\ MoveTo(w, "ready")
        /\ log' = born + 1 /\ alive' = alive \cup {born + 1} /\ launched' = [launched EXCEPT ![w] = born + 1]
        /\ UNCHANGED <<entry, setups, stopped>>
    BY DEF LaunchVite, Tame, Launching, history
  <1>2. ~Running
    <2>1. w = 0 \/ w \in Ids
      BY DEF Runner
    <2>. QED BY <1>1, <2>1 DEF Calm, RunningFine, Busy
  <1>3. Alone'
    BY <1>1, <1>2 DEF Calm, Alone, Servers, Running
  <1>4. launched'[w] = log'
    BY <1>1 DEF Basic, DevTyped
  <1>5. \A j \in Ids : entry'[j].pid # log'
    <2>1. born \in Nat /\ \A j \in Ids : entry[j].pid \in Nat /\ entry[j].pid <= born
      BY Pids
    <2>. QED BY <1>1, <2>1
  <1>6. WellPlaced'
    BY <1>5 DEF WellPlaced, Apart, Current
  <1>. QED BY <1>1, <1>3, <1>4, <1>6, LaunchTame

LEMMA ReadyTame ==
  ASSUME Basic, Tame, NEW w \in Runner, Ready(w), ~excused' PROVE Calm'
  <1>1. /\ at[w] = "ready" /\ Launching(w) /\ Calm
        /\ UNCHANGED <<entry, map, log, setups, stopped>>
        /\ \/ MoveTo(w, "publish") /\ UNCHANGED <<alive, launched>>
           \/ alive' = alive \ {launched[w]} /\ MoveTo(w, "failed")
    BY DEF Ready, Tame, Launching, history
  <1>2. launched[w] = log
    BY <1>1 DEF Calm, MadeFine
  <1>3. Alone' /\ (Running' => Running)
    BY <1>1 DEF Calm, Alone, Servers, Running
  <1>4. CASE MoveTo(w, "publish") /\ UNCHANGED <<alive, launched>>
    <2>1. \A i \in Ids : at'[i] = "prepare" => at[i] = "prepare"
      BY <1>4, Moved DEF Basic, Runner, Places
    <2>2. Running' => WellPlaced'
      BY <1>1, <1>3, <2>1, PlacedStays DEF SamePids, Calm, RunningFine
    <2>. QED BY <1>1, <1>2, <1>3, <1>4, <2>2, LaunchTame
  <1>5. CASE alive' = alive \ {launched[w]} /\ MoveTo(w, "failed")
    <2>1. ~Running'
      BY <1>1, <1>2, <1>5 DEF Running
    <2>. QED BY <1>1, <1>3, <1>5, <2>1, LaunchTame
  <1>. QED BY <1>1, <1>4, <1>5

LEMMA PublishTame ==
  ASSUME Basic, Tame, NEW w \in Runner, PublishEntry(w), ~excused' PROVE Calm'
  <1>1. /\ at[w] = "publish" /\ Launching(w) /\ Calm /\ HasFresh /\ MoveTo(w, "record")
        /\ UNCHANGED <<log, alive, setups, stopped>>
    BY DEF PublishEntry, Tame, Launching, history, processes
  <1>2. launched[w] = log
    BY <1>1 DEF Calm, MadeFine
  <1>3. Alone' /\ (Running' => Running)
    BY <1>1 DEF Calm, Alone, Servers, Running
  <1>4. PICK f \in Ids : f = Fresh /\ entry[f].status = "free"
    BY <1>1, FreshFree DEF Basic
  <1>5. PICK s \in Scopes : s = Scp(w)
    <2>1. CASE w = 0
      BY <1>1, <2>1 DEF Scp, Basic, RequestFine
    <2>2. CASE w # 0
      BY <1>1, <2>2 DEF Scp, Basic, ThreadFine, EntryFine, Runner
    <2>. QED BY <2>1, <2>2
  <1>6. /\ entry' = [entry EXCEPT ![f] = [Free EXCEPT !.status = "running", !.pid = log, !.own = TRUE,
                                                      !.scope = s, !.watched = TRUE]]
        /\ map' = [map EXCEPT ![s] = f] /\ launched' = [launched EXCEPT ![w] = f]
    BY <1>2, <1>4, <1>5 DEF PublishEntry
  <1> DEFINE r == [Free EXCEPT !.status = "running", !.pid = log, !.own = TRUE,
                               !.scope = s, !.watched = TRUE]
  <1>7. r.pid = log /\ r.scope = s
    BY DEF Free
  <1> HIDE DEF r
  <1>8. entry' = [entry EXCEPT ![f] = r]
    BY <1>6 DEF r
  <1>9. /\ entry'[f].pid = log /\ entry'[f].scope = s
        /\ \A j \in Ids : j # f => entry'[j] = entry[j]
    BY <1>7, <1>8 DEF Basic, DevTyped
  <1>10. /\ map'[s] = f /\ \A t \in Scopes : t # s => map'[t] = map[t]
         /\ launched'[w] = f
    BY <1>6 DEF Basic, DevTyped
  <1>11. \A i \in Ids : at'[i] = "prepare" => at[i] = "prepare"
    BY <1>1, Moved DEF Basic, Runner, Places
  <1>12. Running' => WellPlaced'
    BY <1>1, <1>3, <1>4, <1>9, <1>10, <1>11, PlacedNew DEF Calm, RunningFine
  <1>. QED BY <1>1, <1>3, <1>9, <1>10, <1>12, LaunchTame

LEMMA RecordTame ==
  ASSUME Basic, Tame, NEW w \in Runner, Record(w), ~excused' PROVE Calm'
  <1>1. /\ at[w] = "record" /\ Launching(w) /\ Calm /\ MoveTo(w, "off")
        /\ UNCHANGED <<map, log, alive, setups, stopped, restarted>>
    BY DEF Record, Tame, Launching, history, processes
  <1>2. PICK i \in Ids : i = launched[w] /\ entry[i].pid = log
    BY <1>1 DEF Calm, MadeFine, Basic, ThreadFine
  <1>3. /\ saved' = State(entry[i]) /\ entry' = Aged(entry, i) /\ idle' = [idle EXCEPT ![i] = "top"]
    BY <1>2 DEF Record
  <1>4. Alone' /\ (Running' => Running)
    BY <1>1 DEF Calm, Alone, Servers, Running
  <1>5. ASSUME Running' PROVE WellPlaced' /\ Named' /\ Olds' /\ Guarded'
    <2>1. Running /\ WellPlaced
      BY <1>1, <1>4, <1>5 DEF Calm, RunningFine
    <2>2. SamePids /\ Aging
      BY <1>3, AgedOnly
    <2>3. \A j \in Ids : at'[j] = "prepare" => at[j] = "prepare"
      BY <1>1, Moved DEF Basic, Runner, Places
    <2>4. WellPlaced'
      BY <1>1, <2>1, <2>2, <2>3, PlacedStays
    <2>5. saved'.pid = log
      BY <1>2, <1>3 DEF State
    <2>6. entry[i].status \in {"running", "stopping"}
      BY <1>2, <2>1, LogIs
    <2>7. \A j \in Ids : /\ entry'[j].status = entry[j].status
                         /\ j # i /\ entry[j].status # "free" => entry'[j].old
      BY <1>3, AgedTyped DEF Basic, DevTyped
    <2>8. Olds'
      BY <2>6, <2>7 DEF Olds
    <2>9. Guarded'
      <3>1. idle'[i] = "top" /\ entry'[i].pid = log
        BY <1>2, <1>3, <2>2 DEF Basic, DevTyped, SamePids
      <3>. QED BY <1>1, <3>1 DEF Guarded
    <2>. QED BY <1>1, <2>4, <2>5, <2>8, <2>9 DEF Named
  <1>. QED BY <1>1, <1>4, <1>5, LaunchTame

(* A thread of an entry ends, and the server is left as it is.             *)
LEMMA EndsTame ==
  ASSUME Basic, Calm, NEW i \in Ids, at[i] \in {"prepare", "failed"}, MoveTo(i, "off"), SamePids, Aging,
         UNCHANGED <<map, log, alive, setups, launched, idle, request, stopped, restarted>>,
         Running /\ Named => Named'
  PROVE  Calm'
  <1>1. 0 \in Runner /\ i \in Runner /\ i # 0 /\ \A j \in Ids : j # 0 /\ j \in Runner
    BY Limits DEF Runner
  <1>2. at'[i] = "off" /\ \A v \in Runner : v # i => at'[v] = at[v]
    BY <1>1, Moved DEF Basic, Places
  <1>3. \A v \in Runner : (Launching(v)' => Launching(v)) /\ (Up(v)' <=> Up(v))
    BY <1>2 DEF Launching, Up
  <1>4. OneLaunch'
    BY <1>1, <1>2, <1>3 DEF Calm, OneLaunch
  <1>5. Alone' /\ (Running' <=> Running)
    BY DEF Calm, Alone, Servers, Running
  <1>6. MadeFine'
    <2> SUFFICES ASSUME NEW w \in Runner, w # i
                 PROVE  /\ at[w] \in {"ready", "publish"} => launched[w] = log
                        /\ at[w] = "record" => entry'[launched[w]].pid = log
      BY <1>2 DEF MadeFine
    <2>1. at[w] = "record" => launched[w] \in Ids
      BY DEF Basic, ThreadFine
    <2>. QED BY <2>1 DEF Calm, MadeFine, SamePids
  <1>7. StopFine'
    BY <1>1, <1>2, <1>5 DEF Calm, StopFine, Aging
  <1>8. ASSUME Running' PROVE RunningFine'
    <2>1. Running /\ RunningFine
      BY <1>5, <1>8 DEF Calm
    <2>2. \A j \in Ids : at'[j] = "prepare" => at[j] = "prepare"
      BY <1>1, <1>2
    <2>3. WellPlaced'
      BY <2>1, <2>2, PlacedStays DEF RunningFine
    <2>4. Rising' <=> Rising
      BY <1>3 DEF Rising
    <2>5. at'[0] = at[0] /\ \A j \in Ids : at'[j] # "launch"
      BY <1>1, <1>2, <2>1 DEF RunningFine
    <2>6. Olds /\ Guarded => Olds' /\ Guarded'
      BY DEF Olds, Guarded, Aging, SamePids
    <2>7. at[0] \in {"http", "answer", "generate"} => request.entry # 0 /\ entry'[request.entry].pid = log
      <3>1. request.entry \in {0} \cup Ids
        BY DEF Basic, DevTyped
      <3>. QED BY <2>1, <3>1 DEF RunningFine, SamePids
    <2>. QED BY <2>1, <2>3, <2>4, <2>5, <2>6, <2>7 DEF RunningFine
  <1>. QED BY <1>4, <1>5, <1>6, <1>7, <1>8 DEF Calm

LEMMA LaunchFailsTame ==
  ASSUME Basic, Tame, NEW w \in Runner, LaunchFails(w), ~excused' PROVE Calm'
  <1>1. /\ at[w] = "failed" /\ MoveTo(w, "off")
        /\ UNCHANGED <<log, alive, setups, launched, idle, stopped, restarted>>
    BY DEF LaunchFails, processes, watching
  <1>2. CASE w = 0
    <2>1. Calm
      <3>1. UNCHANGED excused
        BY <1>2 DEF LaunchFails
      <3>. QED BY <3>1 DEF Tame
    <2>2. Nobody /\ ~Up(0)
      BY <1>1, <1>2, <2>1, NobodyIs DEF Up
    <2>3. ~Running' /\ Servers' = Servers /\ ~stopped'
      BY <1>1, <1>2, <2>1, <2>2, SettledIs DEF Running, Servers, Calm, StopFine, Busy
    <2>4. at'[0] = "off" /\ PcSame
      BY <1>1, <1>2, ZeroGoes DEF Places
    <2>. QED BY <1>1, <1>2, <2>1, <2>3, <2>4, NoneTame DEF PcSame, StopFine
  <1>3. CASE w # 0
    <2>1. w \in Ids /\ Used(w) /\ Setup(entry[w].pid) /\ entry[w] \in Entries
      BY <1>1, <1>3 DEF Runner, Basic, ThreadFine, DevTyped
    <2> DEFINE r == [entry[w] EXCEPT !.status = "failed"]
    <2>2. /\ entry' = Aged([entry EXCEPT ![w] = r], w) /\ saved' = State(r)
          /\ excused' = Overwrites(entry[w].pid) /\ UNCHANGED <<map, request>>
      BY <1>3 DEF LaunchFails
    <2>3. /\ r \in Entries /\ r.status = "failed" /\ r.pid = entry[w].pid
          /\ r.scope = entry[w].scope /\ r.cancelled = entry[w].cancelled
      BY <2>1 DEF Entries, Wide, Statuses
    <2> HIDE DEF r
    <2>4. SamePids /\ Aging
      BY <2>1, <2>2, <2>3, AgedBut
    <2>5. Calm /\ (Running => saved.pid = entry[w].pid)
      BY <2>2, NotExcused DEF Tame
    <2>6. at'[0] = at[0]
      BY <1>1, <1>3, Moved DEF Basic, Runner, Places
    <2>7. saved'.status = "failed"
      BY <2>2, <2>3 DEF State
    <2>8. Running /\ Named => Named'
      BY <2>1, <2>5, <2>6, <2>7, LogIs DEF Named
    <2>. QED BY <1>1, <2>1, <2>2, <2>4, <2>5, <2>8, EndsTame
  <1>. QED BY <1>2, <1>3

LEMMA ActivateTame ==
  ASSUME Basic, Tame, NEW i \in Ids, Activate(i), ~excused' PROVE Calm'
  <1>1. i \in Runner /\ i # 0 /\ 0 \in Runner /\ \A j \in Ids : j \in Runner /\ j # 0
    BY Limits DEF Runner
  <1>2. entry[i] \in Entries /\ Used(i) /\ entry[i].scope \in Scopes
    BY <1>1 DEF Basic, DevTyped, ThreadFine, Activate, EntryFine
  <1> DEFINE e == Prepared(entry[i])
             go == ~e.cancelled /\ e.status = "prepared" /\ ~e.act /\ map[e.scope] = i
  <1>3. /\ at[i] = "prepare" /\ entry' = [entry EXCEPT ![i] = [e EXCEPT !.act = @ \/ go]]
        /\ MoveTo(i, IF go THEN "launch" ELSE "off") /\ Calm /\ (go => ~Unseen(i))
        /\ UNCHANGED <<map, saved, log, alive, setups, idle, request, launched, stopped, restarted>>
    BY DEF Activate, processes, watching, Tame
  <1>4. /\ e \in Wide /\ e.pid = entry[i].pid /\ e.scope = entry[i].scope
        /\ e.cancelled = entry[i].cancelled /\ e.old = entry[i].old
        /\ \/ e.status = entry[i].status
           \/ entry[i].status = "starting" /\ e.status \in {"prepared", "stopped", "failed"}
    BY <1>2, Fields, PreparedTyped
  <1>5. e \in Entries
    BY <1>2, <1>4 DEF Entries
  <1>6. PICK k \in BOOLEAN : entry' = [entry EXCEPT ![i] = [e EXCEPT !.act = k]]
    <2>1. (e.act \/ go) \in BOOLEAN
      OBVIOUS
    <2>. QED BY <1>3, <2>1
  <1> HIDE DEF e
  <1> DEFINE r == [e EXCEPT !.act = k]
  <1>7. /\ r \in Entries /\ r.status = e.status /\ r.pid = e.pid /\ r.scope = e.scope
        /\ r.cancelled = e.cancelled /\ r.old = e.old
    BY <1>5 DEF Entries, Wide
  <1>8. entry' = [entry EXCEPT ![i] = r]
    BY <1>6
  <1> HIDE DEF r
  <1>9. entry'[i] = r /\ \A j \in Ids : j # i => entry'[j] = entry[j]
    BY <1>8 DEF Basic, DevTyped
  <1>10. SamePids /\ Aging
    <2>1. \A j \in Ids : j # i => entry'[j] = entry[j]
      BY <1>9
    <2>2. /\ entry'[i].pid = entry[i].pid /\ entry'[i].scope = entry[i].scope
          /\ entry'[i].cancelled = entry[i].cancelled /\ entry'[i].old = entry[i].old
          /\ entry'[i].status \in {"starting", "prepared"} => entry[i].status \in {"starting", "prepared"}
      BY <1>4, <1>7, <1>9
    <2>. QED BY <2>1, <2>2 DEF SamePids, Aging
  <1>11. CASE ~go
    <2>1. MoveTo(i, "off")
      BY <1>3, <1>11
    <2>2. at'[0] = at[0]
      BY <1>1, <2>1, Moved DEF Basic, Places
    <2>3. Running /\ Named => Named'
      BY <1>3, <2>2 DEF Named
    <2>. QED BY <1>3, <1>10, <2>1, <2>3, EndsTame
  <1>12. CASE go
    <2>1. MoveTo(i, "launch") /\ at[0] = "off" /\ Nobody /\ ~entry[i].cancelled
          /\ map[entry[i].scope] = i
          /\ Servers \subseteq {entry[j].pid : j \in {j \in Ids : entry[j].scope = entry[i].scope}}
      BY <1>3, <1>4, <1>12 DEF Unseen, Nobody
    <2>2. at'[i] = "launch" /\ \A v \in Runner : v # i => at'[v] = at[v]
      BY <1>1, <2>1, Moved DEF Basic, Places
    <2>3. ~Running
      <3> SUFFICES ASSUME Running PROVE FALSE
        OBVIOUS
      <3>1. Apart(i)
        BY <1>3 DEF Calm, RunningFine, WellPlaced
      <3>2. log \in Servers
        BY LogIs DEF Running, Servers, Setup
      <3>. QED BY <1>3, <2>1, <3>1, <3>2 DEF Apart
    <2>4. ~Running' /\ Alone'
      BY <1>3, <2>3 DEF Running, Alone, Calm, Servers
    <2>5. OneLaunch'
      BY <1>1, <2>1, <2>2 DEF OneLaunch, Nobody, Launching
    <2>6. MadeFine'
      BY <1>1, <2>1, <2>2 DEF MadeFine, Nobody, Launching, Runner
    <2>7. StopFine'
      BY <1>3, <2>1 DEF StopFine, Calm
    <2>. QED BY <2>4, <2>5, <2>6, <2>7 DEF Calm
  <1>. QED BY <1>11, <1>12

LEMMA InitTame == DevInit => Tame
  <1> SUFFICES ASSUME DevInit PROVE Calm
    BY DEF Tame
  <1>1. 0 \in Runner /\ \A i \in Ids : i \in Runner
    BY DEF Runner
  <1>. QED BY <1>1 DEF DevInit, Calm, OneLaunch, Launching, Alone, Servers, MadeFine, StopFine, Running

LEMMA NextTame == Basic /\ Tame /\ [DevNext]_devVars => Tame'
  <1> SUFFICES ASSUME Basic, Tame, [DevNext]_devVars, ~excused' PROVE Calm'
    BY DEF Tame
  <1>1. CASE ServeStep
    BY <1>1, LookTame, HttpTame, RereadTame, StopTame, FinalizeTame, NothingTame, StartTame,
       BackgroundTame, SyncTame, GenerateTame, InstallTame DEF ServeStep
  <1>2. CASE \E s \in Scopes : AskDev(s)
    BY <1>2, AskTame
  <1>3. CASE \E w \in Runner : LaunchStep(w)
    BY <1>3, StartsTame, ReadyTame, LaunchFailsTame, PublishTame, RecordTame DEF LaunchStep
  <1>4. CASE \E i \in Ids : Activate(i)
    BY <1>4, ActivateTame
  <1>5. ASSUME NEW i \in Ids, WatcherStep(i) PROVE Calm'
    <2>1. CASE ExitReads(i) \/ IdleTop(i) \/ IdleChecks(i) \/ IdleGone(i) \/ IdleStops(i)
      <3>1. UNCHANGED excused
        BY <2>1 DEF ExitReads, IdleTop, IdleChecks, IdleGone, IdleStops, history
      <3>2. Calm
        BY <3>1 DEF Tame
      <3>. QED BY <2>1, <3>2, ExitReadsTame, IdleTopTame, IdleChecksTame, IdleGoneTame, IdleStopsTame
    <2>2. CASE ExitWrites(i) \/ IdleWrites(i) \/ IdlePolls(i) \/ IdleFinal(i)
      BY <2>2, ExitWritesTame, IdleWritesTame, IdlePollsTame, IdleFinalTame
    <2>. QED BY <1>5, <2>1, <2>2 DEF WatcherStep
  <1>6. CASE \E p \in Pid : ProcessExits(p)
    <2>1. /\ alive' \subseteq alive
          /\ UNCHANGED <<entry, map, saved, log, born, setups, at, watching, request, launched, history>>
      BY <1>6 DEF ProcessExits
    <2>. QED BY <2>1, RestTame DEF Tame, history
  <1>7. CASE Restart
    BY <1>7, RestartTame
  <1>8. CASE devVars' = devVars
    <2>1. UNCHANGED <<entry, map, saved, log, born, alive, setups, at, watching, request, launched, history>>
      BY <1>8 DEF devVars, processes
    <2>. QED BY <2>1, RestTame DEF Tame, history
  <1>. QED BY <1>1, <1>2, <1>3, <1>4, <1>5, <1>6, <1>7, <1>8 DEF DevNext

(* What is said of the server holds of every state that is Tame.           *)
LEMMA TameIsAsAsked == Basic /\ Tame => ServersAsAsked
  <1> SUFFICES ASSUME Basic, Tame, ~excused
               PROVE  Cardinality(Servers) <= 1 /\ (stopped => Servers = {})
    BY DEF ServersAsAsked, OneServer, StopHolds
  <1>1. Servers = {} \/ Servers = {log}
    BY DEF Tame, Calm, Alone
  <1>2. Cardinality(Servers) <= 1
    <2>1. Cardinality({}) = 0 /\ Cardinality({log}) = 1
      BY FS_EmptySet, FS_Singleton
    <2>. QED BY <1>1, <2>1
  <1>3. stopped => Servers = {}
    BY <1>1 DEF Tame, Calm, StopFine, Running, Servers
  <1>. QED BY <1>2, <1>3

LEMMA TameIsWithinReach == Basic /\ Tame => WithinReach
  <1> SUFFICES ASSUME Basic, Tame, AtRest, ~excused
               PROVE  /\ Servers \subseteq Reachable
                      /\ ~restarted => \A p \in Servers : \E i \in Ids : entry[i].pid = p /\ idle[i] # "off"
    BY DEF WithinReach, NoOrphan, Watched
  <1>1. Servers \subseteq {log} /\ Calm
    BY DEF Tame, Calm, Alone
  <1>2. Servers \subseteq Reachable
    BY <1>1 DEF Reachable
  <1>3. ASSUME ~restarted, NEW p \in Servers PROVE \E i \in Ids : entry[i].pid = p /\ idle[i] # "off"
    <2>1. p = log /\ Running
      BY <1>1, <1>3 DEF Running, Servers
    <2>2. ~Rising
      BY DEF AtRest, Rising, Up
    <2>. QED BY <1>1, <1>3, <2>1, <2>2 DEF Calm, RunningFine, Guarded
  <1>. QED BY <1>2, <1>3

(* As long as none of the races the README names happened, the requests,   *)
(* the activations and the watchers of all scopes deal with one server.    *)
THEOREM TameHolds == DevSpec => []Tame
  <1>. QED BY InitTame, NextTame, BasicHolds, PTL DEF DevSpec

(* A project runs one Vite server at most, whichever scopes ask for it, and *)
(* none after a stop was answered until the next start (frontendDevAction, *)
(* frontendActivatePreparedDev, Engine.js:11614).                          *)
THEOREM AsAsked == DevSpec => []ServersAsAsked
  <1>. QED BY TameHolds, BasicHolds, TameIsAsAsked, PTL

(* Between requests every server that runs is known to a scope, the state  *)
(* file or the log, so that a stop reaches it, and unless the engine was   *)
(* restarted an idle watcher is at work on it (Engine.js:10669-10755).     *)
THEOREM InReach == DevSpec => []WithinReach
  <1>. QED BY TameHolds, BasicHolds, TameIsWithinReach, PTL
========================================================================
