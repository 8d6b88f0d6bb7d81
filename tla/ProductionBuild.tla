---------------------------- MODULE ProductionBuild ----------------------------
(***************************************************************************)
(* The production builds of one Svelte project: the background build a     *)
(* stop of the development mode schedules, its cancellation by the next    *)
(* start, explicit builds, the locks they share, the state file and the    *)
(* publication of the output, over several Rhino scopes and restarts of    *)
(* the server (Engine.js, frontend-production-lifecycle.js).               *)
(***************************************************************************)
EXTENDS Naturals

CONSTANTS
  Scope,        \* Rhino scopes: each has a thread of requests and of a build
  None,         \* no scope
  MaxRequests,  \* bound of the requests made
  MaxEdits,     \* bound of the edits of the sources
  MaxMishaps,   \* bound of the restarts of the server and of the failures
  Manual        \* whether authors ask explicit builds

ASSUME NoneAssumption == None \notin Scope \cup Scope \X {"request", "job"}
ASSUME BoundsAssumption == {MaxRequests, MaxEdits, MaxMishaps} \subseteq Nat
ASSUME ManualAssumption == Manual \in BOOLEAN

VARIABLES
  source,     \* version of the sources, 0 for none
  file,       \* the production state file
  target,     \* version of the output served, 0 without one
  backup,     \* version moved aside by the promotion under way, 0 without one
  left,       \* versions moved aside and left there
  dev,        \* whether the development mode runs
  pc, task,   \* where each thread is, and what for
  view,       \* the state each thread is about to write
  print,      \* fingerprint a build works for, 0 to take it at its end
  made,       \* version of the sources each thread generated
  ok,         \* whether the steps of each thread succeeded
  proc,       \* the process of each thread: none, running or killed
  listed,     \* jobs whose process is in the list of their cancel object
  cancelled,  \* jobs whose cancel object is set
  slot,       \* the job the map of cancel objects holds for the project
  victim,     \* the job the request of each scope is cancelling
  builds,     \* scopes with a job, as their runtimeState knows
  buildLock, projectLock,
  requests, mishaps,                 \* bounds
  published, owed, refused, late, overlap  \* history, see the properties

Thread == Scope \X {"request", "job"}
R(s) == <<s, "request">>
J(s) == <<s, "job">>
Version == 0 .. MaxEdits + 1

disk == <<target, backup, left, published>>
cancels == <<listed, cancelled, slot, victim, builds, overlap>>
locks == <<buildLock, projectLock>>
work == <<view, print, made, ok, proc>>
world == <<source, dev, requests>>
notes == <<owed, refused, late, mishaps>>
vars == <<file, disk, cancels, locks, work, world, notes, pc, task>>

-----------------------------------------------------------------------------
(* frontend-production-lifecycle.js                                        *)
NoState == [current |-> 0, built |-> 0, dirty |-> FALSE, status |-> "idle"]

Observed(f, v) ==
  [f EXCEPT !.current = v, !.dirty = v # f.built,
            !.status = IF f.status = "building" THEN @
                       ELSE IF v # f.built THEN "dirty" ELSE "current"]
Requested(f) == [f EXCEPT !.status = "queued"]
Started(f) == [f EXCEPT !.status = "building"]
Completed(f, v) == [current |-> v, built |-> v, dirty |-> FALSE, status |-> "current"]
Failed(f) == [f EXCEPT !.dirty = TRUE, !.status = "failed"]
Cancelled(f) == [f EXCEPT !.dirty = TRUE, !.status = "dirty"]

-----------------------------------------------------------------------------
Init ==
  /\ source = 1 /\ file = NoState
  /\ target = 0 /\ backup = 0 /\ left = {} /\ published = 0
  /\ dev = TRUE   \* found running: it survived the last restart
  /\ pc = [w \in Thread |-> "idle"] /\ task = [w \in Thread |-> "none"]
  /\ view = [w \in Thread |-> NoState]
  /\ print = [w \in Thread |-> 0] /\ made = [w \in Thread |-> 0]
  /\ ok = [w \in Thread |-> TRUE] /\ proc = [w \in Thread |-> "none"]
  /\ listed = {} /\ cancelled = {} /\ slot = None /\ builds = {}
  /\ victim = [s \in Scope |-> None] /\ overlap = FALSE
  /\ buildLock = None /\ projectLock = None
  /\ requests = 0 /\ mishaps = 0
  /\ owed = 0 /\ refused = FALSE /\ late = FALSE

Goto(w, where) == pc' = [pc EXCEPT ![w] = where]

(* A step succeeds, or is one of the mishaps.                              *)
Chance(fine) ==
  /\ fine \/ mishaps < MaxMishaps
  /\ mishaps' = IF fine THEN mishaps ELSE mishaps + 1

Drop(w) == view' = [view EXCEPT ![w] = NoState]

-----------------------------------------------------------------------------
(* Requests: a stop, a start, or an explicit build.  The idle watcher of   *)
(* another scope may stop the same server at the same time.                *)
Ask(s) ==
  /\ pc[R(s)] = "idle" /\ requests < MaxRequests
  /\ requests' = requests + 1
  /\ \/ dev /\ task' = [task EXCEPT ![R(s)] = "stop"] /\ Goto(R(s), "stop")
     \/ ~dev /\ task' = [task EXCEPT ![R(s)] = "start"] /\ Goto(R(s), "cancel")
     \/ Manual /\ task' = [task EXCEPT ![R(s)] = "build"] /\ Goto(R(s), "buildLock")
  /\ UNCHANGED <<file, disk, cancels, locks, work, source, dev, notes>>

(* frontendStopDev, or the idle watcher: the server is destroyed.          *)
Stop(s) ==
  /\ pc[R(s)] = "stop"
  /\ dev' = FALSE
  /\ Goto(R(s), "observe")
  /\ UNCHANGED <<file, disk, cancels, locks, work, source, requests, task,
                 notes>>

(* frontendScheduleProductionBuild, past the observation: nothing when the *)
(* output is current or a build of this scope is under way.                *)
Schedule(s) ==
  /\ pc[R(s)] = "schedule"
  /\ Goto(R(s), IF view[R(s)].dirty /\ s \notin builds THEN "request" ELSE "idle")
  /\ IF view[R(s)].dirty
     THEN owed' = view[R(s)].current /\ refused' = (s \in builds)
     ELSE UNCHANGED <<owed, refused>>
  /\ IF view[R(s)].dirty /\ s \notin builds THEN UNCHANGED view ELSE Drop(R(s))
  /\ UNCHANGED <<file, disk, cancels, locks, print, made, ok, proc, world, task, late, mishaps>>

Request(s) ==
  /\ pc[R(s)] = "request"
  /\ file' = Requested(view[R(s)])
  /\ Goto(R(s), "register")
  /\ Drop(R(s))
  /\ UNCHANGED <<disk, cancels, locks, print, made, ok, proc, world, task, notes>>

(* Mutant: one build of the project at a time, whichever scope asks.       *)
RegisterOnce(s) ==
  /\ pc[R(s)] = "register"
  /\ IF slot # None
     THEN Goto(R(s), "idle") /\ UNCHANGED <<cancels, task>>
     ELSE /\ slot' = s /\ builds' = builds \cup {s}
          /\ pc' = [pc EXCEPT ![R(s)] = "idle", ![J(s)] = "buildLock"]
          /\ task' = [task EXCEPT ![J(s)] = "build"]
          /\ UNCHANGED <<listed, cancelled, victim, overlap>>
  /\ UNCHANGED <<file, disk, locks, work, world, notes>>

(* Its cancel object takes the place of the one the map holds; a           *)
(* cancellation under way keeps the object it found.                       *)
Register(s) ==
  /\ pc[R(s)] = "register"
  /\ cancelled' = cancelled \ {s} /\ listed' = listed \ {s}
  /\ victim' = [r \in Scope |-> IF victim[r] = s THEN None ELSE victim[r]]
  /\ slot' = s /\ builds' = builds \cup {s}
  /\ overlap' = (overlap \/ (slot # None /\ slot \notin cancelled))
  /\ pc' = [pc EXCEPT ![R(s)] = "idle", ![J(s)] = "buildLock"]
  /\ task' = [task EXCEPT ![J(s)] = "build"]
  /\ UNCHANGED <<file, disk, locks, work, world, notes>>

(* frontendCancelProductionBuild: the flag first, then the processes.      *)
Cancel(s) ==
  /\ pc[R(s)] = "cancel"
  /\ IF slot = None \/ slot \in cancelled
     THEN Goto(R(s), "projectLock") /\ UNCHANGED <<cancelled, victim>>
     ELSE /\ cancelled' = cancelled \cup {slot}
          /\ victim' = [victim EXCEPT ![s] = slot]
          /\ Goto(R(s), "kill")
  /\ owed' = 0
  /\ UNCHANGED <<file, disk, listed, slot, builds, overlap, locks, work, world, task,
                 refused, late, mishaps>>

Kill(s) ==
  /\ pc[R(s)] = "kill"
  /\ proc' = IF victim[s] \in listed /\ proc[J(victim[s])] = "running"
             THEN [proc EXCEPT ![J(victim[s])] = "killed"] ELSE proc
  /\ victim' = [victim EXCEPT ![s] = None]
  /\ Goto(R(s), "projectLock")
  /\ UNCHANGED <<file, disk, listed, cancelled, slot, builds, overlap, locks, view, print,
                 made, ok, world, task, notes>>

-----------------------------------------------------------------------------
(* frontendObserveProductionState: the file read with the fingerprint of   *)
(* the sources, then written.                                              *)
Observe(w) ==
  /\ pc[w] = "observe"
  /\ view' = [view EXCEPT ![w] = Observed(file, source)]
  /\ Goto(w, "observed")
  /\ UNCHANGED <<file, disk, cancels, locks, print, made, ok, proc, world, task, notes>>

ObserveWrites(w) ==
  /\ pc[w] = "observed"
  /\ file' = view[w]
  /\ IF projectLock # w /\ task[w] = "stop" THEN UNCHANGED view ELSE Drop(w)
  /\ Goto(w, CASE projectLock = w -> "unlock"
               [] projectLock # w /\ task[w] = "stop" -> "schedule"
               [] OTHER -> "idle")
  /\ UNCHANGED <<disk, cancels, locks, print, made, ok, proc, world, task, notes>>

-----------------------------------------------------------------------------
(* Mutant: an explicit build waits for nobody.                             *)
LockBuildsFree(w) ==
  /\ pc[w] = "buildLock" /\ (w[2] = "job" => buildLock = None)
  /\ buildLock' = IF w[2] = "job" THEN w ELSE buildLock
  /\ Goto(w, IF w[2] = "job" THEN "start" ELSE "generate")
  /\ UNCHANGED <<file, disk, cancels, projectLock, work, world, task, notes>>

(* frontendRunAction: the lock of production builds first, then the one of *)
(* the project.  A job holds the first before it begins.                   *)
LockBuilds(w) ==
  /\ pc[w] = "buildLock" /\ buildLock = None
  /\ buildLock' = w
  /\ Goto(w, IF w[2] = "job" THEN "start" ELSE "projectLock")
  /\ UNCHANGED <<file, disk, cancels, projectLock, work, world, task, notes>>

LockProject(w) ==
  /\ pc[w] = "projectLock" /\ projectLock = None
  /\ projectLock' = w
  /\ Goto(w, "generate")
  /\ UNCHANGED <<file, disk, cancels, buildLock, work, world, task, notes>>

(* The job begins: it reads the state, and writes it as being built.  The  *)
(* fingerprint it builds for is the one of the state.                      *)
JobReads(s) ==
  /\ pc[J(s)] = "start"
  /\ view' = [view EXCEPT ![J(s)] = Started(file)]
  /\ ok' = [ok EXCEPT ![J(s)] = TRUE]
  /\ Goto(J(s), "started")
  /\ UNCHANGED <<file, disk, cancels, locks, print, made, proc, world, task, notes>>

JobStarts(s) ==
  /\ pc[J(s)] = "started"
  /\ file' = view[J(s)] /\ Drop(J(s))
  /\ print' = [print EXCEPT ![J(s)] = view[J(s)].current]
  /\ Goto(J(s), IF s \in cancelled THEN "ended" ELSE "projectLock")
  /\ UNCHANGED <<disk, cancels, locks, made, ok, proc, world, task, notes>>

(* The steps before the build: the sources are generated as they are now.  *)
(* Any step may fail; those of a cancelled job do.                         *)
Generate(w) ==
  /\ pc[w] = "generate"
  /\ \E fine \in BOOLEAN :
       /\ Chance(fine)
       /\ made' = [made EXCEPT ![w] = source]
       /\ ok' = [ok EXCEPT ![w] = fine]
       /\ Goto(w, CASE ~fine -> "unlock"
                    [] (fine /\ task[w] = "build") -> "launch"
                    [] OTHER -> "observe")
  /\ UNCHANGED <<file, disk, cancels, locks, view, print, proc, world, task, owed, refused,
                 late>>

(* frontendRunProcess: a cancelled job launches nothing.                   *)
Launch(w) ==
  /\ pc[w] = "launch"
  /\ IF w[2] = "job" /\ w[1] \in cancelled
     THEN ok' = [ok EXCEPT ![w] = FALSE] /\ Goto(w, "unlock") /\ UNCHANGED proc
     ELSE proc' = [proc EXCEPT ![w] = "running"] /\ UNCHANGED ok
          /\ Goto(w, IF w[2] = "job" THEN "list" ELSE "wait")
  /\ UNCHANGED <<file, disk, cancels, locks, view, print, made, world, task, notes>>

List(s) ==
  /\ pc[J(s)] = "list"
  /\ listed' = listed \cup {s}
  /\ Goto(J(s), "recheck")
  /\ UNCHANGED <<file, disk, cancelled, slot, victim, builds, overlap, locks, work, world, task,
                 notes>>

(* Mutant: the flag is read once, before the launch.                       *)
RecheckNothing(s) ==
  /\ pc[J(s)] = "recheck"
  /\ Goto(J(s), "wait")
  /\ UNCHANGED <<file, disk, cancels, locks, work, world, task, notes>>

(* The flag again, now that a cancellation sees the process.               *)
Recheck(s) ==
  /\ pc[J(s)] = "recheck"
  /\ proc' = IF s \in cancelled THEN [proc EXCEPT ![J(s)] = "killed"] ELSE proc
  /\ Goto(J(s), "wait")
  /\ UNCHANGED <<file, disk, cancels, locks, view, print, made, ok, world, task, notes>>

(* The process ends, by itself or destroyed.                               *)
Exit(w) ==
  /\ pc[w] = "wait"
  /\ \E fine \in BOOLEAN :
       /\ IF proc[w] = "killed" THEN ~fine /\ UNCHANGED mishaps ELSE Chance(fine)
       /\ ok' = [ok EXCEPT ![w] = fine]
       /\ Goto(w, IF fine THEN "promote" ELSE "unlock")
  /\ proc' = [proc EXCEPT ![w] = "none"]
  /\ listed' = listed \ {s \in Scope : w = J(s)}
  /\ UNCHANGED <<file, disk, cancelled, slot, victim, builds, overlap, locks, view, print,
                 made, world, task, owed, refused, late>>

-----------------------------------------------------------------------------
(* frontendPromoteBuildOutput: the previous output is moved aside, the     *)
(* staged one takes its place, the previous one is deleted.                *)
MoveAside(w) ==
  /\ pc[w] = "promote"
  /\ \/ /\ target # 0 /\ backup' = target /\ target' = 0
        /\ Goto(w, "publish") /\ UNCHANGED <<ok, mishaps>>
     \/ /\ target = 0 /\ Goto(w, "publish") /\ UNCHANGED <<target, backup, ok, mishaps>>
     \/ /\ Chance(FALSE) /\ target # 0
        /\ ok' = [ok EXCEPT ![w] = FALSE] /\ Goto(w, "unlock") /\ UNCHANGED <<target, backup>>
  /\ UNCHANGED <<file, left, published, cancels, locks, view, print, made, proc, world, task,
                 owed, refused, late>>

(* Mutant: the output moved aside is deleted whatever becomes of the other. *)
PublishDeletes(w) ==
  /\ pc[w] = "publish"
  /\ \/ target' = made[w] /\ published' = made[w] /\ Goto(w, "clean")
        /\ UNCHANGED <<backup, ok, mishaps>>
     \/ /\ Chance(FALSE) /\ backup' = 0
        /\ ok' = [ok EXCEPT ![w] = FALSE] /\ Goto(w, "unlock") /\ UNCHANGED <<target, published>>
  /\ UNCHANGED <<file, left, cancels, locks, view, print, made, proc, world, task, owed, refused,
                 late>>

(* When it fails the previous output is moved back, unless that fails too. *)
Publish(w) ==
  /\ pc[w] = "publish"
  /\ \/ /\ target' = made[w] /\ published' = made[w]
        /\ Goto(w, "clean")
        /\ UNCHANGED <<backup, left, ok, mishaps>>
     \/ /\ Chance(FALSE)
        /\ \/ target' = backup /\ UNCHANGED left
           \/ UNCHANGED target /\ left' = left \cup ({backup} \ {0})
        /\ backup' = 0
        /\ ok' = [ok EXCEPT ![w] = FALSE] /\ Goto(w, "unlock")
        /\ UNCHANGED published
  /\ UNCHANGED <<file, cancels, locks, view, print, made, proc, world, task, owed, refused, late>>

Clean(w) ==
  /\ pc[w] = "clean"
  /\ \E gone \in BOOLEAN : Chance(gone) /\ left' = left \cup {v \in {backup} \ {0} : ~gone}
  /\ backup' = 0
  /\ Goto(w, "complete")
  /\ UNCHANGED <<file, target, published, cancels, locks, work, world, task, owed, refused,
                 late>>

(* The state of a build that succeeded: a job records the fingerprint it   *)
(* built for, an explicit build the one of the sources now.                *)
Complete(w) ==
  /\ pc[w] = "complete"
  /\ LET v == IF print[w] = 0 THEN source ELSE print[w]
     IN view' = [view EXCEPT ![w] = Observed(Completed(file, v), source)]
  /\ late' = (late \/ (w[2] = "request" /\ source # made[w]))
  /\ Goto(w, "completed")
  /\ UNCHANGED <<file, disk, cancels, locks, print, made, ok, proc, world, task, owed, refused,
                 mishaps>>

CompleteWrites(w) ==
  /\ pc[w] = "completed"
  /\ file' = view[w] /\ Drop(w)
  /\ Goto(w, "unlock")
  /\ UNCHANGED <<disk, cancels, locks, print, made, ok, proc, world, task, notes>>

(* The locks are given back; a job keeps the one of the builds.            *)
Unlock(w) ==
  /\ pc[w] = "unlock"
  /\ projectLock' = None
  /\ buildLock' = IF buildLock = w /\ w[2] = "request" THEN None ELSE buildLock
  /\ dev' = (dev \/ (task[w] = "start" /\ ok[w]))
  /\ Goto(w, CASE w[2] = "job" -> "ended"
               [] w[2] = "request" /\ task[w] = "start" /\ ok[w] -> "observe"
               [] OTHER -> "idle")
  /\ made' = [made EXCEPT ![w] = 0]
  /\ UNCHANGED <<file, disk, cancels, view, print, ok, proc, source, requests, task, notes>>

-----------------------------------------------------------------------------
(* The end of a job: cancelled, failed, or published.                      *)
JobEnds(s) ==
  /\ pc[J(s)] = "ended"
  /\ view' = [view EXCEPT ![J(s)] = IF s \in cancelled THEN Cancelled(file) ELSE Failed(file)]
  /\ Goto(J(s), IF s \in cancelled \/ ~ok[J(s)] THEN "endWrite" ELSE "finish")
  /\ owed' = IF s \notin cancelled /\ ~ok[J(s)] THEN 0 ELSE owed
  /\ UNCHANGED <<file, disk, cancels, locks, print, made, ok, proc, world, task, refused, late,
                 mishaps>>

JobWritesEnd(s) ==
  /\ pc[J(s)] = "endWrite"
  /\ file' = view[J(s)] /\ Drop(J(s))
  /\ Goto(J(s), "finish")
  /\ UNCHANGED <<disk, cancels, locks, print, made, ok, proc, world, task, notes>>

JobForgets(s) ==
  /\ pc[J(s)] = "finish"
  /\ buildLock' = None
  /\ slot' = IF slot = s THEN None ELSE slot
  /\ builds' = builds \ {s}
  /\ print' = [print EXCEPT ![J(s)] = 0] /\ made' = [made EXCEPT ![J(s)] = 0]
  /\ ok' = [ok EXCEPT ![J(s)] = TRUE]
  /\ listed' = listed \ {s} /\ cancelled' = cancelled \ {s}
  /\ Goto(J(s), "idle")
  /\ UNCHANGED <<file, disk, victim, overlap, projectLock, view,
                 proc, world, task, notes>>

-----------------------------------------------------------------------------
Edit ==
  /\ source <= MaxEdits
  /\ source' = source + 1
  /\ UNCHANGED <<file, disk, cancels, locks, work, dev, requests, pc, task, notes>>

(* The server restarts: threads, locks and cancel objects are lost, an     *)
(* output moved aside stays there.  The development server may survive.    *)
Crash ==
  /\ Chance(FALSE)
  /\ left' = left \cup ({backup} \ {0}) /\ backup' = 0
  /\ dev' \in {FALSE, dev}
  /\ pc' = [w \in Thread |-> "idle"] /\ task' = [w \in Thread |-> "none"]
  /\ view' = [w \in Thread |-> NoState]
  /\ print' = [w \in Thread |-> 0] /\ made' = [w \in Thread |-> 0]
  /\ ok' = [w \in Thread |-> TRUE] /\ proc' = [w \in Thread |-> "none"]
  /\ listed' = {} /\ cancelled' = {} /\ slot' = None /\ builds' = {}
  /\ victim' = [s \in Scope |-> None]
  /\ buildLock' = None /\ projectLock' = None
  /\ owed' = 0
  /\ UNCHANGED <<source, file, target, published, requests, refused, late, overlap>>

(* What the thread of a request, or of a job, does next.                   *)
Common(w) ==
  \/ Observe(w) \/ ObserveWrites(w) \/ LockBuilds(w) \/ LockProject(w)
  \/ Generate(w) \/ Launch(w) \/ Exit(w)
  \/ MoveAside(w) \/ Publish(w) \/ Clean(w) \/ Complete(w) \/ CompleteWrites(w) \/ Unlock(w)

RequestStep(s) ==
  Stop(s) \/ Schedule(s) \/ Request(s) \/ Register(s) \/ Cancel(s) \/ Kill(s) \/ Common(R(s))

JobStep(s) ==
  JobReads(s) \/ JobStarts(s) \/ List(s) \/ Recheck(s)
  \/ JobEnds(s) \/ JobWritesEnd(s) \/ JobForgets(s) \/ Common(J(s))

Next ==
  \/ Edit \/ Crash
  \/ \E s \in Scope : Ask(s) \/ RequestStep(s) \/ JobStep(s)

Spec == Init /\ [][Next]_vars

-----------------------------------------------------------------------------
States == [current : Version, built : Version, dirty : BOOLEAN,
           status : {"idle", "dirty", "current", "queued", "building", "failed"}]

(* Every file the builds write holds a state or a version, a lock is held  *)
(* by a thread inside its section only, and a promotion under way is the   *)
(* one of the thread that holds the lock of the project.                   *)
TypeOK ==
  /\ source \in Version /\ file \in States
  /\ {target, backup, published, owed} \cup left \subseteq Version
  /\ view \in [Thread -> States] /\ print \in [Thread -> Version] /\ made \in [Thread -> Version]
  /\ proc \in [Thread -> {"none", "running", "killed"}] /\ ok \in [Thread -> BOOLEAN]
  /\ listed \cup cancelled \cup builds \subseteq Scope
  /\ slot \in Scope \cup {None} /\ victim \in [Scope -> Scope \cup {None}]
  /\ \A w \in Thread :
       /\ pc[w] \in {"generate", "launch", "list", "recheck", "wait", "promote", "publish",
                     "clean", "complete", "completed", "unlock"} => projectLock = w
       /\ proc[w] # "none" => pc[w] \in {"list", "recheck", "wait"}
  /\ backup # 0 => projectLock # None /\ pc[projectLock] \in {"publish", "clean"}

(* The last published output is never lost: it is served, moved aside by   *)
(* the promotion under way, or left aside by a failure or a restart.       *)
OutputKept ==
  published # 0 => target = published \/ backup = published \/ published \in left

(* A build in its turn replaces an output by one of the same or of later   *)
(* sources.                                                                *)
OutputAdvances == [][published' >= published]_published

(* The state never claims sources that were not published, unless an       *)
(* explicit build saw its sources edited after it generated from them.     *)
ClaimsPublished == file.built > published => late

(* What is served is the last output published, wherever a restart left    *)
(* it, and the state file claims no other (Engine.js:10245-10275, 9956).   *)
OutputSafe == TypeOK /\ OutputKept /\ ClaimsPublished

(* Once a start has cancelled a job no process of it is left to run: one   *)
(* launched meanwhile is destroyed by the job itself.                      *)
CancelReaches ==
  \A s \in cancelled :
    (\A r \in Scope : victim[r] # s) /\ proc[J(s)] = "running" => pc[J(s)] \in {"list", "recheck"}

(* A start finds the job to cancel, unless two stops registered one each.  *)
CancelFindsIt == ~overlap => \A s \in builds \ cancelled : slot = s

(* A start finds the job a stop scheduled and leaves no process of it.     *)
CancelHolds == CancelReaches /\ CancelFindsIt

Quiet == \A w \in Thread : pc[w] = "idle"

(* What a stop found dirty is published in the end, unless the mode        *)
(* started again, the build failed, or a build of the scope was under way. *)
StopBuilds == Quiet /\ owed > published => refused

(* Threads never wait on each other for ever: while one is at work, one    *)
(* can go on.                                                              *)
NobodyStuck == Quiet \/ ENABLED (\E s \in Scope : RequestStep(s) \/ JobStep(s))

(* Work under way goes on, and once there is none left the sources a stop  *)
(* found dirty are published.                                              *)
WorkEnds == NobodyStuck /\ StopBuilds

================================================================================
