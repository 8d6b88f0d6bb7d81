------------------------------- MODULE DevServer -------------------------------
(***************************************************************************)
(* The Svelte development server of one project: the requests that start,  *)
(* synchronise and stop it, the background preparation that activates it   *)
(* by itself, the threads that watch it, the entry each Rhino scope keeps, *)
(* the state file and the processes, which survive the scopes (Engine.js). *)
(* Requests are serialised by the authoring lock of the caller.            *)
(***************************************************************************)
EXTENDS Naturals, FiniteSets

CONSTANTS
  Scopes,        \* Rhino scopes that serve the requests
  MaxEntries,    \* bound of the entries created or read from the file
  MaxProcesses,  \* bound of the processes launched
  MaxCalls,      \* bound of the requests
  MaxHitches     \* bound of the failures, exits and restarts

ASSUME DevBoundsAssumption == {MaxEntries, MaxProcesses, MaxCalls, MaxHitches} \subseteq Nat

VARIABLES
  entry,         \* the entries, objects the threads of a scope share
  map,           \* frontendDevServers: the entry each scope knows, 0 without one
  saved,         \* the state file
  born,          \* processes launched so far
  log,           \* the process whose address the log of Vite holds, 0 without one
  alive,         \* processes that run
  setups,        \* those that install dependencies
  broken,        \* those whose installation failed
  at,            \* where the request (0) and the activation thread of each entry are
  idle, exits,   \* where the watchers of each entry are
  request,       \* what the request does: operation, scope, entry
  launched,      \* process launched, then entry made of it, by each launching thread
  snap,          \* the file as the watchers read it
  excused, stopped, restarted, calls, hitches \* history and bounds, see below

Ids == 1 .. MaxEntries
Pid == 1 .. MaxProcesses
Runner == {0} \cup Ids
Statuses == {"starting", "prepared", "running", "stopping", "stopped", "exited", "failed"}
Reasons == {"none", "manual", "idle", "other", "exited"}

watching == <<idle, exits, snap>>
processes == <<log, born, alive, setups, broken>>
history == <<excused, stopped, restarted>>
devVars == <<entry, map, saved, processes, at, watching, request, launched, history,
             calls, hitches>>

Servers == alive \ setups
NoFile == [pid |-> 0, status |-> "absent", reason |-> "none"]
NoRequest == [op |-> "none", scope |-> "none", entry |-> 0]
Free == [status |-> "free", pid |-> 0, reason |-> "none", own |-> FALSE, app |-> FALSE,
         cancelled |-> FALSE, act |-> FALSE, watched |-> FALSE, old |-> FALSE,
         scope |-> "none"]

Terminal(e) == e.status \in {"stopped", "exited"}
Alive(e) == \/ e.status = "prepared"
            \/ ~Terminal(e) /\ e.pid \in alive
State(e) == [pid |-> e.pid, status |-> e.status, reason |-> e.reason]
Loaded(f, s) == [Free EXCEPT !.status = f.status, !.pid = f.pid, !.reason = f.reason, !.scope = s,
                             !.app = TRUE]
Fresh == CHOOSE i \in Ids : entry[i].status = "free"
HasFresh == \E i \in Ids : entry[i].status = "free"

(* The file is written: it is newer than the entries of the others.        *)
Aged(es, i) == [j \in Ids |-> IF j = i \/ es[j].status = "free" THEN es[j]
                              ELSE [es[j] EXCEPT !.old = TRUE]]

(* What an entry becomes, and the processes killed, when it is destroyed.  *)
Destroyed(e, why) == [e EXCEPT !.cancelled = TRUE, !.reason = why]

-----------------------------------------------------------------------------
DevInit ==
  /\ entry = [i \in Ids |-> Free] /\ map = [s \in Scopes |-> 0] /\ saved = NoFile
  /\ log = 0 /\ born = 0 /\ alive = {} /\ setups = {} /\ broken = {}
  /\ at = [w \in Runner |-> "off"]
  /\ idle = [i \in Ids |-> "off"] /\ exits = [i \in Ids |-> "off"]
  /\ snap = [i \in Ids |-> [idle |-> NoFile, exit |-> NoFile]]
  /\ request = NoRequest /\ launched = [w \in Runner |-> 0]
  /\ excused = FALSE /\ stopped = FALSE /\ restarted = FALSE /\ calls = 0 /\ hitches = 0

MoveTo(w, where) == at' = [at EXCEPT ![w] = where]

(* excused, once a state of process p is written over a file that is of    *)
(* another process, or gone, while a server runs.                          *)
Overwrites(p) == excused \/ (saved.pid # p /\ Servers # {})

Hitch == hitches < MaxHitches /\ hitches' = hitches + 1
Outcome(fine) == IF fine THEN UNCHANGED hitches ELSE Hitch
Launching(w) == at[w] \in {"install", "launch", "ready", "publish", "record"}

(* What the activation of entry i does not look at: another thread at work, *)
(* a server its scope has no entry of.                                      *)
Unseen(i) == \/ at[0] # "off" \/ \E j \in Ids : Launching(j)
             \/ ~(Servers \subseteq {entry[j].pid : j \in {j \in Ids : entry[j].scope = entry[i].scope}})

(* The request ends.                                                       *)
Done == MoveTo(0, "off") /\ request' = NoRequest

AskDev(s) ==
  /\ at[0] = "off" /\ calls < MaxCalls
  /\ \E op \in {"start", "background", "stop", "sync", "open"} :
       request' = [op |-> op, scope |-> s, entry |-> 0]
  /\ calls' = calls + 1
  /\ MoveTo(0, "look")
  /\ excused' = (excused \/ \E i \in Ids : Launching(i))
  /\ UNCHANGED <<entry, map, saved, processes, watching, launched, stopped, restarted, hitches>>

-----------------------------------------------------------------------------
(* frontendPersistedDevStateWins                                           *)
PersistedWins(c, p) ==
  \/ Alive(p) /\ ~Alive(c)
  \/ /\ c.old
     /\ Terminal(p) \/ (Alive(p) /\ (c.pid # p.pid \/ c.status # p.status))

(* frontendFinishPreparation without waiting, when the installation ended: *)
(* an entry read from the file has no process to ask the outcome to.       *)
Prepared(e) ==
  IF e.status # "starting" \/ e.pid \in alive THEN e
  ELSE [e EXCEPT !.status = IF ~e.own THEN "prepared"
                            ELSE IF e.cancelled THEN "stopped"
                            ELSE IF e.pid \in broken THEN "failed" ELSE "prepared"]

(* frontendDevEntry, first half: the entry of the scope and the file are   *)
(* reconciled.  i is the entry kept, es the entries once it is.            *)
Settle(i, es, killed) ==
  LET e == Prepared(es[i])
      known == [es EXCEPT ![i] = e]
      there == e.status = "failed" \/ Alive(e)
      s == request.scope
  IN /\ entry' = known
     /\ map' = [map EXCEPT ![s] = IF there THEN i ELSE 0]
     /\ saved' = IF there \/ Terminal(e) THEN saved ELSE NoFile
     /\ alive' = alive \ killed
     /\ request' = [request EXCEPT !.entry = IF there THEN i ELSE 0]
     /\ MoveTo(0, IF ~there THEN "reread"
                  ELSE IF e.status \in {"failed", "starting", "prepared"} THEN "answer" ELSE "http")

Mine == map[request.scope]
SameProcess == Mine # 0 /\ saved # NoFile /\ entry[Mine].pid > 0 /\ entry[Mine].pid = saved.pid
FileWins == /\ ~SameProcess /\ saved # NoFile
            /\ Mine # 0 => PersistedWins(entry[Mine], Loaded(saved, request.scope))

(* The file supersedes what the scope was preparing: it is cancelled.      *)
Superseded == Mine # 0 /\ entry[Mine].status \in {"starting", "prepared"} /\ saved.status = "running"
Reconciled == [j \in Ids |-> IF j = Fresh THEN Loaded(saved, request.scope)
                             ELSE [entry[j] EXCEPT !.cancelled = @ \/ (Superseded /\ j = Mine)]]

Look ==
  /\ at[0] = "look"
  /\ \/ /\ Mine = 0 /\ saved = NoFile
        /\ MoveTo(0, "reread")
        /\ UNCHANGED <<entry, map, saved, alive, request>>
     \/ /\ SameProcess
        /\ Settle(Mine, [entry EXCEPT ![Mine].status = saved.status, ![Mine].reason = saved.reason,
                                      ![Mine].old = FALSE], {})
     \/ Mine # 0 /\ ~SameProcess /\ ~FileWins /\ Settle(Mine, entry, {})
     \/ /\ FileWins /\ HasFresh
        /\ Settle(Fresh, Reconciled, IF Superseded /\ entry[Mine].own THEN {entry[Mine].pid} ELSE {})
  /\ UNCHANGED <<log, born, setups, broken, watching, launched, history, calls, hitches>>

(* The entry found is asked: it answers and is watched, or it is forgotten *)
(* (destroyed when the process is its own, or when it has no public route).*)
Http ==
  /\ at[0] = "http"
  /\ LET i == request.entry
         s == request.scope
     IN \/ /\ entry[i].pid \in alive
           /\ entry' = [entry EXCEPT ![i].watched = @ \/ entry[i].status = "running"]
           /\ idle' = IF ~entry[i].watched /\ entry[i].status = "running"
                      THEN [idle EXCEPT ![i] = "top"] ELSE idle
           /\ MoveTo(0, "answer")
           /\ UNCHANGED <<map, saved, alive, request, hitches>>
        \/ /\ Outcome(entry[i].pid \notin alive)
           /\ \E route \in BOOLEAN :
                LET kill == entry[i].own \/ ~route
                IN /\ ~route => entry[i].pid \in alive
                   /\ entry' = IF kill THEN [entry EXCEPT ![i] = Destroyed(@, "other")] ELSE entry
                   /\ alive' = IF kill THEN alive \ {entry[i].pid} ELSE alive
                   /\ MoveTo(0, IF route THEN "reread" ELSE "answer")
           /\ map' = [map EXCEPT ![s] = 0]
           /\ saved' = NoFile
           /\ request' = [request EXCEPT !.entry = 0]
           /\ UNCHANGED idle
  /\ UNCHANGED <<log, born, setups, broken, exits, snap, launched, history, calls>>

(* Second half: the file again, then the address in the log of Vite; a      *)
(* server that just failed to answer may be silent again.                  *)
Adopt(i, e) ==
  /\ entry' = [entry EXCEPT ![i] = [e EXCEPT !.watched = e.status = "running"]]
  /\ map' = [map EXCEPT ![request.scope] = i]
  /\ idle' = IF e.status = "running" THEN [idle EXCEPT ![i] = "top"] ELSE idle
  /\ request' = [request EXCEPT !.entry = i]
  /\ UNCHANGED alive

Reread ==
  /\ at[0] = "reread"
  /\ LET e == Prepared(Loaded(saved, request.scope))
         logged == [e EXCEPT !.pid = log, !.status = "running", !.reason = "none"]
         pending == e.status \in {"starting", "prepared"}
     IN \/ /\ pending \/ (~Terminal(e) /\ e.pid \in alive)
           /\ HasFresh /\ Adopt(Fresh, e)
           /\ UNCHANGED <<saved, hitches>>
        \/ /\ ~pending /\ ~Terminal(e)
           /\ \E answers \in BOOLEAN :
                /\ Outcome(e.pid \notin alive /\ (answers \/ log \notin alive \/ hitches > 0))
                /\ \/ /\ log \in alive /\ answers
                      /\ HasFresh /\ Adopt(Fresh, logged) /\ saved' = State(logged)
                   \/ /\ log \in alive /\ ~answers
                      /\ alive' = alive \ {log} /\ saved' = NoFile
                      /\ UNCHANGED <<entry, map, idle, request>>
                   \/ /\ log \notin alive /\ answers
                      /\ saved' = NoFile
                      /\ UNCHANGED <<entry, map, idle, request, alive>>
        \/ /\ Terminal(e)
           /\ UNCHANGED <<entry, map, saved, idle, alive, request, hitches>>
  /\ MoveTo(0, "answer")
  /\ UNCHANGED <<log, born, setups, broken, exits, snap, launched, history, calls>>

-----------------------------------------------------------------------------
(* What the operation does of the entry found.                             *)
Found == request.entry # 0
It == IF Found THEN entry[request.entry] ELSE Free

(* Mutant: the process is not destroyed.                                   *)
StopLeaves ==
  /\ at[0] = "answer" /\ request.op = "stop" /\ Found
  /\ entry' = [entry EXCEPT ![request.entry] = Destroyed(@, "manual")]
  /\ stopped' = TRUE
  /\ excused' = (excused \/ \E i \in Ids : at[i] # "off" /\ ~(i = request.entry /\ at[i] = "prepare"))
  /\ MoveTo(0, "finalize")
  /\ UNCHANGED <<map, saved, processes, watching, request, launched, restarted, calls, hitches>>

(* frontendStopDev: the entry is destroyed, then the file is final.        *)
StopDev ==
  /\ at[0] = "answer" /\ request.op = "stop" /\ Found
  /\ entry' = [entry EXCEPT ![request.entry] = Destroyed(@, "manual")]
  /\ alive' = alive \ {It.pid}
  /\ stopped' = TRUE
  /\ excused' = (excused \/ \E i \in Ids : at[i] # "off" /\ ~(i = request.entry /\ at[i] = "prepare"))
  /\ MoveTo(0, "finalize")
  /\ UNCHANGED <<map, saved, log, born, setups, broken, watching, request, launched,
                 restarted, calls, hitches>>

Finalize ==
  /\ at[0] = "finalize"
  /\ LET e == [It EXCEPT !.status = "stopped", !.old = FALSE]
     IN /\ entry' = Aged([entry EXCEPT ![request.entry] = e], request.entry)
        /\ saved' = State(e)
        /\ excused' = Overwrites(e.pid)
  /\ map' = [map EXCEPT ![request.scope] = 0]
  /\ Done
  /\ UNCHANGED <<processes, watching, launched, stopped, restarted, calls, hitches>>

(* There is nothing to stop or to synchronise, or what is asked is under   *)
(* way.                                                                    *)
Nothing ==
  /\ at[0] = "answer"
  /\ \/ request.op = "open"
     \/ request.op \in {"stop", "sync"} /\ ~Found
     \/ /\ request.op \in {"start", "background"} /\ Found /\ It.status # "failed"
        /\ ~(request.op = "start" /\ It.status = "prepared")
  /\ Done
  /\ UNCHANGED <<entry, map, saved, processes, watching, launched, history, calls, hitches>>

(* frontendStartDev: a failed entry is forgotten, a prepared one launched. *)
Start ==
  /\ at[0] = "answer" /\ request.op \in {"start", "background"}
  /\ ~Found \/ It.status = "failed" \/ (It.status = "prepared" /\ request.op = "start")
  /\ IF Found /\ It.status = "failed"
     THEN map' = [map EXCEPT ![request.scope] = 0] /\ saved' = NoFile
     ELSE UNCHANGED <<map, saved>>
  /\ MoveTo(0, IF request.op = "start" THEN "install" ELSE "background")
  /\ stopped' = FALSE
  /\ UNCHANGED <<entry, processes, watching, request, launched, excused, restarted, calls,
                 hitches>>

(* frontendStartDevBackground: dependencies are there, or a process begins *)
(* to install those of the builder or of the application, or it fails.     *)
Background ==
  /\ at[0] = "background" /\ HasFresh
  /\ \E status \in {"prepared", "starting", "failed"}, app \in BOOLEAN :
       LET e == [Free EXCEPT !.status = status, !.app = app, !.scope = request.scope,
                             !.own = (status = "starting"),
                             !.pid = IF status = "starting" THEN born + 1 ELSE 0]
       IN /\ Outcome(status # "failed")
          /\ status = "prepared" => app
          /\ IF status = "starting"
             THEN /\ born < MaxProcesses /\ born' = born + 1
                  /\ alive' = alive \cup {e.pid} /\ setups' = setups \cup {e.pid}
             ELSE UNCHANGED <<born, alive, setups>>
          /\ entry' = Aged([entry EXCEPT ![Fresh] = e], Fresh)
          /\ map' = [map EXCEPT ![request.scope] = Fresh]
          /\ saved' = State(e)
          /\ at' = [at EXCEPT ![0] = "off",
                             ![Fresh] = IF app /\ status # "failed" THEN "prepare" ELSE "off"]
  /\ request' = NoRequest
  /\ UNCHANGED <<log, broken, watching, launched, history, calls>>

(* frontendSyncDev: an installation under way is waited for.               *)
Sync ==
  /\ at[0] = "answer" /\ request.op = "sync" /\ Found
  /\ It.status = "starting" => It.pid \notin alive
  /\ LET e == Prepared(It)
     IN IF e.status = "failed" \/ (e.status = "prepared" /\ e.act)
        THEN Done /\ entry' = [entry EXCEPT ![request.entry] = e]
        ELSE /\ entry' = [entry EXCEPT ![request.entry] =
                            [e EXCEPT !.act = @ \/ e.status = "prepared"]]
             /\ request' = [request EXCEPT !.op = IF e.status = "prepared" THEN "sync start" ELSE @]
             /\ MoveTo(0, IF e.status = "prepared" THEN "install" ELSE "generate")
  /\ stopped' = FALSE
  /\ UNCHANGED <<map, saved, processes, watching, launched, excused, restarted, calls,
                 hitches>>

(* The sources are generated; when their dependencies changed the server   *)
(* is launched again, else the entry is written back.                      *)
GenerateDev ==
  /\ at[0] = "generate"
  /\ \/ /\ MoveTo(0, "launch") /\ request' = [request EXCEPT !.op = "restart"]
        /\ entry' = [entry EXCEPT ![request.entry] = Destroyed(@, "other")]
        /\ alive' = alive \ {It.pid}
        /\ UNCHANGED <<saved, hitches>>
     \/ /\ Done
        /\ \E fine \in BOOLEAN :
             /\ Outcome(fine)
             /\ saved' = IF fine THEN State(It) ELSE saved
             /\ entry' = IF fine THEN Aged(entry, request.entry) ELSE entry
        /\ UNCHANGED alive
  /\ UNCHANGED <<map, log, born, setups, broken, watching, launched, history, calls>>

(* frontendStartDevNow: the dependencies first.                            *)
Install ==
  /\ at[0] = "install"
  /\ \E fine \in BOOLEAN :
       /\ Outcome(fine)
       /\ IF fine THEN MoveTo(0, "launch") /\ UNCHANGED <<entry, request>>
          ELSE Done /\ entry' = IF request.op = "sync start"
                                THEN [entry EXCEPT ![request.entry].act = FALSE] ELSE entry
  /\ UNCHANGED <<map, saved, processes, watching, launched, history, calls>>

-----------------------------------------------------------------------------
(* frontendLaunchVite, for the request (0) or an activation: the process,  *)
(* the wait for its first answer, then the entry, then the file.           *)
LaunchVite(w) ==
  /\ at[w] = "launch" /\ born < MaxProcesses
  /\ born' = born + 1 /\ log' = born + 1
  /\ alive' = alive \cup {born + 1}
  /\ launched' = [launched EXCEPT ![w] = born + 1]
  /\ MoveTo(w, "ready")
  /\ UNCHANGED <<entry, map, saved, setups, broken, watching, request, history, calls, hitches>>

Scp(w) == IF w = 0 THEN request.scope ELSE entry[w].scope

Ready(w) ==
  /\ at[w] = "ready"
  /\ \/ /\ launched[w] \in alive
        /\ MoveTo(w, "publish") /\ UNCHANGED <<alive, launched, hitches>>
     \/ /\ Outcome(launched[w] \notin alive)
        /\ alive' = alive \ {launched[w]}
        /\ launched' = [launched EXCEPT ![w] = 0]
        /\ MoveTo(w, "failed")
  /\ UNCHANGED <<entry, map, saved, log, born, setups, broken, watching, request, history, calls>>

(* A launch that failed: the restarted server is forgotten, the prepared   *)
(* one can be tried again, an activation records its failure.              *)
LaunchFails(w) ==
  /\ at[w] = "failed"
  /\ \/ /\ w = 0 /\ request.op = "restart"
        /\ map' = [map EXCEPT ![request.scope] = 0] /\ saved' = NoFile /\ UNCHANGED <<entry, excused>>
     \/ /\ w = 0 /\ request.op # "restart"
        /\ entry' = IF request.op = "sync start"
                    THEN [entry EXCEPT ![request.entry].act = FALSE] ELSE entry
        /\ UNCHANGED <<map, saved, excused>>
     \/ /\ w # 0
        /\ LET e == [entry[w] EXCEPT !.status = "failed"]
           IN entry' = Aged([entry EXCEPT ![w] = e], w) /\ saved' = State(e)
        /\ excused' = Overwrites(entry[w].pid)
        /\ UNCHANGED map
  /\ MoveTo(w, "off")
  /\ request' = IF w = 0 THEN NoRequest ELSE request
  /\ UNCHANGED <<processes, watching, launched, stopped, restarted, calls, hitches>>

PublishEntry(w) ==
  /\ at[w] = "publish" /\ HasFresh
  /\ entry' = [entry EXCEPT ![Fresh] = [Free EXCEPT !.status = "running", !.pid = launched[w], !.own = TRUE,
                                                    !.scope = Scp(w), !.watched = TRUE]]
  /\ map' = [map EXCEPT ![Scp(w)] = Fresh]
  /\ launched' = [launched EXCEPT ![w] = Fresh]
  /\ MoveTo(w, "record")
  /\ UNCHANGED <<saved, processes, watching, request, history, calls, hitches>>

Record(w) ==
  /\ at[w] = "record"
  /\ LET i == launched[w]
     IN /\ saved' = State(entry[i])
        /\ entry' = Aged(entry, i)
        /\ exits' = [exits EXCEPT ![i] = "wait"] /\ idle' = [idle EXCEPT ![i] = "top"]
  /\ launched' = [launched EXCEPT ![w] = 0]
  /\ MoveTo(w, "off")
  /\ request' = IF w = 0 THEN NoRequest ELSE request
  /\ UNCHANGED <<map, processes, snap, history, calls, hitches>>

(* Mutant: the entry may have been stopped or replaced meanwhile.          *)
ActivateAnyway(i) ==
  /\ at[i] = "prepare"
  /\ entry[i].status = "starting" => entry[i].pid \notin alive
  /\ LET e == Prepared(entry[i])
         go == e.status \in {"prepared", "stopped"} /\ ~e.act
     IN /\ entry' = [entry EXCEPT ![i] = [e EXCEPT !.act = @ \/ go]]
        /\ MoveTo(i, IF go THEN "launch" ELSE "off")
        /\ excused' = (excused \/ (go /\ Unseen(i)))
  /\ UNCHANGED <<map, saved, processes, watching, request, launched, stopped, restarted, calls,
                 hitches>>

(* The activation thread: the installation ends, then Vite is launched     *)
(* unless the entry was stopped, launched or replaced meanwhile.           *)
Activate(i) ==
  /\ at[i] = "prepare"
  /\ entry[i].status = "starting" => entry[i].pid \notin alive
  /\ LET e == Prepared(entry[i])
         go == ~e.cancelled /\ e.status = "prepared" /\ ~e.act /\ map[e.scope] = i
     IN /\ entry' = [entry EXCEPT ![i] = [e EXCEPT !.act = @ \/ go]]
        /\ MoveTo(i, IF go THEN "launch" ELSE "off")
        /\ excused' = (excused \/ (go /\ Unseen(i)))
  /\ UNCHANGED <<map, saved, processes, watching, request, launched, stopped, restarted, calls,
                 hitches>>

-----------------------------------------------------------------------------
(* The exit watcher of a process of its own: the file is read, then made   *)
(* final when it is of the same process.                                   *)
ExitReads(i) ==
  /\ exits[i] = "wait" /\ entry[i].pid \notin alive
  /\ LET s == entry[i].scope
         c == map[s]
     IN map' = [map EXCEPT ![s] = IF c # 0 /\ (c = i \/ entry[c].pid = entry[i].pid) THEN 0 ELSE c]
  /\ snap' = [snap EXCEPT ![i].exit = saved]
  /\ exits' = [exits EXCEPT ![i] = IF saved.pid = entry[i].pid THEN "write" ELSE "off"]
  /\ UNCHANGED <<entry, saved, processes, at, idle, request, launched, history, calls, hitches>>

(* Final status and reason of a process found dead.                        *)
Final(f, cancelled, reason) ==
  LET wanted == cancelled \/ f.status \in {"stopping", "stopped"} \/ f.reason \notin {"none", "exited"}
  IN [pid |-> f.pid, status |-> IF wanted THEN "stopped" ELSE "exited",
      reason |-> IF f.reason # "none" THEN f.reason ELSE IF reason # "none" THEN reason
                 ELSE IF wanted THEN "manual" ELSE "exited"]

ExitWrites(i) ==
  /\ exits[i] = "write"
  /\ saved' = Final(snap[i].exit, entry[i].cancelled, entry[i].reason)
  /\ excused' = Overwrites(entry[i].pid)
  /\ entry' = Aged(entry, 0)
  /\ exits' = [exits EXCEPT ![i] = "off"] /\ snap' = [snap EXCEPT ![i].exit = NoFile]
  /\ UNCHANGED <<map, processes, at, idle, request, launched, stopped, restarted, calls, hitches>>

(* The idle watcher: it ends with the entry, or when another process took  *)
(* its place.                                                              *)
IdleTop(i) ==
  /\ idle[i] = "top"
  /\ LET c == map[entry[i].scope]
         replaced == c \notin {0, i} /\ (entry[i].pid = 0 \/ entry[c].pid # entry[i].pid)
     IN idle' = [idle EXCEPT ![i] = IF entry[i].cancelled \/ Terminal(entry[i]) \/ replaced THEN "off"
                                    ELSE IF c \in {0, i} THEN "check" ELSE "check other"]
  /\ UNCHANGED <<entry, map, saved, processes, at, exits, snap, request, launched, history,
                 calls, hitches>>

IdleChecks(i) ==
  /\ idle[i] \in {"check", "check other"}
  /\ idle' = [idle EXCEPT ![i] = IF Alive(entry[i]) THEN "poll"
                                 ELSE IF idle[i] = "check" THEN "gone" ELSE "off"]
  /\ UNCHANGED <<entry, map, saved, processes, at, exits, snap, request, launched, history,
                 calls, hitches>>

(* The process is dead: it is forgotten, then recorded if the file is of   *)
(* the same process and not final yet.                                     *)
IdleGone(i) ==
  /\ idle[i] = "gone"
  /\ map' = [map EXCEPT ![entry[i].scope] = 0]
  /\ LET mine == saved.pid = entry[i].pid /\ saved.pid # 0 /\ saved.status \notin {"stopped", "exited"}
     IN /\ idle' = [idle EXCEPT ![i] = IF mine THEN "write" ELSE "off"]
        /\ snap' = [snap EXCEPT ![i].idle = IF mine THEN saved ELSE NoFile]
  /\ UNCHANGED <<entry, saved, processes, at, exits, request, launched, history, calls, hitches>>

IdleWrites(i) ==
  /\ idle[i] = "write"
  /\ saved' = Final([snap[i].idle EXCEPT !.status = IF @ = "stopping" THEN @ ELSE "running"],
                    FALSE, "none")
  /\ excused' = Overwrites(entry[i].pid)
  /\ entry' = Aged(entry, 0)
  /\ idle' = [idle EXCEPT ![i] = "off"] /\ snap' = [snap EXCEPT ![i].idle = NoFile]
  /\ UNCHANGED <<map, processes, at, exits, request, launched, stopped, restarted, calls, hitches>>

(* The viewers are read (DevIdle): a change of them is written, and when   *)
(* there is none for long enough the server is stopped.                    *)
IdlePolls(i) ==
  /\ idle[i] = "poll"
  /\ \/ /\ idle' = [idle EXCEPT ![i] = "top"]
        /\ \/ entry' = Aged(entry, i) /\ saved' = State(entry[i]) /\ excused' = Overwrites(entry[i].pid)
           \/ UNCHANGED <<entry, saved, excused>>
     \/ /\ LET e == [entry[i] EXCEPT !.status = "stopping", !.reason = "idle", !.old = FALSE]
           IN entry' = Aged([entry EXCEPT ![i] = e], i) /\ saved' = State(e)
        /\ excused' = Overwrites(entry[i].pid)
        /\ idle' = [idle EXCEPT ![i] = "stop"]
  /\ UNCHANGED <<map, processes, at, exits, snap, request, launched, stopped, restarted, calls, hitches>>

(* Mutant: the entry of the scope is forgotten, its process left to end.   *)
IdleStopsLater(i) ==
  /\ idle[i] = "stop"
  /\ entry' = [entry EXCEPT ![i] = Destroyed(@, "idle")]
  /\ map' = [map EXCEPT ![entry[i].scope] = IF @ = i THEN 0 ELSE @]
  /\ idle' = [idle EXCEPT ![i] = "final"]
  /\ UNCHANGED <<saved, processes, at, exits, snap, request, launched, history, calls, hitches>>

IdleStops(i) ==
  /\ idle[i] = "stop"
  /\ entry' = [entry EXCEPT ![i] = Destroyed(@, "idle")]
  /\ alive' = alive \ {entry[i].pid}
  /\ map' = [map EXCEPT ![entry[i].scope] = IF @ = i THEN 0 ELSE @]
  /\ idle' = [idle EXCEPT ![i] = "final"]
  /\ UNCHANGED <<saved, log, born, setups, broken, at, exits, snap, request, launched,
                 history, calls, hitches>>

IdleFinal(i) ==
  /\ idle[i] = "final"
  /\ LET e == [entry[i] EXCEPT !.status = "stopped", !.old = FALSE]
     IN entry' = Aged([entry EXCEPT ![i] = e], i) /\ saved' = State(e)
  /\ excused' = Overwrites(entry[i].pid)
  /\ idle' = [idle EXCEPT ![i] = "off"]
  /\ UNCHANGED <<map, processes, at, exits, snap, request, launched, stopped, restarted, calls, hitches>>

-----------------------------------------------------------------------------
(* An installation ends, fails; Vite exits; a viewer comes or leaves.      *)
ProcessExits(p) ==
  /\ p \in alive
  /\ \E fine \in BOOLEAN :
       /\ Outcome(fine) /\ (fine => p \in setups)
       /\ broken' = IF p \in setups /\ ~fine THEN broken \cup {p} ELSE broken
  /\ alive' = alive \ {p}
  /\ UNCHANGED <<entry, map, saved, log, born, setups, at, watching, request, launched, history,
                 calls>>

(* The server restarts: threads and entries are lost, processes may not.   *)
Restart ==
  /\ Hitch
  /\ entry' = [i \in Ids |-> Free] /\ map' = [s \in Scopes |-> 0]
  /\ alive' \in SUBSET alive
  /\ at' = [w \in Runner |-> "off"]
  /\ idle' = [i \in Ids |-> "off"] /\ exits' = [i \in Ids |-> "off"]
  /\ snap' = [i \in Ids |-> [idle |-> NoFile, exit |-> NoFile]]
  /\ request' = NoRequest /\ launched' = [w \in Runner |-> 0]
  /\ restarted' = TRUE
  /\ excused' = (excused \/ ~(alive' \ setups \subseteq {saved.pid}))
  /\ UNCHANGED <<saved, log, born, setups, broken, stopped, calls>>

ServeStep ==
  \/ Look \/ Http \/ Reread \/ StopDev \/ Finalize \/ Nothing \/ Start \/ Background \/ Sync
  \/ GenerateDev \/ Install

LaunchStep(w) == LaunchVite(w) \/ Ready(w) \/ LaunchFails(w) \/ PublishEntry(w) \/ Record(w)

WatcherStep(i) ==
  \/ ExitReads(i) \/ ExitWrites(i)
  \/ IdleTop(i) \/ IdleChecks(i) \/ IdleGone(i) \/ IdleWrites(i) \/ IdlePolls(i)
  \/ IdleStops(i) \/ IdleFinal(i)

DevNext ==
  \/ ServeStep
  \/ \E s \in Scopes : AskDev(s)
  \/ \E w \in Runner : LaunchStep(w)
  \/ \E i \in Ids : Activate(i) \/ WatcherStep(i)
  \/ \E p \in Pid : ProcessExits(p)
  \/ Restart

DevSpec == DevInit /\ [][DevNext]_devVars

-----------------------------------------------------------------------------
Files == [pid : Pid \cup {0}, status : Statuses \cup {"absent"}, reason : Reasons]

(* The state file is well formed, and a scope only knows entries made for it.  *)
DevTypeOK ==
  /\ saved \in Files
  /\ \A i \in Ids : entry[i].pid \in Pid \cup {0} /\ entry[i].status \in Statuses \cup {"free"}
  /\ \A s \in Scopes : map[s] # 0 => entry[map[s]].scope = s /\ entry[map[s]].status # "free"
  /\ alive \subseteq Pid /\ setups \subseteq Pid

AtRest == \A w \in Runner : at[w] = "off"
Reachable == {entry[map[s]].pid : s \in {s \in Scopes : map[s] # 0}} \cup {saved.pid, log}

(* Between requests every server that runs can still be found, by an entry  *)
(* of a scope, by the state file or by the log: none is left that no stop   *)
(* could reach (frontendDevEntry, Engine.js:10669-10755), unless one of the *)
(* races of the README happened.                                           *)
NoOrphan == AtRest /\ ~excused => Servers \subseteq Reachable

(* A project has one Vite server at a time, whoever starts it: requests of  *)
(* two scopes, the activation thread or a restart (Engine.js:11614, 11657). *)
OneServer == ~excused => Cardinality(Servers) <= 1

(* Once a stop was answered nothing runs again before it is asked to: the   *)
(* activation of what was being prepared gives up (Engine.js:11615-11617).  *)
StopHolds == stopped /\ ~excused => Servers = {}

(* A state that says stopped or exited is of a process that is dead,        *)
(* whoever wrote it: stop, exit watcher or idle watcher, in any order.      *)
FinalMeansDead == saved.status \in {"stopped", "exited"} => saved.pid \notin alive

(* Until the engine restarts, each server has an idle watcher at work that  *)
(* will stop it when its viewers are gone (Engine.js:11243).                *)
Watched == AtRest /\ ~excused /\ ~restarted =>
  \A p \in Servers : \E i \in Ids : entry[i].pid = p /\ idle[i] # "off"

(* A project has the server it asked for: one at most, none after a stop.  *)
ServersAsAsked == OneServer /\ StopHolds

(* A server that runs is in reach of a stop, and of a watcher that will    *)
(* stop it when nobody looks at it.                                        *)
WithinReach == NoOrphan /\ Watched

(* What the state file says of the server is true of its process.          *)
StateTrue == DevTypeOK /\ FinalMeansDead

================================================================================
