------------------------------ MODULE Desktop ------------------------------
(***************************************************************************)
(* The Windows application around an observer: the Electron shell          *)
(* (electron/main.js) starts launcher.js as a child process, finds out     *)
(* where it listens and shows its page; the launcher chooses a free port,  *)
(* runs the first setup and starts the node; the update manager            *)
(* (electron/updateManager.js) checks, downloads and installs releases.    *)
(*                                                                         *)
(* A child process is killed by a signal it takes some time to act on:     *)
(* until then it still holds its port and answers.  What electron-updater  *)
(* does (its events, a failing installer) and other programs that hold     *)
(* local ports are external.                                               *)
(***************************************************************************)
EXTENDS Integers, FiniteSets, FiniteSetsExt

CONSTANTS Procs,           \* child processes the shell can start (a bound)
          Overlap,         \* requests a poller has on their way at a time: one
                           \* a second, each answered within 2.4 seconds
          LastPort,        \* the ports are 1..LastPort, 1 is DEFAULT_PORT
          OfferedPorts,    \* those the user chooses from in the setup
          Situations       \* what other programs hold, whether there is a
                           \* configuration, and how many user actions and
                           \* failures there are of each kind

Ports == 1..LastPort
DefaultPort == 1
Nothing == 0

\* What another program may do with a port of this machine.
Holders == {"free", "other", "observer"}

ASSUME DesktopAssumption == /\ LastPort \in Nat \ {0}
                            /\ Procs \subseteq Nat \ {0} /\ IsFiniteSet(Procs)
                            /\ Overlap \in Nat \ {0}
                            /\ OfferedPorts \subseteq Ports
                            /\ \A s \in Situations :
                                 /\ s.foreign \in [Ports -> Holders]
                                 /\ s.config \in Ports \union {Nothing}

VARIABLES
  proc,      \* the child processes
  config,    \* the port in config.json, Nothing while there is no such file
  foreign,   \* the ports other programs hold
  shell,     \* the globals of main.js
  starts,    \* timers of restartBackend that will call startBackend
  pollers,   \* the ports the fallback pollers ask for
  asked,     \* for each port, the requests on their way
  waits,     \* processes whose app_url was read: waitForObserver runs
  marks,     \* processes whose setup_url was read and is being verified
  upd,       \* the update manager
  budget,    \* user actions and failures left
  history    \* what the properties exclude

desktopVars == <<proc, config, foreign, shell, starts, pollers, asked, waits,
                 marks, upd, budget, history>>

NotAsked == [port \in Ports |-> 0]

Starting == [kind |-> "starting", at |-> Nothing]
Failure == [kind |-> "failure", at |-> Nothing]
App(port) == [kind |-> "app", at |-> port]
Setup(p) == [kind |-> "setup", at |-> p]

States == {"none", "spawned", "setup", "closing", "starting", "serving",
           "dead"}
Statuses == {"none", "idle", "checking", "available", "current", "downloading",
             "downloaded", "error"}

\* The processes that run: killed ones until they act on the signal.
Alive == {p \in Procs : proc[p].st \notin {"none", "dead"}}
Serving(port) == {p \in Alive : proc[p].st = "serving" /\ proc[p].port = port}

\* findAvailablePort: the first port, from the one wanted, nobody listens on.
Free(port) == foreign[port] = "free" /\ Serving(port) = {}
FreeFrom(port) == {q \in Ports : q >= port /\ Free(q)}

\* verifyObserverUrl: something on this port says it is an observer.
Answers(port) == Serving(port) # {} \/ foreign[port] = "observer"

\* verifySetupUrl: the setup services that answer with their defaults.
Setups == {p \in Alive : proc[p].st = "setup"}

Spend(kind) == /\ budget[kind] > 0
               /\ budget' = [budget EXCEPT ![kind] = @ - 1]
Unspent == UNCHANGED budget

\* createUpdateManager, where updates are supported; status "none" before it.
NotChecked == [status |-> "idle", checking |-> FALSE, inCheck |-> FALSE,
               inDownload |-> 0, fetched |-> FALSE]

(***************************************************************************)
(* The shell.                                                              *)
(***************************************************************************)
DesktopInit ==
  /\ proc = [p \in Procs |-> [st |-> "none", port |-> Nothing,
                         killed |-> FALSE]]
  /\ shell = [phase |-> "begins", page |-> Starting, ready |-> FALSE,
              current |-> Nothing, retryUsed |-> FALSE, relaunch |-> 0,
              quitting |-> FALSE]
  /\ starts = 0
  /\ pollers = {} /\ asked = NotAsked /\ waits = {} /\ marks = {}
  /\ upd = [NotChecked EXCEPT !.status = "none"]
  /\ \E s \in Situations :
       foreign = s.foreign /\ config = s.config /\ budget = s.budget
  /\ history = [hasty |-> 0, lingered |-> FALSE, gaveUp |-> {}, setup |-> {},
                moved |-> {}]

\* spawn: the new child replaces the reference to any other.
Spawned(p) ==
  /\ proc[p].st = "none"
  /\ \A q \in Procs : q < p => proc[q].st # "none"
  /\ proc' = [proc EXCEPT ![p].st = "spawned"]

\* launch, with the shell as it is then: the child that is spawned is the one
\* the shell refers to.  syncRuntimeToAppData may throw: nothing is launched.
Launches(current) ==
  \/ /\ \E p \in Procs : Spawned(p) /\ shell' = [current EXCEPT !.current = p]
     /\ history' = [history EXCEPT !.lingered = @ \/ Alive # {}]
     /\ Unspent
  \/ /\ Spend("fail")
     /\ shell' = current
     /\ UNCHANGED <<proc, history>>

\* startBackend: it reads the configuration, starts a poller for its port and
\* launches a child.
Started(current) ==
  /\ Launches([current EXCEPT !.ready = FALSE])
  /\ pollers' = pollers \union
                 {IF config = Nothing THEN DefaultPort ELSE config}
  /\ UNCHANGED <<config, foreign, asked, waits, marks>>

\* app.whenReady: the backend is started at once; when that throws, there is no
\* update manager either.
Begin ==
  /\ shell.phase = "begins"
  /\ Started([shell EXCEPT !.phase = "open"])
  /\ upd' = IF shell'.current = Nothing THEN upd ELSE NotChecked
  /\ UNCHANGED starts

\* The timer of a restart, also of a shell that quits.
StartBackend ==
  /\ shell.phase # "gone" /\ starts > 0
  /\ Started(shell)
  /\ starts' = starts - 1
  /\ UNCHANGED upd

\* A spawn that fails says so at once, before anything can stop it.  When the
\* packaged runtime is not where it was copied (ENOENT) it is copied again and
\* launched once more after 250 ms; anything else, or a second time, shows the
\* failure page.
LaunchFails(p) ==
  /\ shell.phase # "gone" /\ proc[p].st = "spawned" /\ p = shell.current
  /\ Spend("fail")
  /\ proc' = [proc EXCEPT ![p].st = "dead"]
  /\ \/ shell' = [shell EXCEPT !.page = Failure]
     \/ /\ ~shell.retryUsed
        /\ shell' = [shell EXCEPT !.retryUsed = TRUE, !.relaunch = @ + 1]
  /\ UNCHANGED <<config, foreign, starts, pollers, asked, waits, marks, upd,
                 history>>

Relaunch ==
  /\ shell.phase # "gone" /\ shell.relaunch > 0
  /\ Launches([shell EXCEPT !.relaunch = @ - 1])
  /\ UNCHANGED <<config, foreign, starts, pollers, asked, waits, marks, upd>>

\* stopBackend: the child is sent the signal and forgotten.
Killed == IF shell.current = Nothing THEN proc
          ELSE [proc EXCEPT ![shell.current].killed = TRUE]

\* A timer to launch is still running when the child is stopped: whatever it
\* launches is not the child that was stopped.
Pending == starts + shell.relaunch
Overtaken == [history EXCEPT !.hasty = IF Pending > 0 THEN @ + 1 ELSE @]

\* Mutant of RestartBackend: the child is forgotten and not stopped.
RestartWithoutStop ==
  /\ shell.phase = "open" /\ Spend("user")
  /\ history' = Overtaken
  /\ starts' = starts + 1
  /\ shell' = [shell EXCEPT !.current = Nothing, !.retryUsed = FALSE,
                            !.ready = FALSE, !.page = Starting]
  /\ UNCHANGED <<proc, config, foreign, pollers, asked, waits, marks, upd>>

\* restartBackend, and resetLocalData when the data directory could be removed.
RestartBackend ==
  /\ shell.phase = "open" /\ Spend("user")
  /\ proc' = Killed
  /\ history' = Overtaken
  /\ starts' = starts + 1
  /\ shell' = [shell EXCEPT !.current = Nothing, !.retryUsed = FALSE,
                            !.ready = FALSE, !.page = Starting]
  /\ UNCHANGED <<config, foreign, pollers, asked, waits, marks, upd>>

\* observer:stop, and resetLocalData when a file of the killed child could not
\* be removed: rmSync throws and restartBackend is not reached.
StopBackend ==
  /\ shell.phase = "open" /\ Spend("user")
  /\ proc' = Killed
  /\ history' = Overtaken
  /\ shell' = [shell EXCEPT !.current = Nothing]
  /\ UNCHANGED <<config, foreign, starts, pollers, asked, waits, marks, upd>>

\* before-quit, from the menu, the tray or the last window that closes.
Quit ==
  /\ shell.phase = "open" /\ Spend("quit")
  /\ proc' = Killed
  /\ history' = Overtaken
  /\ shell' = [shell EXCEPT !.current = Nothing, !.quitting = TRUE,
                            !.phase = "quitting"]
  /\ UNCHANGED <<config, foreign, starts, pollers, asked, waits, marks, upd>>

\* The windows are closed and the process ends, with its timers.
Gone ==
  /\ shell.phase = "quitting"
  /\ shell' = [shell EXCEPT !.phase = "gone"]
  /\ UNCHANGED <<proc, config, foreign, starts, pollers, asked, waits, marks,
                 upd, budget, history>>

(***************************************************************************)
(* The child process: launcher.js and the node it starts.                  *)
(***************************************************************************)
\* startObserver: the node gets the first free port, the configuration is
\* rewritten when that is another one, and app_url is printed before the node
\* listens.
StartObserver(p, wanted) ==
  /\ FreeFrom(wanted) # {}
  /\ LET port == Min(FreeFrom(wanted))
     IN  /\ proc' = [proc EXCEPT ![p].st = "starting", ![p].port = port]
         /\ config' = port
         /\ history' = IF port = wanted THEN history
                       ELSE [history EXCEPT !.moved = @ \union {p}]
  /\ waits' = IF shell.phase = "gone" THEN waits ELSE waits \union {p}

\* startObserverApp with a configuration.
BootObserver(p) ==
  /\ proc[p].st = "spawned" /\ ~proc[p].killed /\ config # Nothing
  /\ StartObserver(p, config)
  /\ UNCHANGED <<foreign, shell, starts, pollers, asked, marks, upd, budget>>

\* startObserverApp without one: the setup service, and setup_url.
BootSetup(p) ==
  /\ proc[p].st = "spawned" /\ ~proc[p].killed /\ config = Nothing
  /\ proc' = [proc EXCEPT ![p].st = "setup"]
  /\ marks' = IF shell.phase = "gone" THEN marks ELSE marks \union {p}
  /\ UNCHANGED <<config, foreign, shell, starts, pollers, asked, waits, upd,
                 budget, history>>

\* /setup/save: the configuration is written and the setup service closes.  The
\* user takes longer to fill in the form than the request of a poller (1.2 s).
SaveSetup(p) ==
  /\ shell.page = Setup(p) /\ shell.phase = "open"
  /\ asked = NotAsked /\ marks = {}
  /\ proc[p].st = "setup" /\ ~proc[p].killed
  /\ \E port \in OfferedPorts :
       /\ config' = port
       /\ proc' = [proc EXCEPT ![p].st = "closing", ![p].port = port]
  /\ history' = [history EXCEPT !.setup = @ \union {p}]
  /\ UNCHANGED <<foreign, shell, starts, pollers, asked, waits, marks, upd,
                 budget>>

\* server.close calls back: the same process starts the node.
SetupClosed(p) ==
  /\ proc[p].st = "closing" /\ ~proc[p].killed
  /\ StartObserver(p, proc[p].port)
  /\ UNCHANGED <<foreign, shell, starts, pollers, asked, marks, upd, budget>>

\* A child ends: the page says so, unless the shell quits, a page was ready or
\* the child said that it ended well.
Ended(p, failed) ==
  /\ proc' = [proc EXCEPT ![p].st = "dead"]
  /\ shell' = IF failed /\ ~shell.quitting /\ ~shell.ready
                 /\ shell.phase # "gone"
              THEN [shell EXCEPT !.page = Failure] ELSE shell
  /\ UNCHANGED <<config, foreign, starts, pollers, asked, waits, marks, upd,
                 history>>

\* The node opened its storage and listens, or finds the port taken since.
Listen(p) ==
  /\ proc[p].st = "starting" /\ ~proc[p].killed
  /\ Free(proc[p].port)
  /\ proc' = [proc EXCEPT ![p].st = "serving"]
  /\ UNCHANGED <<config, foreign, shell, starts, pollers, asked, waits, marks,
                 upd, budget, history>>

ListenFails(p) ==
  /\ proc[p].st = "starting" /\ ~proc[p].killed
  /\ ~Free(proc[p].port)
  /\ Ended(p, TRUE)
  /\ Unspent

\* A killed child acts on the signal.  Its exit code is null, or 0 when the
\* node's own handler ran.
Die(p) ==
  /\ p \in Alive /\ proc[p].killed
  /\ \E failed \in (IF proc[p].st = "serving" THEN BOOLEAN ELSE {TRUE}) :
       Ended(p, failed)
  /\ Unspent

\* A child that fails on its own: the storage does not open, an exception.
Crash(p) ==
  /\ p \in Alive /\ ~proc[p].killed
  /\ Spend("fail")
  /\ Ended(p, TRUE)

(***************************************************************************)
(* How the shell learns where the child listens.                           *)
(***************************************************************************)
Show(page) == [shell EXCEPT !.ready = TRUE, !.page = page]

\* waitForObserver reads an observer's status on the port of app_url.
WaitSucceeds(p) ==
  /\ shell.phase # "gone" /\ p \in waits
  /\ Answers(proc[p].port)
  /\ shell' = Show(App(proc[p].port))
  /\ waits' = waits \ {p}
  /\ UNCHANGED <<proc, config, foreign, starts, pollers, asked, marks, upd,
                 budget, history>>

\* Or gives up after 15 seconds, whatever the page shows by then.
WaitGivesUp(p) ==
  /\ shell.phase # "gone" /\ p \in waits
  /\ ~Answers(proc[p].port)
  /\ shell' = [shell EXCEPT !.page = Failure]
  /\ waits' = waits \ {p}
  /\ history' = [history EXCEPT !.gaveUp = @ \union {p}]
  /\ UNCHANGED <<proc, config, foreign, starts, pollers, asked, marks, upd,
                 budget>>

\* setup_url is verified once; a failure is left to the pollers.
VerifySetup(p) ==
  /\ shell.phase # "gone" /\ p \in marks
  /\ shell' = IF p \in Setups THEN Show(Setup(p)) ELSE shell
  /\ marks' = marks \ {p}
  /\ UNCHANGED <<proc, config, foreign, starts, pollers, asked, waits, upd,
                 budget, history>>

\* The tick of a poller: it stops when a page was found, else it asks, whether
\* or not its last request was answered.
PollTick(port) ==
  /\ shell.phase # "gone" /\ port \in pollers
  /\ \/ shell.ready /\ pollers' = pollers \ {port} /\ UNCHANGED asked
     \/ /\ ~shell.ready /\ asked[port] < Overlap
        /\ asked' = [asked EXCEPT ![port] = @ + 1]
        /\ UNCHANGED pollers
  /\ UNCHANGED <<proc, config, foreign, shell, starts, waits, marks, upd,
                 budget, history>>

\* Mutant of PollAnswered: the poller asks once.
PollOnce(port) ==
  /\ shell.phase # "gone" /\ asked[port] > 0
  /\ shell' = IF Answers(port) THEN Show(App(port)) ELSE shell
  /\ pollers' = pollers \ {port}
  /\ asked' = [asked EXCEPT ![port] = @ - 1]
  /\ UNCHANGED <<proc, config, foreign, starts, waits, marks, upd, budget,
                 history>>

\* The answer: an observer on the port, else the setup service, else nothing.
\* What was found meanwhile is not looked at again.
PollAnswered(port) ==
  /\ shell.phase # "gone" /\ asked[port] > 0
  /\ LET found == Answers(port) \/ Setups # {}
     IN  /\ \/ Answers(port) /\ shell' = Show(App(port))
            \/ /\ ~Answers(port)
               /\ \E p \in Setups : shell' = Show(Setup(p))
            \/ ~found /\ UNCHANGED shell
         /\ pollers' = IF found THEN pollers \ {port} ELSE pollers
  /\ asked' = [asked EXCEPT ![port] = @ - 1]
  /\ UNCHANGED <<proc, config, foreign, starts, waits, marks, upd, budget,
                 history>>

(***************************************************************************)
(* The update manager.  checkForUpdates says "checking-for-update" when it  *)
(* is called; the other events come later.                                 *)
(***************************************************************************)
\* Mutant of CanCheck: check only looks at its own flag.
CanCheckAlways == ~upd.checking

CanCheck == ~upd.checking /\ upd.status # "downloading"

UpdateStep == UNCHANGED <<proc, config, foreign, starts, pollers, asked, waits,
                          marks, history>>

\* check, by the timer or by the user.
Check ==
  /\ shell.phase = "open" /\ upd.status # "none" /\ CanCheck /\ Spend("check")
  /\ upd' = [upd EXCEPT !.checking = TRUE, !.inCheck = TRUE,
                        !.status = "checking"]
  /\ UpdateStep /\ UNCHANGED shell

CheckAnswered ==
  /\ shell.phase # "gone" /\ upd.inCheck
  /\ \E status \in {"available", "current", "error"} :
       upd' = [upd EXCEPT !.checking = FALSE, !.inCheck = FALSE,
                          !.status = status]
  /\ UpdateStep /\ UNCHANGED <<shell, budget>>

\* download, by the user.  The progress it reports changes no status.
Download ==
  /\ shell.phase = "open" /\ upd.status = "available"
  /\ upd' = [upd EXCEPT !.status = "downloading", !.inDownload = @ + 1]
  /\ UpdateStep /\ UNCHANGED <<shell, budget>>

Downloaded ==
  /\ shell.phase # "gone" /\ upd.inDownload > 0
  /\ upd' = [upd EXCEPT !.status = "downloaded", !.inDownload = @ - 1,
                        !.fetched = TRUE]
  /\ UpdateStep /\ UNCHANGED <<shell, budget>>

\* The event "error" and the rejection it comes with.
DownloadFails ==
  /\ shell.phase # "gone" /\ upd.inDownload > 0 /\ Spend("fail")
  /\ upd' = [upd EXCEPT !.status = "error", !.inDownload = @ - 1,
                        !.checking = FALSE]
  /\ UpdateStep /\ UNCHANGED shell

\* install: beforeInstall stops the child; the installer takes over, or does
\* not start and the shell stays as it is, with its child stopped.
Install ==
  /\ shell.phase = "open" /\ upd.status = "downloaded"
  /\ proc' = Killed
  /\ history' = Overtaken
  /\ \E starts_ \in BOOLEAN :
       /\ shell' = [shell EXCEPT !.current = Nothing, !.quitting = TRUE,
                                 !.phase = IF starts_ THEN "quitting" ELSE @]
       /\ upd' = IF starts_ THEN upd ELSE [upd EXCEPT !.status = "error"]
  /\ UNCHANGED <<config, foreign, starts, pollers, asked, waits, marks, budget>>

Child(p) ==
  \/ BootObserver(p) \/ BootSetup(p) \/ SetupClosed(p)
  \/ Listen(p) \/ ListenFails(p) \/ Die(p)

Learn(p) == WaitSucceeds(p) \/ WaitGivesUp(p) \/ VerifySetup(p)
Poll(port) == PollTick(port) \/ PollAnswered(port)
Updater == \/ Check \/ CheckAnswered \/ Download
           \/ Downloaded \/ DownloadFails \/ Install
User == RestartBackend \/ StopBackend \/ Quit

DesktopNext ==
  \/ User \/ Begin \/ StartBackend \/ Relaunch \/ Gone \/ Updater
  \/ \E p \in Procs : Child(p) \/ Learn(p) \/ SaveSetup(p) \/ Crash(p)
                      \/ LaunchFails(p)
  \/ \E port \in Ports : Poll(port)

(***************************************************************************)
(* Timers fire, a live child gets on with starting, requests are answered  *)
(* or time out.  Nothing makes the user act, and nothing stops a child     *)
(* from failing.                                                           *)
(***************************************************************************)
DesktopFairness ==
  /\ WF_desktopVars(Begin) /\ WF_desktopVars(StartBackend) /\ WF_desktopVars(Relaunch)
  /\ \A p \in Procs : WF_desktopVars(Child(p)) /\ WF_desktopVars(Learn(p))
  /\ \A port \in Ports : /\ WF_desktopVars(PollTick(port))
                          /\ WF_desktopVars(PollAnswered(port))

DesktopSpec == DesktopInit /\ [][DesktopNext]_desktopVars /\ DesktopFairness

----------------------------------------------------------------------------
\* The variables have their types; a page with an address shows something that
\* was there, and only a saved setup has a configuration.
DesktopTypeOK ==
  /\ proc \in [Procs -> [st : States, port : Ports \union {Nothing},
                         killed : BOOLEAN]]
  /\ config \in Ports \union {Nothing}
  /\ shell.current \in Procs \union {Nothing}
  /\ upd.status \in Statuses
  /\ \A p \in Procs : proc[p].st \in {"closing", "starting", "serving"}
                        => proc[p].port # Nothing /\ config # Nothing
  /\ shell.page.kind = "setup" => shell.page.at \in Procs

\* The children that nobody can stop any more: not told to, and not the one the
\* shell refers to, or left when it is gone.
Forgotten == {p \in Alive : /\ ~proc[p].killed
                            /\ p # shell.current \/ shell.phase = "gone"}

\* Through restarts, resets, stops, retries, failed launches and quits no child
\* is left that nobody can stop, but for one for each stop that came while a
\* launch was pending: what the timer launches then is not the child that was
\* stopped (main.js, restartBackend and stopBackend).  A child that was told to
\* stop may run beside the next one until it acts on the signal.
NoneForgotten == Cardinality(Forgotten) <= history.hasty

\* Of docs/observer.md: the shell stops the local backend and only then launches
\* the installer.  No child runs that was not told to stop.
InstallStopsBackend ==
  [][upd.status = "downloaded" /\ shell.phase = "open" /\ shell'.phase = "quitting"
       => \A p \in Alive' : proc'[p].killed]_desktopVars

\* A check and a download of an update are never under way at once, there is one
\* download at most, and what can be installed was downloaded.
OneUpdateStep ==
  /\ ~(upd.inCheck /\ upd.inDownload > 0)
  /\ upd.inDownload <= 1
  /\ upd.status = "downloaded" => upd.fetched

\* The state keeps its types, and the update manager its one step at a time,
\* through restarts, failed launches and the timers that overtake them
\* (main.js, updateManager.js).
DesktopIsSound ==
  /\ DesktopTypeOK
  /\ OneUpdateStep

\* What may keep the page of a running child from the user: another observer on
\* a port, a launch while the last child still runs, and a wait that gave up for a child
\* no poller asks for any more.
Excused(p) ==
  \/ history.hasty > 0 \/ history.lingered
  \/ \E port \in Ports : foreign[port] = "observer"
  \/ history.gaveUp \ {p} # {}
  \/ p \in history.gaveUp /\ p \in history.setup \union history.moved

\* A child that serves is eventually shown, however its address was learned,
\* unless it ends, is stopped, or the shell is gone.
ServedIsShown ==
  \A p \in Procs :
    proc[p].st = "serving" /\ shell.phase = "open"
      ~> \/ shell.page = App(proc[p].port)
         \/ proc[p].st = "dead" \/ proc[p].killed
         \/ shell.phase # "open" \/ Excused(p)
=============================================================================
