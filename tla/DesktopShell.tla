---------------------------- MODULE DesktopShell ----------------------------
(***************************************************************************)
(* The Electron shell (electron/main.js): it starts the server binary,     *)
(* waits until port 3000 answers, shows a window and a tray icon, and      *)
(* takes the server down with the application.                             *)
(*                                                                         *)
(* Every callback is an action: the events of the child process, of the    *)
(* HTTP probes, of timers and dialogs, and of the user.  The child dies in *)
(* one step and its close event is handled in a later one.  The texts of   *)
(* dialogs and logs are left out, with the analysis that chooses them.     *)
(***************************************************************************)
EXTENDS Naturals, FiniteSets

CONSTANTS MaxRetries,  \* probes before checkServerAvailability gives up
          Mac          \* macOS sends activate when the Dock icon is clicked

ASSUME ShellAssumption == MaxRetries \in Nat \ {0} /\ Mac \in BOOLEAN

VARIABLES app,         \* "running" or "exited"
          server,      \* the child: "none" (development mode), "booting", "serving", "dead"
          foreign,     \* does another process answer on the port
          closeEvent,  \* "none", or the exit code whose close event is to come
          handle,      \* serverProcess is set
          startup,     \* the promise whenReady awaits, and what followed
          probes,      \* scheduled and pending connections of checkServerAvailability
          attempt,     \* currentAttempt
          windows, mainWindow, tray,
          isQuitting,
          dialogs,     \* message boxes on the screen
          killTimer, exitOnClose  \* what before-quit armed and registered

child == <<server, foreign, closeEvent>>
probing == <<startup, probes, attempt>>
shown == <<windows, mainWindow, tray>>
quitting == <<killTimer, exitOnClose>>
vars == <<app, child, handle, probing, shown, isQuitting, dialogs, quitting>>

Windows == {1, 2}
None == 0
Running == app = "running"
Alive == server \in {"booting", "serving"}

\* The state in which startServer returns to whenReady.  In development mode
\* there is no child and the developer's own server is probed.
Init ==
    /\ app = "running"
    /\ server \in {"none", "booting"}
    /\ foreign \in BOOLEAN
    /\ closeEvent = "none"
    /\ handle = (server = "booting")
    /\ startup = "waiting"
    /\ probes = [scheduled |-> 0, pending |-> 1]
    /\ attempt = 1
    /\ windows = [w \in Windows |-> "none"]
    /\ mainWindow = None
    /\ tray = FALSE
    /\ isQuitting = FALSE
    /\ dialogs = {}
    /\ killTimer = FALSE
    /\ exitOnClose = FALSE

-----------------------------------------------------------------------------
(* Windows.                                                                 *)

\* A third window never exists; see TypeOK.
createWindow ==
    \E w \in Windows :
        /\ windows[w] = "none" /\ \A v \in Windows : windows[v] = "none" => w <= v
        /\ windows' = [windows EXCEPT ![w] = "visible"]
        /\ mainWindow' = w

\* Mutant: no closed handler.
CloseKeepsReference(w) ==
    /\ windows' = IF isQuitting THEN [windows EXCEPT ![w] = "none"]
                  ELSE IF mainWindow = None THEN windows
                  ELSE [windows EXCEPT ![mainWindow] = "hidden"]
    /\ UNCHANGED mainWindow

\* The close handler of every window hides mainWindow, whichever it is by then.
Close(w) ==
    IF isQuitting
    THEN /\ windows' = [windows EXCEPT ![w] = "none"]
         /\ mainWindow' = None
    ELSE /\ windows' = IF mainWindow = None THEN windows
                       ELSE [windows EXCEPT ![mainWindow] = "hidden"]
         /\ UNCHANGED mainWindow

CloseWindow(w) ==
    /\ Running /\ windows[w] = "visible"
    /\ Close(w)
    /\ UNCHANGED <<app, child, handle, probing, tray, isQuitting, dialogs, quitting>>

\* "Show New API" in the tray menu, or a click on the icon of a hidden window.
TrayShow ==
    /\ Running /\ tray
    /\ IF mainWindow = None THEN createWindow
       ELSE /\ windows' = [windows EXCEPT ![mainWindow] = "visible"]
            /\ UNCHANGED mainWindow
    /\ UNCHANGED <<app, child, handle, probing, tray, isQuitting, dialogs, quitting>>

\* A click on the icon of a visible window.
TrayHide ==
    /\ Running /\ tray /\ mainWindow # None
    /\ windows[mainWindow] = "visible"
    /\ windows' = [windows EXCEPT ![mainWindow] = "hidden"]
    /\ UNCHANGED <<app, child, handle, probing, mainWindow, tray, isQuitting, dialogs, quitting>>

Activate ==
    /\ Running /\ Mac
    /\ \A w \in Windows : windows[w] = "none"
    /\ createWindow
    /\ UNCHANGED <<app, child, handle, probing, tray, isQuitting, dialogs, quitting>>

-----------------------------------------------------------------------------
(* Quitting.  app.quit() emits before-quit, then closes the windows; a      *)
(* window that refuses to close cancels it.                                 *)

Exit == app' = "exited"

quit ==
    IF handle
    THEN \* preventDefault, SIGTERM, a timer and a close listener
         /\ killTimer' = TRUE
         /\ exitOnClose' = TRUE
         /\ UNCHANGED app
    ELSE /\ IF isQuitting' \/ \A w \in Windows : windows[w] = "none" THEN Exit ELSE UNCHANGED app
         /\ UNCHANGED quitting

TrayQuit ==
    /\ Running /\ tray
    /\ isQuitting' = TRUE
    /\ quit
    /\ UNCHANGED <<child, handle, probing, shown, dialogs>>

\* Quit from the application menu or by the session: isQuitting is not set.
\* The windows of a cancelled quit are hidden.
MenuQuit ==
    /\ Running
    /\ UNCHANGED isQuitting
    /\ quit
    /\ windows' = IF handle \/ isQuitting \/ mainWindow = None THEN windows
                  ELSE [windows EXCEPT ![mainWindow] = "hidden"]
    /\ UNCHANGED <<child, handle, probing, mainWindow, tray, dialogs>>

\* Mutants: the timer kills the child and leaves the exit to the close event;
\* it exits without killing a child that ignores SIGTERM.
KillWithoutExit ==
    /\ Running /\ killTimer
    /\ server' = IF handle /\ Alive THEN "dead" ELSE server
    /\ closeEvent' = IF handle /\ Alive THEN "normal" ELSE closeEvent
    /\ UNCHANGED <<app, foreign, handle, probing, shown, isQuitting, dialogs, quitting>>

ExitAfterTimer ==
    /\ Running /\ killTimer
    /\ Exit
    /\ UNCHANGED <<child, handle, probing, shown, isQuitting, dialogs, quitting>>

KillTimerFires ==
    /\ Running /\ killTimer
    /\ server' = IF handle /\ Alive THEN "dead" ELSE server
    /\ Exit
    /\ UNCHANGED <<foreign, closeEvent, handle, probing, shown, isQuitting, dialogs, quitting>>

-----------------------------------------------------------------------------
(* The child process.                                                       *)

\* External: the server listens.
ServerServes ==
    /\ Running /\ server = "booting" /\ ~foreign
    /\ server' = "serving"
    /\ UNCHANGED <<app, foreign, closeEvent, handle, probing, shown, isQuitting, dialogs, quitting>>

\* External: it ends, on a signal, by itself or with an error (the port taken).
ServerExits(code) ==
    /\ Running /\ Alive
    /\ server' = "dead"
    /\ closeEvent' = code
    /\ UNCHANGED <<app, foreign, handle, probing, shown, isQuitting, dialogs, quitting>>

\* The catch block of whenReady, in the task that rejects; a settled promise stays.
StartupFails ==
    IF startup = "waiting"
    THEN startup' = "failed" /\ dialogs' = dialogs \cup {"start"}
    ELSE UNCHANGED <<startup, dialogs>>

\* spawn fails: the error event now, the close event later.
SpawnFails ==
    /\ Running /\ server = "booting"
    /\ server' = "dead"
    /\ closeEvent' = "error"
    /\ StartupFails
    /\ UNCHANGED <<app, foreign, handle, probes, attempt, shown, isQuitting, quitting>>

\* Both listeners of the close event, in the order they were registered.
ServerClosed ==
    /\ Running /\ closeEvent # "none"
    /\ closeEvent' = "none"
    /\ \/ /\ closeEvent = "error"
          /\ dialogs' = dialogs \cup {"crash"}
          /\ UNCHANGED <<windows, mainWindow>>
       \/ /\ closeEvent = "normal"
          /\ IF mainWindow # None THEN Close(mainWindow) ELSE UNCHANGED <<windows, mainWindow>>
          /\ UNCHANGED dialogs
    /\ IF exitOnClose THEN handle' = FALSE /\ Exit ELSE UNCHANGED <<handle, app>>
    /\ UNCHANGED <<server, foreign, probing, tray, isQuitting, quitting>>

\* A message box is answered, one of the failed start (whenReady) or of a crash
\* (startServer): quit, or save the log, confirm and quit.  Only those of a crash
\* set isQuitting.
DialogAnswered(d) ==
    /\ Running /\ d \in dialogs
    /\ \/ /\ d \in {"crash", "start"}
          /\ dialogs' = (dialogs \ {d}) \cup {IF d = "crash" THEN "crash log" ELSE "start log"}
          /\ UNCHANGED <<app, isQuitting, windows, quitting>>
       \/ /\ dialogs' = dialogs \ {d}
          /\ isQuitting' = (isQuitting \/ d \in {"crash", "crash log"})
          /\ quit
          /\ windows' = IF handle \/ isQuitting' \/ mainWindow = None THEN windows
                        ELSE [windows EXCEPT ![mainWindow] = "hidden"]
    /\ UNCHANGED <<child, handle, probing, mainWindow, tray>>

-----------------------------------------------------------------------------
(* checkServerAvailability.                                                 *)

Answers == server = "serving" \/ foreign

\* The delay is over: tryConnect.
TryConnect ==
    /\ Running /\ probes.scheduled > 0
    /\ probes' = [scheduled |-> probes.scheduled - 1, pending |-> probes.pending + 1]
    /\ attempt' = attempt + 1
    /\ UNCHANGED <<app, child, handle, startup, shown, isQuitting, dialogs, quitting>>

\* A response: the promise resolves and whenReady goes on to the tray and the window.
Connected ==
    /\ Running /\ probes.pending > 0 /\ Answers
    /\ probes' = [probes EXCEPT !.pending = @ - 1]
    /\ IF startup = "waiting"
       THEN startup' = "done" /\ tray' = TRUE /\ createWindow
       ELSE UNCHANGED <<startup, shown>>
    /\ UNCHANGED <<app, child, handle, attempt, isQuitting, dialogs, quitting>>

\* Mutant: one more retry.
RetryOnceMore(handlers) ==
    IF attempt > MaxRetries
    THEN /\ probes' = [probes EXCEPT !.pending = @ - 1]
         /\ StartupFails
    ELSE /\ probes' = [scheduled |-> probes.scheduled + handlers, pending |-> probes.pending - 1]
         /\ UNCHANGED <<startup, dialogs>>

\* A failed probe: each handler that runs schedules another, or rejects.
RetryOrReject(handlers) ==
    IF attempt >= MaxRetries
    THEN /\ probes' = [probes EXCEPT !.pending = @ - 1]
         /\ StartupFails
    ELSE /\ probes' = [scheduled |-> probes.scheduled + handlers, pending |-> probes.pending - 1]
         /\ UNCHANGED <<startup, dialogs>>

Refused ==
    /\ Running /\ probes.pending > 0 /\ ~Answers
    /\ RetryOrReject(1)
    /\ UNCHANGED <<app, child, handle, attempt, shown, isQuitting, quitting>>

\* No response in time: the timeout handler runs, and the error handler too,
\* because the destroyed request emits an error.
TimedOut ==
    /\ Running /\ probes.pending > 0
    /\ RetryOrReject(2)
    /\ UNCHANGED <<app, child, handle, attempt, shown, isQuitting, quitting>>

User == \/ TrayShow \/ TrayHide \/ Activate \/ TrayQuit \/ MenuQuit
        \/ \E w \in Windows : CloseWindow(w)
        \/ \E d \in dialogs : DialogAnswered(d)

Probe == TryConnect \/ Connected \/ Refused \/ TimedOut

Child == ServerServes \/ SpawnFails \/ ServerClosed \/ \E c \in {"normal", "error"} : ServerExits(c)

Next == User \/ Probe \/ Child \/ KillTimerFires

Spec == Init /\ [][Next]_vars

\* The timer of before-quit fires; the user and the server owe nothing.
Fairness == WF_vars(KillTimerFires)

FairSpec == Spec /\ Fairness

-----------------------------------------------------------------------------
(* Properties.                                                              *)

\* The state has its type; mainWindow never refers to a window that was destroyed
\* (the closed handler of createWindow), so that the tray can always show it.
TypeOK ==
    /\ app \in {"running", "exited"}
    /\ server \in {"none", "booting", "serving", "dead"}
    /\ foreign \in BOOLEAN /\ handle \in BOOLEAN /\ tray \in BOOLEAN
    /\ isQuitting \in BOOLEAN /\ killTimer \in BOOLEAN /\ exitOnClose \in BOOLEAN
    /\ closeEvent \in {"none", "normal", "error"}
    /\ startup \in {"waiting", "done", "failed"}
    /\ probes \in [scheduled : Nat, pending : Nat]
    /\ attempt \in Nat
    /\ windows \in [Windows -> {"none", "visible", "hidden"}]
    /\ mainWindow \in Windows \cup {None}
    /\ mainWindow # None => windows[mainWindow] # "none"
    /\ dialogs \subseteq {"crash", "crash log", "start", "start log"}

\* The application never leaves its server behind: when it has exited, by
\* whichever dialog, menu or timer, the child is dead.
NoOrphanServer == app = "exited" => ~Alive

\* Once startup is over, and as long as the installed application runs, the
\* user has a way out of it: the tray menu, a message box, or a quit under way.
\* (In development mode the quit of the start dialog can be cancelled by a
\* window that the Dock opened, and nothing is left to quit from.)
WayOut == (Running /\ startup # "waiting" /\ server # "none") => (tray \/ dialogs # {} \/ killTimer)

\* A probe that times out is retried by two handlers, so the probes multiply
\* while the limit is far; still there are never more than 2 * MaxRetries - 1.
ProbesBounded == attempt + probes.scheduled <= 2 * MaxRetries - 1

\* A quit that set isQuitting ends in the exit of the application, whatever the
\* child does: dies before, dies on SIGTERM, or ignores it.
QuitEnds == isQuitting ~> (app = "exited")

=============================================================================
