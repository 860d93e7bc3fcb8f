------------------------- MODULE DesktopShellProofs -------------------------
(***************************************************************************)
(* Theorems about DesktopShell, for every limit of probes and on every     *)
(* platform.                                                               *)
(***************************************************************************)
EXTENDS DesktopShell, TLAPS

\* serverProcess outlives the child: while the application runs, the reference
\* that before-quit looks at is set for every child that was started.
HandleKept == (Running /\ server # "none") => handle

\* A close event comes from a child that has ended.
CloseAfterEnd == closeEvent # "none" => server = "dead"

\* While nothing is settled there is neither a tray nor a finished start, and
\* afterwards the tray, a message box or the quit it led to.
StartSettled ==
    /\ startup = "done" => tray
    /\ (Running /\ startup = "failed" /\ server # "none") => (tray \/ dialogs # {} \/ killTimer)

\* Every retry is paid for by a probe that has ended: each ended probe has
\* scheduled two at most.
RetriesPaid == attempt + probes.scheduled + 2 * probes.pending <= 1 + 2 * attempt

Safe ==
    /\ TypeOK
    /\ HandleKept /\ CloseAfterEnd /\ NoOrphanServer
    /\ StartSettled
    /\ RetriesPaid /\ ProbesBounded

LEMMA InitSafe == Init => Safe
  <1> USE ShellAssumption DEF Windows, None
  <1> SUFFICES ASSUME Init PROVE Safe
    OBVIOUS
  <1>1. TypeOK
    BY DEF Init, TypeOK
  <1>2. HandleKept /\ CloseAfterEnd /\ NoOrphanServer /\ StartSettled
    BY DEF Init, HandleKept, CloseAfterEnd, NoOrphanServer, StartSettled, Running
  <1>3. RetriesPaid /\ ProbesBounded
    BY DEF Init, RetriesPaid, ProbesBounded
  <1> QED
    BY <1>1, <1>2, <1>3 DEF Safe

-----------------------------------------------------------------------------
(* Types.                                                                   *)

(* TypeOK falls into parts that different actions touch.                    *)

ScalarsOK ==
    /\ app \in {"running", "exited"}
    /\ server \in {"none", "booting", "serving", "dead"}
    /\ foreign \in BOOLEAN /\ handle \in BOOLEAN /\ tray \in BOOLEAN
    /\ isQuitting \in BOOLEAN /\ killTimer \in BOOLEAN /\ exitOnClose \in BOOLEAN
    /\ closeEvent \in {"none", "normal", "error"}
    /\ startup \in {"waiting", "done", "failed"}

ProbesOK == probes \in [scheduled : Nat, pending : Nat] /\ attempt \in Nat

Texts == {"crash", "crash log", "start", "start log"}

WindowsOK == windows \in [Windows -> {"none", "visible", "hidden"}]
             /\ mainWindow \in Windows \cup {None}
             /\ (mainWindow # None => windows[mainWindow] # "none")

LEMMA CreateKeeps == ASSUME WindowsOK, createWindow PROVE WindowsOK'
  <1> USE DEF Windows, None
  <1>1. PICK w \in Windows : /\ windows' = [windows EXCEPT ![w] = "visible"]
                             /\ mainWindow' = w
    BY DEF createWindow
  <1> QED
    BY <1>1 DEF WindowsOK

LEMMA HideKeeps ==
    ASSUME WindowsOK, mainWindow # None, UNCHANGED mainWindow,
           NEW s \in {"visible", "hidden"}, windows' = [windows EXCEPT ![mainWindow] = s]
    PROVE  WindowsOK'
  BY DEF WindowsOK, Windows, None

LEMMA CloseKeeps == ASSUME WindowsOK, NEW w \in Windows, Close(w) PROVE WindowsOK'
  BY HideKeeps DEF WindowsOK, Close, Windows, None

LEMMA TypeParts == TypeOK <=> ScalarsOK /\ ProbesOK /\ WindowsOK /\ dialogs \subseteq Texts
  BY Zenon DEF TypeOK, ScalarsOK, ProbesOK, WindowsOK, Texts

\* Windows are touched through Close, createWindow, and by showing and hiding
\* mainWindow only.
LEMMA WindowStep == ASSUME TypeOK, [Next]_vars PROVE WindowsOK'
  <1> USE DEF vars, child, probing, shown, quitting
  <1>0. WindowsOK
    BY TypeParts
  <1>1. CASE UNCHANGED <<windows, mainWindow>>
    BY <1>0, <1>1 DEF WindowsOK
  <1>2. CASE TrayShow
    BY <1>0, <1>2, CreateKeeps, HideKeeps DEF TrayShow
  <1>3. CASE TrayHide
    BY <1>0, <1>3, HideKeeps DEF TrayHide
  <1>4. CASE Activate
    BY <1>0, <1>4, CreateKeeps DEF Activate
  <1>5. CASE MenuQuit
    BY <1>0, <1>1, <1>5, HideKeeps DEF MenuQuit
  <1>6. CASE \E w \in Windows : CloseWindow(w)
    BY <1>0, <1>6, CloseKeeps DEF CloseWindow
  <1>7. CASE \E d \in dialogs : DialogAnswered(d)
    <2> PICK d \in dialogs : DialogAnswered(d)
      BY <1>7
    <2>1. UNCHANGED mainWindow
      BY DEF DialogAnswered
    <2>2. windows' = windows \/ (mainWindow # None /\ windows' = [windows EXCEPT ![mainWindow] = "hidden"])
      BY DEF DialogAnswered
    <2> QED
      BY <1>0, <1>1, <2>1, <2>2, HideKeeps
  <1>8. CASE Connected
    BY <1>0, <1>1, <1>8, CreateKeeps DEF Connected
  <1>9. CASE ServerClosed
    BY <1>0, <1>1, <1>9, CloseKeeps DEF ServerClosed, WindowsOK
  <1>10. TrayQuit \/ TryConnect \/ Refused \/ TimedOut \/ ServerServes \/ SpawnFails
           \/ (\E c \in {"normal", "error"} : ServerExits(c)) \/ KillTimerFires \/ UNCHANGED vars
         => UNCHANGED <<windows, mainWindow>>
    BY DEF TrayQuit, TryConnect, Refused, TimedOut, ServerServes, SpawnFails, ServerExits,
           KillTimerFires
  <1> QED
    BY <1>1, <1>2, <1>3, <1>4, <1>5, <1>6, <1>7, <1>8, <1>9, <1>10 DEF Next, User, Probe, Child

\* Message boxes appear in StartupFails, ServerClosed and DialogAnswered only.
LEMMA DialogStep == ASSUME TypeOK, [Next]_vars PROVE dialogs' \subseteq Texts
  <1> USE DEF Texts, vars
  <1>0. dialogs \subseteq Texts
    BY TypeParts
  <1>1. CASE UNCHANGED dialogs
    BY <1>0, <1>1
  <1>2. CASE StartupFails
    BY <1>0, <1>2 DEF StartupFails
  <1>3. CASE \E d \in dialogs : DialogAnswered(d)
    BY <1>0, <1>3 DEF DialogAnswered
  <1>4. CASE ServerClosed
    BY <1>0, <1>4 DEF ServerClosed
  <1>5. CASE Refused \/ TimedOut
    BY <1>1, <1>2, <1>5 DEF Refused, TimedOut, RetryOrReject
  <1>6. CASE SpawnFails
    BY <1>2, <1>6 DEF SpawnFails
  <1>7. TrayShow \/ TrayHide \/ Activate \/ TrayQuit \/ MenuQuit \/ TryConnect \/ Connected
          \/ ServerServes \/ KillTimerFires \/ (\E w \in Windows : CloseWindow(w))
          \/ (\E c \in {"normal", "error"} : ServerExits(c)) \/ UNCHANGED vars
        => UNCHANGED dialogs
    BY DEF TrayShow, TrayHide, Activate, TrayQuit, MenuQuit, TryConnect, Connected, ServerServes,
           KillTimerFires, CloseWindow, ServerExits
  <1> QED
    BY <1>1, <1>3, <1>4, <1>5, <1>6, <1>7 DEF Next, User, Probe, Child

LEMMA ScalarStep == ASSUME TypeOK, [Next]_vars PROVE (ScalarsOK /\ ProbesOK)'
  <1> USE DEF vars, child, probing, shown, quitting, ScalarsOK, ProbesOK
  <1>0. ScalarsOK /\ ProbesOK
    BY TypeParts
  <1>1. CASE TrayShow
    BY <1>0, <1>1 DEF TrayShow
  <1>2. CASE TrayHide \/ Activate \/ \E w \in Windows : CloseWindow(w)
    BY <1>0, <1>2 DEF TrayHide, Activate, CloseWindow
  <1>3. CASE TrayQuit
    BY <1>0, <1>3 DEF TrayQuit, quit, Exit
  <1>4. CASE MenuQuit
    BY <1>0, <1>4 DEF MenuQuit, quit, Exit
  <1>5. CASE \E d \in dialogs : DialogAnswered(d)
    <2> PICK d \in dialogs : DialogAnswered(d)
      BY <1>5
    <2>1. UNCHANGED <<child, handle, probing, tray>>
      BY DEF DialogAnswered
    <2>2. isQuitting' \in BOOLEAN
      BY <1>0 DEF DialogAnswered
    <2>3. UNCHANGED <<app, quitting>> \/ quit
      BY DEF DialogAnswered
    <2>4. app' \in {"running", "exited"} /\ killTimer' \in BOOLEAN /\ exitOnClose' \in BOOLEAN
      BY <1>0, <2>3 DEF quit, Exit
    <2> QED
      BY <1>0, <2>1, <2>2, <2>4
  <1>6. CASE TryConnect
    BY <1>0, <1>6 DEF TryConnect
  <1>7. CASE Connected
    <2>1. probes' \in [scheduled : Nat, pending : Nat]
      BY <1>0, <1>7 DEF Connected
    <2>2. ScalarsOK' /\ attempt' \in Nat
      BY <1>0, <1>7 DEF Connected
    <2> QED
      BY <2>1, <2>2
  <1>8. CASE Refused \/ TimedOut
    <2>1. PICK k \in {1, 2} : probes.pending > 0 /\ RetryOrReject(k)
      BY <1>8 DEF Refused, TimedOut
    <2>2. probes' \in [scheduled : Nat, pending : Nat]
      BY <1>0, <2>1 DEF RetryOrReject
    <2>3. startup' \in {"waiting", "done", "failed"}
      BY <1>0, <2>1 DEF RetryOrReject, StartupFails
    <2> QED
      BY <1>0, <1>8, <2>2, <2>3 DEF Refused, TimedOut
  <1>9. CASE ServerServes \/ \E c \in {"normal", "error"} : ServerExits(c)
    BY <1>0, <1>9 DEF ServerServes, ServerExits
  <1>10. CASE SpawnFails
    BY <1>0, <1>10 DEF SpawnFails, StartupFails
  <1>11. CASE ServerClosed
    BY <1>0, <1>11 DEF ServerClosed, Exit
  <1>12. CASE KillTimerFires
    BY <1>0, <1>12 DEF KillTimerFires, Exit
  <1>13. CASE UNCHANGED vars
    BY <1>0, <1>13
  <1> QED
    BY <1>1, <1>2, <1>3, <1>4, <1>5, <1>6, <1>7, <1>8, <1>9, <1>10, <1>11, <1>12, <1>13
    DEF Next, User, Probe, Child

LEMMA TypeStep == ASSUME TypeOK, [Next]_vars PROVE TypeOK'
  <1>1. ScalarsOK' /\ ProbesOK' /\ WindowsOK' /\ dialogs' \subseteq Texts
    BY WindowStep, DialogStep, ScalarStep
  <1> QED
    BY <1>1, Zenon DEF TypeOK, ScalarsOK, ProbesOK, WindowsOK, Texts

-----------------------------------------------------------------------------
(* The child process and the way out.                                       *)

LEMMA ChildStep ==
    ASSUME TypeOK, HandleKept, CloseAfterEnd, NoOrphanServer, [Next]_vars
    PROVE  HandleKept' /\ CloseAfterEnd' /\ NoOrphanServer'
  <1> USE DEF HandleKept, CloseAfterEnd, NoOrphanServer, Running, Alive
  <1>0. server \in {"none", "booting", "serving", "dead"} /\ app \in {"running", "exited"}
        /\ handle \in BOOLEAN
    BY DEF TypeOK
  <1>1. CASE UNCHANGED <<app, child, handle>>
    BY <1>1 DEF child
  <1>2. CASE TrayQuit \/ MenuQuit \/ \E d \in dialogs : DialogAnswered(d)
    <2>1. Running /\ UNCHANGED <<child, handle>>
      BY <1>2 DEF TrayQuit, MenuQuit, DialogAnswered
    <2>2. app' = app \/ (~handle /\ app' = "exited")
      BY <1>2 DEF TrayQuit, MenuQuit, DialogAnswered, quit, Exit
    <2> QED
      BY <1>0, <2>1, <2>2 DEF child
  <1>3. CASE ServerServes \/ SpawnFails \/ \E c \in {"normal", "error"} : ServerExits(c)
    BY <1>0, <1>3 DEF ServerServes, SpawnFails, ServerExits
  <1>4. CASE ServerClosed
    BY <1>0, <1>4 DEF ServerClosed, Exit
  <1>5. CASE KillTimerFires
    BY <1>0, <1>5 DEF KillTimerFires, Exit
  <1>6. TrayShow \/ TrayHide \/ Activate \/ (\E w \in Windows : CloseWindow(w)) \/ Probe
          \/ UNCHANGED vars
        => UNCHANGED <<app, child, handle>>
    BY DEF TrayShow, TrayHide, Activate, CloseWindow, Probe, TryConnect, Connected, Refused,
           TimedOut, vars
  <1> QED
    BY <1>1, <1>2, <1>3, <1>4, <1>5, <1>6 DEF Next, User, Child

\* Where startup, tray, dialogs, killTimer, app and server stand still, so does
\* StartSettled; a message box that is answered leads to another one or to a quit,
\* which arms the timer because the reference to the child is still there.
LEMMA SettledStep ==
    ASSUME TypeOK, HandleKept, StartSettled, [Next]_vars
    PROVE  StartSettled'
  <1> USE DEF StartSettled, Running, child, probing, shown, quitting
  <1>0. /\ server \in {"none", "booting", "serving", "dead"} /\ app \in {"running", "exited"}
        /\ startup \in {"waiting", "done", "failed"}
        /\ tray \in BOOLEAN /\ killTimer \in BOOLEAN
    BY DEF TypeOK
  <1>1. CASE UNCHANGED <<app, server, startup, tray, dialogs, killTimer>>
    BY <1>1
  <1>2. CASE TrayQuit \/ MenuQuit
    <2>1. UNCHANGED <<server, startup, tray, dialogs>>
      BY <1>2 DEF TrayQuit, MenuQuit
    <2>2. (app' = app \/ app' = "exited") /\ (killTimer => killTimer')
      BY <1>2 DEF TrayQuit, MenuQuit, quit, Exit
    <2> QED
      BY <2>1, <2>2
  <1>3. CASE \E d \in dialogs : DialogAnswered(d)
    <2> PICK d \in dialogs : DialogAnswered(d)
      BY <1>3
    <2>1. UNCHANGED <<server, startup, tray>> /\ Running
      BY DEF DialogAnswered
    <2>2. CASE dialogs' # {} /\ UNCHANGED <<app, killTimer>>
      BY <2>1, <2>2
    <2>3. CASE quit
      <3>1. (server # "none") => (killTimer' /\ app' = app)
        BY <2>1, <2>3 DEF HandleKept, quit
      <3> QED
        BY <2>1, <3>1
    <2> QED
      BY <2>2, <2>3 DEF DialogAnswered
  <1>4. CASE Refused \/ TimedOut
    <2>1. UNCHANGED <<app, server, tray, killTimer>> /\ (StartupFails \/ UNCHANGED <<startup, dialogs>>)
      BY <1>4 DEF Refused, TimedOut, RetryOrReject
    <2> QED
      BY <2>1 DEF StartupFails
  <1>5. CASE Connected
    BY <1>0, <1>5 DEF Connected
  <1>6. CASE SpawnFails
    BY <1>0, <1>6 DEF SpawnFails, StartupFails
  <1>7. CASE ServerServes \/ \E c \in {"normal", "error"} : ServerExits(c)
    BY <1>7 DEF ServerServes, ServerExits, Alive
  <1>8. CASE ServerClosed
    <2>1. UNCHANGED <<server, startup, tray, killTimer>> /\ (app' = app \/ app' = "exited")
          /\ dialogs \subseteq dialogs'
      BY <1>8 DEF ServerClosed, Exit
    <2> QED
      BY <2>1
  <1>9. CASE KillTimerFires
    BY <1>9 DEF KillTimerFires, Exit
  <1>10. TrayShow \/ TrayHide \/ Activate \/ (\E w \in Windows : CloseWindow(w)) \/ TryConnect
           \/ UNCHANGED vars
         => UNCHANGED <<app, server, startup, tray, dialogs, killTimer>>
    BY DEF TrayShow, TrayHide, Activate, CloseWindow, TryConnect, vars
  <1> QED
    BY <1>1, <1>2, <1>3, <1>4, <1>5, <1>6, <1>7, <1>8, <1>9, <1>10 DEF Next, User, Child, Probe

-----------------------------------------------------------------------------
(* Probes.                                                                  *)

LEMMA ProbeStep ==
    ASSUME TypeOK, RetriesPaid, ProbesBounded, [Next]_vars
    PROVE  RetriesPaid' /\ ProbesBounded'
  <1> USE ShellAssumption DEF RetriesPaid, ProbesBounded
  <1>0. /\ probes.scheduled \in Nat /\ probes.pending \in Nat /\ attempt \in Nat
        /\ probes = [scheduled |-> probes.scheduled, pending |-> probes.pending]
    BY DEF TypeOK
  <1>1. CASE UNCHANGED <<probes, attempt>>
    BY <1>1
  <1>2. CASE TryConnect
    <2>1. /\ probes'.scheduled = probes.scheduled - 1 /\ probes'.pending = probes.pending + 1
          /\ attempt' = attempt + 1
      BY <1>2 DEF TryConnect
    <2> QED
      BY <1>0, <2>1
  <1>3. CASE Connected
    <2>1. /\ probes'.scheduled = probes.scheduled /\ probes'.pending = probes.pending - 1
          /\ attempt' = attempt
      BY <1>0, <1>3 DEF Connected
    <2> QED
      BY <1>0, <2>1
  <1>4. CASE Refused \/ TimedOut
    <2>1. PICK k \in {1, 2} : probes.pending > 0 /\ RetryOrReject(k)
      BY <1>4 DEF Refused, TimedOut
    <2>2. attempt' = attempt
      BY <1>4 DEF Refused, TimedOut
    <2>3. CASE attempt >= MaxRetries
      <3>1. probes'.scheduled = probes.scheduled /\ probes'.pending = probes.pending - 1
        BY <1>0, <2>1, <2>3 DEF RetryOrReject
      <3> QED
        BY <1>0, <2>2, <3>1
    <2>4. CASE ~(attempt >= MaxRetries)
      <3>1. probes'.scheduled = probes.scheduled + k /\ probes'.pending = probes.pending - 1
        BY <2>1, <2>4 DEF RetryOrReject
      <3> QED
        BY <1>0, <2>1, <2>2, <2>4, <3>1
    <2> QED
      BY <2>3, <2>4
  <1>5. User \/ Child \/ KillTimerFires \/ UNCHANGED vars => UNCHANGED <<probes, attempt>>
    BY DEF User, TrayShow, TrayHide, Activate, TrayQuit, MenuQuit, CloseWindow, DialogAnswered,
           Child, ServerServes, SpawnFails, ServerClosed, ServerExits, KillTimerFires, vars, probing
  <1> QED
    BY <1>1, <1>2, <1>3, <1>4, <1>5 DEF Next, Probe

-----------------------------------------------------------------------------
(* Theorems.                                                                *)

THEOREM Safety == Spec => []Safe
  <1>1. Init => Safe
    BY InitSafe
  <1>2. Safe /\ [Next]_vars => Safe'
    BY TypeStep, ChildStep, SettledStep, ProbeStep DEF Safe
  <1> QED
    BY <1>1, <1>2, PTL DEF Spec

\* The state of the shell is well-typed and mainWindow never refers to a window that
\* was destroyed, for any number of probes.
THEOREM TypeCorrect == Spec => []TypeOK
  BY Safety, PTL DEF Safe

\* However the application is left (tray, menu, message boxes, the timer of
\* before-quit), no server of its own keeps running.
THEOREM ServerNeverOrphaned == Spec => []NoOrphanServer
  BY Safety, PTL DEF Safe

\* Once the start of the installed application is settled, the tray, a message box
\* or a quit under way lets the user out.
THEOREM AlwaysAWayOut == Spec => []WayOut
  <1>1. Safe => WayOut
    BY DEF Safe, TypeOK, StartSettled, WayOut
  <1> QED
    BY <1>1, Safety, PTL

\* Probes that time out are retried twice, and still at most 2 * MaxRetries - 1
\* connections are opened, for every limit.
THEOREM ProbesAreBounded == Spec => []ProbesBounded
  BY Safety, PTL DEF Safe

=============================================================================
