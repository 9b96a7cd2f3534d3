-------------------------------- MODULE Tray --------------------------------
(***************************************************************************)
(* The tray and the window it hides (src/src/ui/tray, the close button of    *)
(* src/src/ui/app.rs): a thread of the platform puts up the icon and sends   *)
(* commands, a loop of the UI obeys them one by one, notifications of the UI  *)
(* can be copied from the tray of Windows.                                  *)
(***************************************************************************)
EXTENDS Naturals, Sequences

CONSTANTS TraySystems,  \* of {"linux", "windows"}
          MaxCommands,  \* bound: commands sent in a behaviour
          MaxNotices    \* bound: notifications sent in a behaviour

VARIABLES
  traySystem, \* the system of this behaviour
  trayThread, \* the thread of the platform
  icon,       \* the desktop shows an icon of the program
  enabled,    \* TrayState.enabled
  commands,   \* the channel of TrayCommand, oldest first
  sent,       \* commands sent so far
  window,     \* the main window; gone with its process
  stops,      \* the request_shutdown_stop in flight: the loop's, the close button's
  notices,    \* notify_system and LAST_NOTIFICATION
  balloon,    \* the balloon on the screen, and the notice it is of
  copy,       \* the tray thread in copy_latest_notification
  clipboard   \* the notice on the clipboard, 0 if none

vars == <<traySystem, trayThread, icon, enabled, commands, sent, window, stops, notices, balloon,
          copy, clipboard>>
platform == <<traySystem, trayThread, icon, enabled>>
loop == <<commands, sent, window, stops>>
notified == <<notices, balloon, copy, clipboard>>

Linux == traySystem = "linux"
MenuCommands == {"StartTunnel", "StopTunnel", "QuitApp"}
Commands == {"ShowWindow"} \cup MenuCommands
Notices == 0..MaxNotices
Balloons == [says : {"none", "notice", "nothing", "copied", "failed"}, of : Notices]
Balloon(what) == [says |-> what, of |-> 0]
Shown(n) == [says |-> "notice", of |-> n]
IsUp == window \in {"shown", "hidden"}
UiFree == IsUp /\ notices.showing = 0      \* the UI thread is not inside notify_system

-----------------------------------------------------------------------------
(* controller::init.  On Windows the thread is all that is asked for; on     *)
(* Linux the UI waits for its answer, two seconds and no longer.             *)

Spawn ==
  /\ window = "opening" /\ trayThread = "none"
  /\ \/ enabled' = FALSE /\ window' = "shown" /\ UNCHANGED trayThread
     \/ /\ trayThread' = "starting"
        /\ IF Linux THEN UNCHANGED <<enabled, window>> ELSE enabled' = TRUE /\ window' = "shown"
  /\ UNCHANGED <<traySystem, icon, commands, sent, stops, notified>>

Wait ==
  /\ Linux /\ window = "opening" /\ trayThread # "none"
  /\ enabled' = (trayThread = "serving") /\ window' = "shown"
  /\ UNCHANGED <<traySystem, trayThread, icon, commands, sent, stops, notified>>

(* LinuxTray::init registers with the watcher again and again, for a second  *)
(* longer than the UI waits.                                                *)
Register ==
  /\ Linux /\ trayThread = "starting" /\ window # "gone"
  /\ \/ trayThread' = "serving" /\ icon' = TRUE
     \/ trayThread' = "failed" /\ UNCHANGED icon
  /\ UNCHANGED <<traySystem, enabled, loop, notified>>

(* run_tray: the hidden window, whose handle is in TRAY_HWND from then on,    *)
(* and then the icon, which nobody checks.                                  *)
CreateTrayWindow ==
  /\ ~Linux /\ trayThread = "starting" /\ window # "gone"
  /\ trayThread' \in {"window", "failed"}
  /\ UNCHANGED <<traySystem, icon, enabled, loop, notified>>

AddIcon ==
  /\ trayThread = "window" /\ trayThread' = "serving"
  /\ icon' \in BOOLEAN
  /\ UNCHANGED <<traySystem, enabled, loop, notified>>

(* WM_DESTROY, if the process lives that long.                               *)
DestroyTray ==
  /\ trayThread = "closing" /\ trayThread' = "ended" /\ icon' = FALSE
  /\ UNCHANGED <<traySystem, enabled, loop, notified>>

-----------------------------------------------------------------------------
(* The channel: what the icon and its menu send, and the bridge of a second  *)
(* instance, which is there without a tray too.                              *)
Send(c) ==
  /\ sent < MaxCommands /\ sent' = sent + 1 /\ commands' = Append(commands, c)
  /\ UNCHANGED <<platform, window, stops, notified>>

Listening == icon /\ trayThread = "serving" /\ copy.at = "idle" /\ window # "gone"
ClickIcon == Listening /\ Send("ShowWindow")
ClickMenu == Listening /\ \E c \in MenuCommands : Send(c)

Activate == IsUp /\ Send("ShowWindow")

(* start_command_loop: a command at a time.  A tunnel is started or stopped  *)
(* as by the buttons of the window.                                         *)
Take(c) ==
  /\ UiFree /\ "tray" \notin stops /\ commands # <<>> /\ Head(commands) = c
  /\ commands' = Tail(commands)
  /\ UNCHANGED <<traySystem, icon, enabled, sent, notified>>

Show == Take("ShowWindow") /\ window' = "shown" /\ UNCHANGED <<trayThread, stops>>
Toggle == (Take("StartTunnel") \/ Take("StopTunnel")) /\ UNCHANGED <<trayThread, window, stops>>

(* request_quit: Linux stops the tunnel first, Windows leaves it to the      *)
(* service and asks the tray to close.                                      *)
Quit ==
  /\ Take("QuitApp")
  /\ IF Linux
     THEN stops' = stops \cup {"tray"} /\ UNCHANGED <<trayThread, window>>
     ELSE /\ window' = "gone" /\ UNCHANGED stops
          /\ trayThread' = IF trayThread \in {"window", "serving"} THEN "closing" ELSE trayThread

(* on_window_should_close.                                                  *)
Close ==
  /\ UiFree
  /\ IF enabled THEN window' = "hidden" /\ UNCHANGED stops
     ELSE IF Linux
     THEN "close" \notin stops /\ stops' = stops \cup {"close"} /\ UNCHANGED window
     ELSE window' = "gone" /\ UNCHANGED stops
  /\ UNCHANGED <<platform, commands, sent, notified>>

Stopped ==
  /\ UiFree
  /\ \E who \in stops, finished \in BOOLEAN :
       /\ stops' = stops \ {who}
       /\ window' = IF finished THEN "gone" ELSE window
  /\ UNCHANGED <<platform, commands, sent, notified>>

-----------------------------------------------------------------------------
(* Notifications.  Windows drops them as long as there is no tray window,    *)
(* and keeps the text before the balloon shows it; Linux keeps nothing.      *)
HasTrayWindow == trayThread \in {"window", "serving"}

Notify ==
  /\ UiFree /\ notices.sent < MaxNotices
  /\ LET n == notices.sent + 1
     IN IF Linux \/ ~HasTrayWindow
        THEN /\ notices' = [notices EXCEPT !.sent = n]
             /\ balloon' \in {balloon} \cup (IF Linux THEN {Shown(n)} ELSE {})
        ELSE /\ notices' = [notices EXCEPT !.sent = n, !.remembered = n, !.showing = n]
             /\ UNCHANGED balloon
  /\ UNCHANGED <<platform, loop, copy, clipboard>>

ShowBalloon ==
  /\ notices.showing # 0
  /\ notices' = [notices EXCEPT !.showing = 0]
  /\ balloon' \in {balloon, Shown(notices.showing)}
  /\ UNCHANGED <<platform, loop, copy, clipboard>>

(* A click on the balloon, or the menu, copies the text kept last: taken      *)
(* under the lock, written without it.                                      *)
AskCopy ==
  /\ ~Linux /\ Listening
  /\ copy' = [at |-> IF notices.remembered = 0 THEN "idle" ELSE "writing",
              text |-> notices.remembered,
              seen |-> balloon.of]
  /\ balloon' = Balloon(IF notices.remembered = 0 THEN "nothing" ELSE "none")
  /\ UNCHANGED <<platform, loop, notices, clipboard>>

(* copy_text_to_clipboard: the old text is gone before the new one is there,  *)
(* and the call may fail after that.                                        *)
WriteClipboard ==
  /\ copy.at = "writing" /\ window # "gone"
  /\ copy' = [copy EXCEPT !.at = "idle"]
  /\ \/ clipboard' \in {clipboard, 0, copy.text} /\ balloon' = Balloon("failed")
     \/ clipboard' = copy.text /\ balloon' = Balloon("copied")
  /\ UNCHANGED <<platform, loop, notices>>

-----------------------------------------------------------------------------
Init ==
  /\ traySystem \in TraySystems
  /\ trayThread = "none" /\ icon = FALSE /\ enabled = FALSE
  /\ commands = <<>> /\ sent = 0 /\ window = "opening" /\ stops = {}
  /\ notices = [sent |-> 0, remembered |-> 0, showing |-> 0]
  /\ balloon = Balloon("none") /\ copy = [at |-> "idle", text |-> 0, seen |-> 0] /\ clipboard = 0

Platform == Register \/ CreateTrayWindow \/ AddIcon \/ DestroyTray
Obey == Show \/ Toggle \/ Quit
Next ==
  \/ Spawn \/ Wait \/ Platform \/ ClickIcon \/ ClickMenu \/ Activate \/ Obey \/ Close \/ Stopped
  \/ Notify \/ ShowBalloon \/ AskCopy \/ WriteClipboard

(* The executor of the UI runs: commands are taken, calls come back.          *)
Spec == Init /\ [][Next]_vars
Serve == Obey \/ ShowBalloon
FairSpec == Spec /\ WF_vars(Serve) /\ WF_vars(Stopped)

-----------------------------------------------------------------------------
(* Properties.                                                              *)

TypeOK ==
  /\ traySystem \in TraySystems
  /\ trayThread \in {"none", "starting", "window", "serving", "failed", "closing", "ended"}
  /\ icon \in BOOLEAN /\ enabled \in BOOLEAN
  /\ commands \in Seq(Commands) /\ sent \in 0..MaxCommands /\ Len(commands) <= sent
  /\ window \in {"opening", "shown", "hidden", "gone"} /\ stops \subseteq {"tray", "close"}
  /\ notices \in [sent : Notices, remembered : Notices, showing : Notices]
  /\ balloon \in Balloons
  /\ copy \in [at : {"idle", "writing"}, text : Notices, seen : Notices]
  /\ clipboard \in Notices

(* On Linux a window is hidden only behind an icon that is there, however     *)
(* late the watcher answers (spawn_tray_thread, should_minimize_on_close).    *)
HiddenBehindIcon == Linux /\ window = "hidden" => icon

(* The text that is copied is never older than the balloon the user answers,  *)
(* and "copied" is said of a text that is on the clipboard: notify_system     *)
(* and copy_latest_notification run in two threads.                          *)
CopiesWhatWasSeen ==
  /\ copy.text >= copy.seen
  /\ balloon.says = "copied" => clipboard = copy.text /\ clipboard > 0

(* On Linux the program ends only while it has asked for the tunnel to stop:  *)
(* request_quit and the close button wait for that answer.                   *)
LeavesStopped == Linux /\ window' = "gone" /\ window # "gone" => stops # {}

(* A hidden window that is asked for comes back, unless the program ends:     *)
(* Summoned ~> ~Hidden.                                                      *)
Hidden == window = "hidden"
Summoned == Hidden /\ \E i \in DOMAIN commands : commands[i] = "ShowWindow"
=============================================================================
