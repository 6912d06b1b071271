-------------------------------- MODULE Console --------------------------------
(***************************************************************************)
(* The terminal interface (ui.py): a stack of screens driven by keys, by   *)
(* the poll timer and by the reports of worker threads.  Handlers run one  *)
(* at a time on the UI thread; keys go to the screen on top; a worker that *)
(* its screen no longer waits for still runs and still reports.            *)
(*                                                                         *)
(* The service behind it is Session, of which the screens only notice      *)
(* whether there is a connection, whether there is an approval, and who    *)
(* has the serial lock.  The command palette of the terminal library,      *)
(* which covers the screen below while it is open, is not in the stack.    *)
(***************************************************************************)
EXTENDS Integers, Sequences, SequencesExt

CONSTANTS
  Ids,      \* names for screens: bounds how many there can be at once
  Threads   \* worker threads: bounds how many calls can be under way at once

VARIABLES
  stack,      \* the screens, the one on top last
  thread,     \* per worker thread: the call it makes, or Idle
  connected,  \* the session has an identity and a capability that may flash
  approved,   \* the session has an approval
  exited      \* the application was left

session == <<connected, approved>>
vars == <<stack, thread, session, exited>>

Port          == [kind |-> "port"]
Dashboard(id) == [kind |-> "dashboard", id |-> id, polling |-> TRUE, inflight |-> FALSE]
Firmware(id)  == [kind |-> "firmware", id |-> id, report |-> "none"]
Progress(id)  == [kind |-> "progress", id |-> id, result |-> "none",
                  shown |-> "transfer"]

Idle == [op |-> "none"]
Call(op, id) == [op |-> op, screen |-> id, phase |-> "waiting", outcome |-> "none"]

Init ==
  /\ stack = <<Port>>
  /\ thread = [t \in Threads |-> Idle]
  /\ connected = FALSE /\ approved = FALSE
  /\ exited = FALSE
-------------------------------------------------------------------------------
(* The stack.                                                              *)
Top == Last(stack)
At(kind) == ~exited /\ Top.kind = kind

(* on_screen_suspend and on_screen_resume: only a dashboard has them.      *)
Polling(s, on) == IF s.kind = "dashboard" THEN [s EXCEPT !.polling = on] ELSE s

Unsuspended(s) == s                                           \* fault variant
Suspended(s)   == Polling(s, FALSE)
Resumed(s)     == Polling(s, TRUE)

SetTop(s, screens)  == Append(Front(screens), s)
Push(s, screens)    == Append(SetTop(Suspended(Last(screens)), screens), s)
Pop(screens)        == SetTop(Resumed(Last(Front(screens))), Front(screens))

ScreenIds == {stack[i].id : i \in 2 .. Len(stack)}
WaitedFor == {thread[t].screen : t \in {u \in Threads : thread[u].op # "none"}}
FreeIds   == Ids \ (ScreenIds \cup WaitedFor)

(* A worker is started.                                                    *)
Start(op, id) ==
  \E t \in Threads :
    /\ thread[t] = Idle
    /\ thread' = [thread EXCEPT ![t] = Call(op, id)]

Leave == exited' = TRUE /\ UNCHANGED <<stack, thread, session>>
-------------------------------------------------------------------------------
(* Keys on the port list, the dashboard and the firmware screen.           *)

(* Nothing keeps a second Enter from starting a second worker.             *)
Connect ==
  /\ At("port")
  /\ \E id \in FreeIds : Start("connect", id)
  /\ UNCHANGED <<stack, session, exited>>

(* refresh_dashboard, from "r", which goes to the screen on top, or from   *)
(* the timer of any dashboard, which is paused while its screen is not.    *)
Refresh ==
  /\ ~exited
  /\ \E i \in 2 .. Len(stack) :
       /\ stack[i].kind = "dashboard" /\ ~stack[i].inflight
       /\ i = Len(stack) \/ stack[i].polling
       /\ stack' = [stack EXCEPT ![i].inflight = TRUE]
       /\ Start("poll", stack[i].id)
  /\ UNCHANGED <<session, exited>>

(* Polling is paused twice: here, and when the screen is suspended.        *)
Upgrade ==
  /\ At("dashboard")
  /\ \E id \in FreeIds :
       stack' = Push(Firmware(id), SetTop(Polling(Top, FALSE), stack))
  /\ UNCHANGED <<thread, session, exited>>

Back ==
  /\ At("dashboard") \/ At("firmware")
  /\ stack' = Pop(stack)
  /\ UNCHANGED <<thread, session, exited>>

Reload ==
  /\ At("firmware")
  /\ stack' = SetTop([Top EXCEPT !.report = "none"], stack)
  /\ UNCHANGED <<thread, session, exited>>

(* inspect_and_preflight: an exception, or a report that allows, blocks or *)
(* asks for the confirmation of a reinstall or a downgrade.  An inspection *)
(* that succeeds drops the approval, and so does a report that does not    *)
(* allow.                                                                  *)
Inspect ==
  /\ At("firmware")
  /\ \/ /\ connected
        /\ \E report \in {"allowed", "confirm", "blocked"} :
             /\ stack' = SetTop([Top EXCEPT !.report = report], stack)
             /\ approved' = (report = "allowed")
     \/ /\ stack' = SetTop([Top EXCEPT !.report = "none"], stack)
        /\ approved' \in {approved, FALSE}
  /\ UNCHANGED <<thread, connected, exited>>

(* start_flash, from a button that a blocking report disables.  A          *)
(* confirmation runs preflight again, which may fail, or block.            *)
StartFlash ==
  /\ At("firmware")
  /\ \/ Top.report = "allowed" /\ UNCHANGED approved
     \/ Top.report = "confirm" /\ connected /\ approved' = TRUE
  /\ \E id \in FreeIds :
       /\ Start("flash", id)
       /\ stack' = Push(Progress(id), SetTop([Top EXCEPT !.report = "allowed"], stack))
  /\ UNCHANGED <<connected, exited>>

ConfirmationFails ==
  /\ At("firmware") /\ Top.report = "confirm"
  /\ \/ UNCHANGED <<stack, approved>>
     \/ /\ connected /\ approved' = FALSE
        /\ stack' = SetTop([Top EXCEPT !.report = "blocked"], stack)
  /\ UNCHANGED <<thread, connected, exited>>

(* "q", bound to app.quit on these screens.                                *)
Quit ==
  /\ \E kind \in {"port", "dashboard", "firmware"} : At(kind)
  /\ Leave
-------------------------------------------------------------------------------
(* Keys on the progress screen.                                            *)

(* "q" and Escape, whether or not there is a result: the status line says  *)
(* that the transfer is active.                                            *)
RefuseToLeave ==
  /\ At("progress")
  /\ stack' = SetTop([Top EXCEPT !.shown = "active"], stack)
  /\ UNCHANGED <<thread, session, exited>>

(* Enter.                                                                  *)
PopOnce(screens) == Pop(screens)                              \* fault variant
ReturnFrom(screens) == Pop(Pop(screens))

AlwaysFinished(s) == TRUE                                     \* fault variant
Finished(s) == s.result # "none"

ReturnDashboard ==
  /\ At("progress")
  /\ stack' = IF Finished(Top)
              THEN ReturnFrom(stack)
              ELSE SetTop([Top EXCEPT !.shown = "active"], stack)
  /\ UNCHANGED <<thread, session, exited>>

(* Ctrl-C, anywhere.                                                       *)
NeverHolds(s) == FALSE                                        \* fault variant
HoldsApplication(s) == s.kind = "progress" /\ s.result = "none"

SafeQuit ==
  /\ ~exited
  /\ IF HoldsApplication(Top) THEN RefuseToLeave ELSE Leave

(* What every application of the terminal library inherits: Ctrl-Q, bound  *)
(* to quit with priority, and Quit in the command palette.  JkFlashApp     *)
(* adds its own Ctrl-C and leaves them in force, on any screen.            *)
InheritedQuit == ~exited /\ Leave
-------------------------------------------------------------------------------
(* The workers in the service.                                             *)
Locked == \E t \in Threads : thread[t].op # "none" /\ thread[t].phase = "running"

Reporting(t, outcome) ==
  thread' = [thread EXCEPT ![t].phase = "reporting", ![t].outcome = outcome]
Running(t) == thread' = [thread EXCEPT ![t].phase = "running"]

Waiting(t, op) ==
  /\ ~exited /\ ~Locked
  /\ thread[t].op = op /\ thread[t].phase = "waiting"
  /\ UNCHANGED <<stack, exited>>

BeginConnect(t) ==
  /\ Waiting(t, "connect")
  /\ connected' = FALSE /\ approved' = FALSE
  /\ Running(t)

(* Refused without a connection, or with one that does not fit the screen. *)
BeginPoll(t) ==
  /\ Waiting(t, "poll")
  /\ Running(t) \/ Reporting(t, "failed")
  /\ UNCHANGED session

(* The approval is consumed, unless there is none, or the screen's         *)
(* identity is no longer the session's.  What flash() raises becomes a     *)
(* result, in _flash_worker.                                               *)
Unconverted == "raised"                                       \* fault variant
StopsAs == "stopped"

BeginFlash(t) ==
  /\ Waiting(t, "flash")
  /\ \/ connected /\ approved /\ approved' = FALSE /\ Running(t)
     \/ UNCHANGED approved /\ Reporting(t, StopsAs)
  /\ UNCHANGED connected

Ended(t, op) ==
  /\ ~exited
  /\ thread[t].op = op /\ thread[t].phase = "running"
  /\ UNCHANGED <<stack, exited>>

EndConnect(t) ==
  /\ Ended(t, "connect")
  /\ \/ connected' \in BOOLEAN /\ approved' = FALSE /\ Reporting(t, "connected")
     \/ UNCHANGED session /\ Reporting(t, "failed")

EndPoll(t) ==
  /\ Ended(t, "poll")
  /\ \E outcome \in {"fresh", "failed", "changed"} : Reporting(t, outcome)
  /\ UNCHANGED session

EndFlash(t) ==
  /\ Ended(t, "flash")
  /\ \E outcome \in {StopsAs, "recovery", "succeeded"} : Reporting(t, outcome)
  /\ UNCHANGED session
-------------------------------------------------------------------------------
(* Their reports, run on the UI thread by call_from_thread.                *)
Report(t, op) ==
  /\ ~exited
  /\ thread[t].op = op /\ thread[t].phase = "reporting"
  /\ thread' = [thread EXCEPT ![t] = Idle]
  /\ UNCHANGED <<session, exited>>

WaitsFor(t, i) == i > 1 /\ stack[i].id = thread[t].screen

(* _connected pushes a dashboard on whatever is on top by now.             *)
ReportConnect(t) ==
  /\ Report(t, "connect")
  /\ stack' = IF thread[t].outcome = "connected"
              THEN Push(Dashboard(thread[t].screen), stack) ELSE stack

(* _poll_succeeded, _poll_failed and _identity_changed.                    *)
ResetOnSuccess(s, outcome) ==                                 \* fault variant
  IF outcome = "fresh" THEN [s EXCEPT !.inflight = FALSE] ELSE s
PollReported(s, outcome) == [s EXCEPT !.inflight = FALSE]

ReportPoll(t) ==
  /\ Report(t, "poll")
  /\ stack' = [i \in DOMAIN stack |->
                 IF WaitsFor(t, i) THEN PollReported(stack[i], thread[t].outcome)
                 ELSE stack[i]]

SwallowStopped(s, outcome) ==                                 \* fault variant
  IF outcome = "stopped" THEN s
  ELSE [s EXCEPT !.result = outcome, !.shown = "result"]
FlashReported(s, outcome) ==
  [s EXCEPT !.result = outcome, !.shown = "result"]

ReportFlash(t) ==
  /\ Report(t, "flash")
  /\ stack' = [i \in DOMAIN stack |->
                 IF WaitsFor(t, i) THEN FlashReported(stack[i], thread[t].outcome)
                 ELSE stack[i]]
-------------------------------------------------------------------------------
Keys ==
  \/ Connect \/ Refresh \/ Upgrade \/ Back \/ Reload \/ Inspect \/ StartFlash
  \/ ConfirmationFails \/ Quit \/ RefuseToLeave \/ ReturnDashboard \/ SafeQuit
  \/ InheritedQuit

Work(t) ==
  \/ BeginConnect(t) \/ BeginPoll(t) \/ BeginFlash(t)
  \/ EndConnect(t) \/ EndPoll(t) \/ EndFlash(t)
  \/ ReportConnect(t) \/ ReportPoll(t) \/ ReportFlash(t)

Gone == exited /\ UNCHANGED vars

Next == Keys \/ Gone \/ \E t \in Threads : Work(t)

Spec == Init /\ [][Next]_vars

(* Threads and the UI thread go on; nobody need press a key.               *)
FairSpec == Spec /\ \A t \in Threads : SF_vars(Work(t))
-------------------------------------------------------------------------------
(* Properties.                                                             *)

Screens ==
  {Port} \cup
  [kind : {"dashboard"}, id : Ids, polling : BOOLEAN, inflight : BOOLEAN] \cup
  [kind : {"firmware"}, id : Ids,
   report : {"none", "allowed", "confirm", "blocked"}] \cup
  [kind : {"progress"}, id : Ids,
   result : {"none", "stopped", "recovery", "succeeded"},
   shown : {"transfer", "active", "result"}]

CallStates ==
  {Idle} \cup
  [op : {"connect", "poll", "flash"}, screen : Ids,
   phase : {"waiting", "running", "reporting"},
   outcome : {"none", "connected", "failed", "fresh", "changed",
              "stopped", "recovery", "succeeded"}]

(* Every screen and call is of its kind; in particular what flash() raises *)
(* reaches no screen (the except clause of _flash_worker).                 *)
TypeOK ==
  /\ \A i \in 1 .. Len(stack) : stack[i] \in Screens
  /\ \A t \in Threads : thread[t] \in CallStates
  /\ connected \in BOOLEAN /\ approved \in BOOLEAN /\ exited \in BOOLEAN

Calls(op) == {thread[t].screen : t \in {u \in Threads : thread[u].op = op}}
OfKind(kind) == {i \in 1 .. Len(stack) : stack[i].kind = kind}

(* A flash() under way has its progress screen, which says so, and no      *)
(* other progress screen says so: whoever leaves that screen knows the     *)
(* outcome (result and action_return_dashboard of ProgressScreen).         *)
FlashIsWatched ==
  Calls("flash") = {stack[i].id : i \in {j \in OfKind("progress") :
                                           stack[j].result = "none"}}

(* A dashboard has _poll_inflight set exactly while a worker polls for it: *)
(* no poll that failed, or came back while the screen was covered or found *)
(* another device, stops the monitor for good, and there are never two.    *)
InflightIsReal ==
  \A i \in OfKind("dashboard") :
    LET polls == {t \in Threads : thread[t].op = "poll"
                                  /\ thread[t].screen = stack[i].id}
    IN  IF stack[i].inflight THEN \E t \in Threads : polls = {t} ELSE polls = {}

(* No sensor request is produced once the firmware workflow was entered    *)
(* (the comment in DashboardScreen.action_activate): not by the dashboard  *)
(* below it, nor by one that a second connection covered.                  *)
FirmwareUndisturbed ==
  [][Top.kind \in {"firmware", "progress"} =>
       \A t \in Threads : thread[t] = Idle => thread'[t].op # "poll"]_vars

(* Enter on a finished progress screen returns to battery details, as      *)
(* _finished promises, whatever was pushed in the meantime.                *)
ReturnsToDetails ==
  [][Top.kind = "progress" /\ Len(stack') < Len(stack) =>
       Last(stack').kind = "dashboard"]_vars

(* A flash that was started is answered on its screen, also when it never  *)
(* got past its checks, unless the application is left.                    *)
FlashIsAnswered ==
  \A id \in Ids :
    (\E i \in OfKind("progress") : stack[i].id = id /\ stack[i].result = "none")
      ~> (exited \/ \E i \in OfKind("progress") :
                        stack[i].id = id /\ stack[i].result # "none")

(* README.md:24: Escape and q are disabled only while a transfer is        *)
(* active.  The refusal says that it is.                                   *)
RefusalIsTrue ==
  \A i \in OfKind("progress") : stack[i].shown = "active" => stack[i].result = "none"

(* By the keys this program binds, the application is left while a flash() *)
(* is under way only from a screen that was pushed over its progress       *)
(* screen: on that screen itself neither "q" nor Ctrl-C leaves it before   *)
(* there is a result (action_blocked_quit and action_safe_quit).           *)
ExitIsCovered ==
  [][exited' /\ ~exited /\ (Quit \/ SafeQuit) =>
       \A t \in Threads : thread[t].op = "flash" =>
         \E i \in 2 .. Len(stack) - 1 :
           stack[i].kind = "progress" /\ stack[i].result = "none"
             /\ stack[i].id = thread[t].screen]_vars

(* action_safe_quit: Ctrl-C is honoured "except while firmware bytes may   *)
(* be in flight".                                                          *)
NoExitDuringFlash ==
  [][exited' /\ ~exited /\ SafeQuit => \A t \in Threads :
       ~(thread[t].op = "flash" /\ thread[t].phase = "running")]_vars
===============================================================================
