----------------------------- MODULE LogSwitcher -----------------------------
(***************************************************************************)
(* The LogSwitcher and the LoopStopper of Server3-ace and Server4-ace, in  *)
(* a process that redirects its log meanwhile: the program "Library" of    *)
(* LogManager.tla with a reactor.                                          *)
(*                                                                         *)
(* A signal may interrupt anything, another signal's handler too, so       *)
(* handle_signal is two steps (m_switch, then notify), and several of them *)
(* may be on their way.  handle_exception is two steps as well: it reads   *)
(* m_switch, and it sets the flag.                                         *)
(***************************************************************************)
EXTENDS LogManager

CONSTANT MaxSignals \* bound: signals to the LogSwitcher

ASSUME MaxSignalsAssumption == MaxSignals \in Nat

VARIABLES
    loop,       \* the reactor's event loop: "run", or "ended" by LoopStopper
    m_switch,   \* what the last signal asked for: "on", "off"; or "unset"
    signals,    \* signals so far
    handling,   \* calls of handle_signal that have still to notify
    notices,    \* notifications queued for handle_exception
    missed,     \* whether the last notification failed
    seen        \* m_switch as handle_exception has read it, or "idle"

switchVars == <<loop, m_switch, signals, handling, notices, missed, seen>>
vars == <<managerVars, switchVars>>

Init ==
    /\ ManagerInit
    /\ loop = "run" /\ m_switch = "unset"
    /\ signals = 0 /\ handling = 0 /\ notices = 0
    /\ missed = FALSE /\ seen = "idle"

-----------------------------------------------------------------------------
\* LogSwitcher::handle_signal, of one of the two signals.
Signal(on) ==
    /\ Library
    /\ signals < MaxSignals
    /\ m_switch' = on
    /\ signals' = signals + 1
    /\ handling' = handling + 1
    /\ UNCHANGED <<managerVars, loop, notices, missed, seen>>

NotifyIfNoneRuns ==
    /\ handling > 0
    /\ handling' = handling - 1
    /\ notices' = IF seen = "idle" /\ notices = 0 THEN 1 ELSE notices
    /\ missed' = FALSE
    /\ UNCHANGED <<managerVars, loop, m_switch, signals, seen>>
\* ... then notify(this).  Its failure is ignored.
Notify ==
    /\ handling > 0
    /\ handling' = handling - 1
    /\ \/ notices' = notices + 1 /\ missed' = FALSE
       \/ missed' = TRUE /\ UNCHANGED notices
    /\ UNCHANGED <<managerVars, loop, m_switch, signals, seen>>

\* LogSwitcher::handle_exception reads m_switch.
Dispatch ==
    /\ loop = "run" /\ seen = "idle"
    /\ notices > 0
    /\ notices' = notices - 1
    /\ seen' = m_switch
    /\ UNCHANGED <<managerVars, loop, m_switch, signals, handling, missed>>

\* ... and sets or clears SILENT.
Switch ==
    /\ seen # "idle"
    /\ IF seen = "on" THEN clr_flags({"SILENT"}) ELSE set_flags({"SILENT"})
    /\ seen' = "idle"
    /\ UNCHANGED <<program, pc, backend, msg_ostream, msg_callback, mask,
                   callerVars, loop, m_switch, signals, handling, notices, missed>>

\* LoopStopper::handle_signal: end_reactor_event_loop, which lets a callback
\* that runs end.
StopLoop ==
    /\ Library /\ loop = "run"
    /\ loop' = "ended"
    /\ UNCHANGED <<managerVars, m_switch, signals, handling, notices, missed, seen>>

\* The program's own thread, which does not run while a callback does.
Program == seen = "idle" /\ ManagerNext /\ UNCHANGED switchVars

Finished == Now = {} /\ UNCHANGED vars

Next ==
    \/ Program
    \/ \E on \in {"on", "off"} : Signal(on)
    \/ Notify \/ Dispatch \/ Switch \/ StopLoop
    \/ Finished

Spec == Init /\ [][Next]_vars

(* A callback that was entered goes on, and so does a signal's handler; a  *)
(* queued notification is dispatched.                                      *)
Fairness == WF_vars(Notify) /\ WF_vars(Dispatch) /\ WF_vars(Switch)

FairSpec == Spec /\ Fairness

-----------------------------------------------------------------------------
Anything == Streams \cup Callbacks \cup {File, Output, Callback}

(* The type invariant: the log, its callers' objects and the switch.       *)
TypeOK ==
    /\ program \in Programs /\ pc \in Nat
    /\ flags \subseteq Flags
    /\ backend \in {"LOGGER", "SYSLOG", "closed", None}
    /\ msg_ostream \in Streams \cup {File, Output, None}
    /\ msg_callback \in Callbacks \cup {Callback, None}
    /\ mask \subseteq Priorities
    /\ alive \subseteq Anything
    /\ destination \in {"STDERR", "LOGGER", "SYSLOG", File, None} \cup Streams
    /\ loop \in {"run", "ended"}
    /\ m_switch \in {"unset", "on", "off"}
    /\ signals \in 0..MaxSignals /\ handling \in 0..signals
    /\ notices \in Nat
    /\ missed \in BOOLEAN
    /\ seen \in {"idle", "on", "off"}

\* A message may be logged now: in Library, at any time.
Logging == Library \/ \E m \in Now : m.op = "log"

(* After RedirectToOStream and RedirectToStderr (LogManager.cpp:25-30,     *)
(* 44-48) no message is written to an object that was destroyed, whatever  *)
(* was redirected, registered, switched and destroyed before, in whatever  *)
(* order; and a callback never is dead, at Trace4's end neither, where a   *)
(* trace is logged (Program.cpp:52-61).  What may dangle is a stream, as   *)
(* it always does after RedirectToFile, which destroys its own, and as it  *)
(* may after RedirectToDaemon and RedirectToSyslog (15-23), which leave    *)
(* the pointer to a stream that nobody needs any more.                     *)
DanglingCured ==
    Logging =>
        /\ Dangling \subseteq Streams \cup {File}
        /\ Dangling # {} => destination \in {File, "LOGGER", "SYSLOG"}

(* A message that says where it goes (Trace3/Program.cpp:18-27, and the    *)
(* output quoted in Trace4/Program.cpp:86-110) goes exactly there, but for *)
(* a system log that cannot be opened.                                     *)
SaidIsDone ==
    \A m \in Now : m.op = "log" /\ m.says # Unsaid =>
        Reaches(m) = m.says \ (IF backend = "closed" THEN {"SYSLOG"} ELSE {})

\* A message reaches what the last redirection asked for, or stderr if the
\* backend that was asked for could not be opened.
Arrives ==
    \/ destination \in Sinks
    \/ destination \in {"LOGGER", "SYSLOG"} /\ backend = "closed" /\ "STDERR" \in Sinks

(* Unless they are switched off, messages arrive where the last            *)
(* redirection to stderr, the daemon, the system's log or a caller's       *)
(* stream sent them, whatever redirections, callbacks, switches and        *)
(* deletions came before; and at stderr or the stream only, unless the     *)
(* system's log was opened once, which no redirection turns off again      *)
(* (LogManager.cpp:28 and 46).  Messages to a file never arrive: see       *)
(* RedirectedArrives.  A call of a destroyed stream besides, which         *)
(* DanglingCured confines, is taken to do nothing.                         *)
LastRedirectionHolds ==
    Library /\ destination \notin {None, File} /\ "SILENT" \notin flags =>
        /\ Arrives
        /\ destination \in Streams \cup {"STDERR"} /\ "SYSLOG" \notin flags =>
                Sinks \ Callbacks = {destination}

(* Every message that follows a redirection arrives where it asked for, as *)
(* Trace6 expects of the one it sends to log.txt (Program.cpp:47-48).      *)
RedirectedArrives ==
    Logging /\ destination # None /\ "SILENT" \notin flags => Arrives

Follows == "SILENT" \in flags <=> m_switch = "off"

(* However signals interrupt each other and the switching                  *)
(* (LogSwitcher.cpp:32-33 and 46-53), once no notification is on its way,  *)
(* and if the last one did not fail, the log is silent exactly if the last *)
(* signal was the one for "off".                                           *)
LogFollowsSwitch ==
    handling = 0 /\ notices = 0 /\ seen = "idle" /\ ~ missed => Follows

(* And that comes about, unless the loop ends or the notification fails.   *)
SwitchTakesEffect == <>[](Follows \/ loop = "ended" \/ missed)
=============================================================================
