----------------------------- MODULE LogManager -----------------------------
(***************************************************************************)
(* The log of a process (ACE_Log_Msg), the LogManager of Trace6-Redirect,  *)
(* and the programs that use them: Trace1 to Trace6, each as the list of   *)
(* its calls, and "Library", a program that uses a LogManager in any order.*)
(*                                                                         *)
(* A message is what it reaches: stderr, the backend (the logging daemon   *)
(* or the system's log), a stream, a callback.  Its text does not matter,  *)
(* but where it says itself what it reaches (Trace3).                      *)
(***************************************************************************)
EXTENDS Naturals, Sequences

CONSTANTS
    Programs,   \* the programs to run, among those below
    Streams,    \* output streams a caller of LogManager has
    Callbacks,  \* callbacks it has
    File,       \* the ofstream in RedirectToFile
    Output,     \* the ofstream of Trace3
    Callback,   \* the callback object of Trace4
    None        \* a null pointer; nothing

ASSUME StreamsAssumption == None \notin Streams /\ File \notin Streams /\ File # None
ASSUME CallbacksAssumption ==
    None \notin Callbacks /\ File \notin Callbacks /\ Callbacks \cap Streams = {}
ASSUME ObjectsAssumption == Output # None /\ Callback # None
\* A name that stands for stderr or a backend is none of these.
ASSUME NamesAssumption ==
    {"STDERR", "LOGGER", "SYSLOG", "closed"}
        \cap (Streams \cup Callbacks \cup {File, Output, Callback, None}) = {}

VARIABLES
    program,      \* the program that runs
    pc,           \* the place in its list of calls
    flags,        \* ACE_Log_Msg's flags
    backend,      \* what open() opened: "LOGGER", "SYSLOG", "closed" or None
    msg_ostream,  \* the stream pointer
    msg_callback, \* the callback pointer
    mask,         \* the priorities that are logged
    alive,        \* the streams and callbacks that exist
    destination   \* the last redirection asked for

logVars == <<flags, backend, msg_ostream, msg_callback, mask>>
callerVars == <<alive, destination>>
managerVars == <<program, pc, logVars, callerVars>>

Priorities == {"TRACE", "DEBUG", "INFO", "NOTICE"}
Flags == {"STDERR", "LOGGER", "SYSLOG", "OSTREAM", "MSG_CALLBACK", "SILENT"}

-----------------------------------------------------------------------------
(* The programs. *)

Call(name, arg) == [op |-> name, arg |-> arg]
\* A message; says: what it has to reach, where the source tells.
Unsaid == {None}
Log(priority) == [op |-> "log", priority |-> priority, says |-> Unsaid]
LogTo(priority, says) == [op |-> "log", priority |-> priority, says |-> says]

\* ACE_TRACE is off (ACE_NTRACE is 1 by default).
Trace1 == <<Log("INFO"), Log("INFO"), Log("INFO")>>

\* ACE_TRACE is on: main and foo are traced on entry and on exit.
Trace2 ==
    <<Log("TRACE"), Call("priority_mask", {"DEBUG", "NOTICE"}), Log("INFO"),
      Log("TRACE"), Log("NOTICE"), Log("TRACE"), Log("DEBUG"), Log("TRACE")>>

Trace3 ==
    <<Call("open", "STDERR"), Call("new", Output), LogTo("DEBUG", {"STDERR"}),
      Call("open", "SYSLOG"), Call("set_flags", "STDERR"),
      LogTo("DEBUG", {"STDERR", "SYSLOG"}),
      Call("msg_ostream", Output), Call("set_flags", "OSTREAM"),
      LogTo("DEBUG", {"STDERR", "SYSLOG", Output}),
      Call("clr_flags", "OSTREAM"), Call("delete", Output)>>

Trace4CallbackGone ==
    <<Call("new", Callback), Call("set_flags", "MSG_CALLBACK"),
      Call("clr_flags", "STDERR"), Call("msg_callback", Callback),
      LogTo("TRACE", {Callback}), LogTo("DEBUG", {Callback}),
      LogTo("INFO", {Callback}), Call("delete", Callback),
      LogTo("TRACE", {Callback})>>
\* ACE_TRACE is on.  Its object is destroyed, which logs, before the callback.
Trace4 ==
    <<Call("new", Callback), Call("set_flags", "MSG_CALLBACK"),
      Call("clr_flags", "STDERR"), Call("msg_callback", Callback),
      LogTo("TRACE", {Callback}), LogTo("DEBUG", {Callback}),
      LogTo("INFO", {Callback}), LogTo("TRACE", {Callback}),
      Call("delete", Callback)>>

Trace5 == <<Call("open", "LOGGER"), Log("DEBUG"), Log("INFO")>>

Trace6 ==
    <<Call("RedirectToStderr", None), Call("RedirectToSyslog", None), Log("INFO"),
      Call("RedirectToFile", None), Log("INFO"),
      Call("RedirectToDaemon", None), Log("INFO")>>

Script ==
    [Trace1 |-> Trace1, Trace2 |-> Trace2, Trace3 |-> Trace3,
     Trace4 |-> Trace4, Trace5 |-> Trace5, Trace6 |-> Trace6]

ASSUME ProgramsAssumption == Programs \subseteq DOMAIN Script \cup {"Library"}

\* What a caller of LogManager may do next: it destroys any stream it has
\* redirected the log away from, and any callback that is not registered.
LibraryCalls ==
    {Call(name, None) : name \in {"RedirectToDaemon", "RedirectToSyslog",
                                  "RedirectToFile", "RedirectToStderr"}}
    \cup {Call("RedirectToOStream", s) : s \in Streams \cap alive}
    \cup {Call("RedirectToCallback", c) : c \in (Callbacks \cap alive) \cup {None}}
    \cup {Call("delete", o) : o \in alive \ {destination, msg_callback}}

Library == program = "Library"

\* The call that comes now.
Now ==
    IF Library THEN LibraryCalls
    ELSE IF pc <= Len(Script[program]) THEN {Script[program][pc]} ELSE {}

-----------------------------------------------------------------------------
(* ACE_Log_Msg. *)

set_flags(m) == flags' = flags \cup m
clr_flags(m) == flags' = flags \ m

openAnyBackend(kind) ==
    /\ backend' = kind
    /\ flags' = flags \cup {kind}
    /\ UNCHANGED <<msg_ostream, msg_callback, mask>>
(* open(name, kind).  A backend that cannot be opened leaves the messages  *)
(* to stderr; one that can takes them from there.                          *)
open(kind) ==
    /\ \/ /\ kind = "STDERR"
          /\ UNCHANGED <<backend, flags>>
       \/ /\ kind # "STDERR"
          /\ backend' = kind
          /\ flags' = (flags \cup {kind}) \ {"STDERR"}
       \/ /\ kind # "STDERR"
          /\ backend' = "closed"
          /\ set_flags({"STDERR"})
    /\ UNCHANGED <<msg_ostream, msg_callback, mask>>

\* The objects the log calls for a message.
Written ==
    IF "SILENT" \in flags THEN {}
    ELSE ((IF "OSTREAM" \in flags THEN {msg_ostream} ELSE {})
          \cup (IF "MSG_CALLBACK" \in flags THEN {msg_callback} ELSE {})) \ {None}

\* Those that were destroyed: what a call of them does is undefined.
Dangling == Written \ alive

\* What a message reaches that is not masked.
Sinks ==
    IF "SILENT" \in flags THEN {}
    ELSE (flags \cap {"STDERR"})
         \cup (IF flags \cap {"LOGGER", "SYSLOG"} # {}
               THEN {backend} \cap {"LOGGER", "SYSLOG"} ELSE {})
         \cup (Written \cap alive)

Reaches(m) == IF m.priority \in mask THEN Sinks ELSE {}

-----------------------------------------------------------------------------
(* The calls.  s is the one that comes now. *)

Step == pc' = (IF Library THEN pc ELSE pc + 1) /\ UNCHANGED program

\* A message through a dangling pointer is lost, and the program goes on.
log(s) ==
    /\ s.op = "log"
    /\ UNCHANGED <<logVars, callerVars>>

SetUp(s) ==
    /\ \/ s.op = "open" /\ open(s.arg)
       \/ s.op = "set_flags" /\ set_flags({s.arg})
          /\ UNCHANGED <<backend, msg_ostream, msg_callback, mask>>
       \/ s.op = "clr_flags" /\ clr_flags({s.arg})
          /\ UNCHANGED <<backend, msg_ostream, msg_callback, mask>>
       \/ s.op = "msg_ostream" /\ msg_ostream' = s.arg
          /\ UNCHANGED <<flags, backend, msg_callback, mask>>
       \/ s.op = "msg_callback" /\ msg_callback' = s.arg
          /\ UNCHANGED <<flags, backend, msg_ostream, mask>>
       \/ s.op = "priority_mask" /\ mask' = s.arg
          /\ UNCHANGED <<flags, backend, msg_ostream, msg_callback>>
    /\ UNCHANGED callerVars

Objects(s) ==
    /\ \/ s.op = "new" /\ alive' = alive \cup {s.arg}
       \/ s.op = "delete" /\ alive' = alive \ {s.arg}
    /\ UNCHANGED <<logVars, destination>>

RedirectToDaemon(s) ==
    /\ s.op = "RedirectToDaemon"
    /\ open("LOGGER")
    /\ destination' = "LOGGER"
    /\ UNCHANGED alive

RedirectToSyslog(s) ==
    /\ s.op = "RedirectToSyslog"
    /\ open("SYSLOG")
    /\ destination' = "SYSLOG"
    /\ UNCHANGED alive

ToOStream(output) ==
    /\ msg_ostream' = output
    /\ flags' = (flags \ {"STDERR", "LOGGER"}) \cup {"OSTREAM"}
    /\ UNCHANGED <<backend, msg_callback, mask>>

RedirectToOStream(s) ==
    /\ s.op = "RedirectToOStream"
    /\ ToOStream(s.arg)
    /\ destination' = s.arg
    /\ UNCHANGED alive

(* The file's stream is a local, closed and destroyed on return: File is   *)
(* never alive when a message is logged.                                   *)
RedirectToFile(s) ==
    /\ s.op = "RedirectToFile"
    /\ \/ ToOStream(File) /\ destination' = File
       \/ UNCHANGED <<logVars, destination>>
    /\ UNCHANGED alive

RedirectToStderrKeepsStream(s) ==
    /\ s.op = "RedirectToStderr"
    /\ flags' = (flags \ {"LOGGER"}) \cup {"STDERR"}
    /\ destination' = "STDERR"
    /\ UNCHANGED <<backend, msg_ostream, msg_callback, mask, alive>>
RedirectToStderrKeepsDaemon(s) ==
    /\ s.op = "RedirectToStderr"
    /\ flags' = (flags \ {"OSTREAM"}) \cup {"STDERR"}
    /\ destination' = "STDERR"
    /\ UNCHANGED <<backend, msg_ostream, msg_callback, mask, alive>>
RedirectToStderr(s) ==
    /\ s.op = "RedirectToStderr"
    /\ flags' = (flags \ {"OSTREAM", "LOGGER"}) \cup {"STDERR"}
    /\ destination' = "STDERR"
    /\ UNCHANGED <<backend, msg_ostream, msg_callback, mask, alive>>

(* The flag follows the previous callback, not the new one.                *)
RedirectToCallback(s) ==
    /\ s.op = "RedirectToCallback"
    /\ msg_callback' = s.arg
    /\ IF msg_callback = None THEN clr_flags({"MSG_CALLBACK"})
       ELSE set_flags({"MSG_CALLBACK"})
    /\ UNCHANGED <<backend, msg_ostream, mask, callerVars>>

Redirect(s) ==
    \/ RedirectToDaemon(s) \/ RedirectToSyslog(s) \/ RedirectToOStream(s)
    \/ RedirectToFile(s) \/ RedirectToStderr(s) \/ RedirectToCallback(s)

-----------------------------------------------------------------------------
ManagerInit ==
    /\ program \in Programs
    /\ pc = 1
    /\ flags = {"STDERR"} /\ backend = None
    /\ msg_ostream = None /\ msg_callback = None
    /\ mask = Priorities
    /\ alive = (IF Library THEN Streams \cup Callbacks ELSE {})
    /\ destination = None

ManagerNext ==
    \E s \in Now : Step /\ (log(s) \/ SetUp(s) \/ Objects(s) \/ Redirect(s))
=============================================================================
