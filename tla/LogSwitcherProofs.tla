-------------------------- MODULE LogSwitcherProofs --------------------------
(***************************************************************************)
(* Proofs about LogManager.tla and LogSwitcher.tla for any streams,        *)
(* callbacks and signals.                                                  *)
(***************************************************************************)
EXTENDS LogSwitcher, TLAPS

-----------------------------------------------------------------------------
(* The inductive invariant: the types, the switch, a caller of LogManager, *)
(* and the programs that are lists of calls.                               *)

(* A signal's request is never forgotten: its handler has still to notify, *)
(* a notification is queued or failed, handle_exception has read the       *)
(* request and will carry it out, or it is carried out.                    *)
SwitchInv ==
    /\ m_switch = "unset" => signals = 0 /\ notices = 0
    /\ ~ Library => signals = 0 /\ notices = 0 /\ seen = "idle"
    /\ \/ handling > 0 \/ notices > 0 \/ missed
       \/ seen = m_switch
       \/ seen = "idle" /\ Follows

\* The backend was opened, or could not be and stderr stands in for it.
Opened(kind) ==
    \/ backend = kind /\ kind \in flags
    \/ backend = "closed" /\ "STDERR" \in flags

\* The flags follow the last redirection.
Redirected ==
    /\ destination = None => "OSTREAM" \notin flags
    /\ destination = "LOGGER" => Opened("LOGGER")
    /\ destination = "SYSLOG" => Opened("SYSLOG")
    /\ destination = "STDERR" =>
            "STDERR" \in flags /\ flags \cap {"OSTREAM", "LOGGER"} = {}
    /\ destination \in Streams \cup {File} =>
            /\ msg_ostream = destination /\ "OSTREAM" \in flags
            /\ flags \cap {"STDERR", "LOGGER"} = {}

\* The caller keeps the registered callback and the stream it redirected the
\* log to last; other streams, to which the log may still point, it may not.
LibraryInv ==
    Library =>
        /\ msg_callback \in (alive \cap Callbacks) \cup {None}
        /\ msg_ostream \in Streams \cup {File, None}
        /\ destination \in Streams => destination \in alive
        /\ Redirected

\* What open() left: Trace3's "SYSLOG", unless it could not be opened.
Syslog == {backend} \cap {"SYSLOG"}

Trace3Inv ==
    program = "Trace3" =>
        /\ pc \in 1..12 /\ mask = Priorities
        /\ msg_callback = None
        /\ msg_ostream = (IF pc <= 7 THEN None ELSE Output)
        /\ pc \in 3..11 => Output \in alive
        /\ pc >= 5 => backend \in {"SYSLOG", "closed"}
        /\ flags = CASE pc <= 4 -> {"STDERR"}
                     [] pc = 5 -> IF backend = "SYSLOG" THEN Syslog ELSE {"STDERR"}
                     [] pc \in {9, 10} -> {"STDERR", "OSTREAM"} \cup Syslog
                     [] OTHER -> {"STDERR"} \cup Syslog

Trace4Inv ==
    program = "Trace4" =>
        /\ pc \in 1..10 /\ mask = Priorities
        /\ msg_ostream = None
        /\ msg_callback = (IF pc <= 4 THEN None ELSE Callback)
        /\ pc \in 2..9 => Callback \in alive
        /\ flags = CASE pc <= 2 -> {"STDERR"}
                     [] pc = 3 -> {"STDERR", "MSG_CALLBACK"}
                     [] OTHER -> {"MSG_CALLBACK"}

OthersInv ==
    program \in {"Trace1", "Trace2", "Trace5", "Trace6"} =>
        /\ msg_ostream \in {File, None} /\ msg_callback = None
        /\ "OSTREAM" \in flags => destination \in {File, "LOGGER", "SYSLOG"}

IInv ==
    /\ TypeOK /\ pc # 0
    /\ SwitchInv
    /\ LibraryInv
    /\ Trace3Inv /\ Trace4Inv /\ OthersInv
-----------------------------------------------------------------------------
(* The calls a program makes. *)

(* What the arguments of a call can be.                                    *)
CallOK(s) ==
    /\ s.op = "open" => s.arg \in {"STDERR", "LOGGER", "SYSLOG"}
    /\ s.op \in {"set_flags", "clr_flags"} => s.arg \in Flags \ {"SILENT"}
    /\ s.op = "msg_ostream" => s.arg = Output /\ program = "Trace3"
    /\ s.op = "msg_callback" => s.arg = Callback /\ program = "Trace4"
    /\ s.op = "priority_mask" => s.arg \subseteq Priorities
    /\ s.op = "new" => s.arg \in {Output, Callback}
    /\ s.op \in {"RedirectToOStream", "RedirectToCallback"} => Library

(* A script is gone through call by call.                                  *)
LEMMA ScriptCall ==
    ASSUME program \in DOMAIN Script, pc \in Nat \ {0}, NEW s \in Now
    PROVE  ~ Library /\ pc \in 1 .. Len(Script[program]) /\ s = Script[program][pc]
BY DEF Now, Library, Script

LEMMA Trace3Call ==
    ASSUME program = "Trace3", pc \in Nat \ {0}, NEW s \in Now
    PROVE  \/ pc = 1 /\ s = Call("open", "STDERR")
           \/ pc = 2 /\ s = Call("new", Output)
           \/ pc = 3 /\ s = LogTo("DEBUG", {"STDERR"})
           \/ pc = 4 /\ s = Call("open", "SYSLOG")
           \/ pc = 5 /\ s = Call("set_flags", "STDERR")
           \/ pc = 6 /\ s = LogTo("DEBUG", {"STDERR", "SYSLOG"})
           \/ pc = 7 /\ s = Call("msg_ostream", Output)
           \/ pc = 8 /\ s = Call("set_flags", "OSTREAM")
           \/ pc = 9 /\ s = LogTo("DEBUG", {"STDERR", "SYSLOG", Output})
           \/ pc = 10 /\ s = Call("clr_flags", "OSTREAM")
           \/ pc = 11 /\ s = Call("delete", Output)
<1>1. program \in DOMAIN Script /\ Script[program] = Trace3
  BY DEF Script
<1>2. pc \in 1 .. Len(Trace3) /\ s = Trace3[pc]
  BY <1>1, ScriptCall
<1>3. Len(Trace3) = 11
  BY DEF Trace3
<1> QED
  BY <1>2, <1>3 DEF Trace3

LEMMA Trace4Call ==
    ASSUME program = "Trace4", pc \in Nat \ {0}, NEW s \in Now
    PROVE  \/ pc = 1 /\ s = Call("new", Callback)
           \/ pc = 2 /\ s = Call("set_flags", "MSG_CALLBACK")
           \/ pc = 3 /\ s = Call("clr_flags", "STDERR")
           \/ pc = 4 /\ s = Call("msg_callback", Callback)
           \/ /\ pc \in 5..8
              /\ \E m \in {"TRACE", "DEBUG", "INFO"} : s = LogTo(m, {Callback})
           \/ pc = 9 /\ s = Call("delete", Callback)
<1>1. program \in DOMAIN Script /\ Script[program] = Trace4
  BY DEF Script
<1>2. pc \in 1 .. Len(Trace4) /\ s = Trace4[pc]
  BY <1>1, ScriptCall
<1>3. Len(Trace4) = 9
  BY DEF Trace4
<1> QED
  BY <1>2, <1>3 DEF Trace4

(* The other scripts log, and say nothing of where; Trace6 redirects.      *)
LEMMA OtherCall ==
    ASSUME program \in {"Trace1", "Trace2", "Trace5", "Trace6"}, pc \in Nat \ {0},
           NEW s \in Now
    PROVE  \/ s.op = "log" /\ s.says = Unsaid
           \/ s.op = "priority_mask" /\ s.arg \subseteq Priorities
           \/ s.op = "open" /\ s.arg = "LOGGER"
           \/ s.op \in {"RedirectToDaemon", "RedirectToSyslog", "RedirectToFile",
                        "RedirectToStderr"}
<1>1. pc \in 1 .. Len(Script[program]) /\ s = Script[program][pc]
  <2>1. program \in DOMAIN Script
    BY DEF Script
  <2> QED
    BY <2>1, ScriptCall
<1>2. CASE program = "Trace1"
  BY <1>1, <1>2 DEF Script, Trace1, Log
<1>3. CASE program = "Trace2"
  BY <1>1, <1>3 DEF Script, Trace2, Log, Call, Priorities
<1>4. CASE program = "Trace5"
  BY <1>1, <1>4 DEF Script, Trace5, Log, Call
<1>5. CASE program = "Trace6"
  BY <1>1, <1>5 DEF Script, Trace6, Log, Call
<1> QED
  BY <1>2, <1>3, <1>4, <1>5

LEMMA LibraryCall ==
    ASSUME Library, NEW s \in Now
    PROVE  \/ s.op \in {"RedirectToDaemon", "RedirectToSyslog", "RedirectToFile",
                        "RedirectToStderr"}
           \/ s.op = "RedirectToOStream" /\ s.arg \in Streams \cap alive
           \/ s.op = "RedirectToCallback" /\ s.arg \in (Callbacks \cap alive) \cup {None}
           \/ s.op = "delete" /\ s.arg \in alive \ {destination, msg_callback}
BY DEF Now, LibraryCalls, Call

LEMMA CallsOK ==
    ASSUME program \in Programs, pc \in Nat \ {0}, NEW s \in Now
    PROVE  CallOK(s)
<1>1. program \in {"Trace1", "Trace2", "Trace3", "Trace4", "Trace5", "Trace6", "Library"}
  BY ProgramsAssumption DEF Script
<1>2. CASE program = "Library"
  BY <1>2, LibraryCall DEF Library, CallOK
<1>3. CASE program = "Trace3"
  BY <1>3, Trace3Call DEF Call, LogTo, CallOK, Flags
<1>4. CASE program = "Trace4"
  BY <1>4, Trace4Call DEF Call, LogTo, CallOK, Flags
<1>5. CASE program \in {"Trace1", "Trace2", "Trace5", "Trace6"}
  BY <1>5, OtherCall DEF CallOK
<1> QED
  BY <1>1, <1>2, <1>3, <1>4, <1>5
-----------------------------------------------------------------------------
(* The steps of the program's own thread. *)

LEMMA InitIInv == Init => IInv
<1> SUFFICES ASSUME Init PROVE IInv
  OBVIOUS
<1>1. /\ program \in Programs /\ pc = 1 /\ loop = "run" /\ m_switch = "unset"
      /\ signals = 0 /\ handling = 0 /\ notices = 0 /\ missed \in BOOLEAN
      /\ seen = "idle" /\ flags = {"STDERR"} /\ backend = None
      /\ msg_ostream = None /\ msg_callback = None /\ mask = Priorities
      /\ alive \subseteq Streams \cup Callbacks
      /\ destination = None
  BY Zenon DEF Init, ManagerInit
<1>2. TypeOK /\ pc # 0
  <2>1. signals \in 0..MaxSignals /\ handling \in 0..signals /\ notices \in Nat
    BY <1>1, MaxSignalsAssumption
  <2>2. alive \subseteq Anything /\ flags \subseteq Flags
    BY <1>1 DEF Anything, Flags
  <2> QED
    BY <1>1, <2>1, <2>2 DEF TypeOK
<1>3. SwitchInv
  BY <1>1 DEF SwitchInv, Follows
<1>4. LibraryInv
  BY <1>1, StreamsAssumption, NamesAssumption DEF LibraryInv, Redirected
<1>5. Trace3Inv /\ Trace4Inv /\ OthersInv
  BY <1>1 DEF Trace3Inv, Trace4Inv, OthersInv
<1> QED
  BY <1>2, <1>3, <1>4, <1>5 DEF IInv

(* Every call leaves the log and its callers' objects well-formed.         *)
LEMMA ManagerType ==
    ASSUME IInv, ManagerNext, UNCHANGED switchVars
    PROVE  TypeOK' /\ pc' # 0
<1>1. PICK s \in Now : Step /\ (log(s) \/ SetUp(s) \/ Objects(s) \/ Redirect(s))
  BY DEF ManagerNext
<1>2. CallOK(s)
  BY <1>1, CallsOK DEF IInv, TypeOK
<1>3. pc' \in Nat /\ pc' # 0 /\ program' = program /\ program \in Programs
  BY <1>1 DEF Step, IInv, TypeOK
<1>4. UNCHANGED <<loop, m_switch, signals, handling, notices, missed, seen>>
  BY DEF switchVars
<1> DEFINE LogType == /\ flags \subseteq Flags
                      /\ backend \in {"LOGGER", "SYSLOG", "closed", None}
                      /\ msg_ostream \in Streams \cup {File, Output, None}
                      /\ msg_callback \in Callbacks \cup {Callback, None}
                      /\ mask \subseteq Priorities
           CallerType == /\ alive \subseteq Anything
                         /\ destination \in {"STDERR", "LOGGER", "SYSLOG", File, None}
                                                \cup Streams
<1>5. LogType /\ CallerType
  BY DEF IInv, TypeOK
<1>6. LogType' /\ CallerType'
  <2>1. CASE log(s)
    BY <1>5, <2>1 DEF log, logVars, callerVars
  <2>2. CASE SetUp(s)
    <3>1. CallerType'
      BY <1>5, <2>2 DEF SetUp, callerVars
    <3>2. LogType'
      BY <1>2, <1>5, <2>2 DEF SetUp, CallOK, open, set_flags, clr_flags, Flags
    <3> QED
      BY <3>1, <3>2
  <2>3. CASE Objects(s)
    BY <1>2, <1>5, <2>3 DEF Objects, CallOK, logVars, Anything
  <2>4. CASE RedirectToDaemon(s) \/ RedirectToSyslog(s)
    BY <1>5, <2>4 DEF RedirectToDaemon, RedirectToSyslog, open, set_flags, Flags
  <2>5. CASE RedirectToFile(s)
    BY <1>5, <2>5 DEF RedirectToFile, ToOStream, logVars, Flags
  <2>6. CASE RedirectToStderr(s)
    BY <1>5, <2>6 DEF RedirectToStderr, Flags
  <2>7. CASE RedirectToOStream(s)
    <3>1. s.arg \in Streams
      BY <1>1, <1>2, <2>7, LibraryCall DEF CallOK, RedirectToOStream
    <3> QED
      BY <1>5, <2>7, <3>1 DEF RedirectToOStream, ToOStream, Flags
  <2>8. CASE RedirectToCallback(s)
    <3>1. Library /\ s.arg \in Callbacks \cup {None}
      BY <1>1, <1>2, <2>8, LibraryCall DEF CallOK, RedirectToCallback
    <3>2. LogType'
      BY <1>5, <2>8, <3>1 DEF RedirectToCallback, clr_flags, set_flags, Flags
    <3>3. CallerType'
      BY <1>5, <2>8 DEF RedirectToCallback, callerVars
    <3> QED
      BY <3>2, <3>3
  <2> QED
    BY <1>1, <2>1, <2>2, <2>3, <2>4, <2>5, <2>6, <2>7, <2>8 DEF Redirect
<1> QED
  BY <1>3, <1>4, <1>6 DEF IInv, TypeOK

(* No call touches SILENT, so none disturbs the switch.                    *)
LEMMA ManagerSwitch ==
    ASSUME IInv, ManagerNext, UNCHANGED switchVars
    PROVE  SwitchInv'
<1>1. PICK s \in Now : Step /\ (log(s) \/ SetUp(s) \/ Objects(s) \/ Redirect(s))
  BY DEF ManagerNext
<1>2. CallOK(s)
  BY <1>1, CallsOK DEF IInv, TypeOK
<1>3. program' = program
  BY <1>1 DEF Step
<1>4. "SILENT" \in flags' <=> "SILENT" \in flags
  <2>1. CASE log(s) \/ Objects(s)
    BY <2>1 DEF log, Objects, logVars
  <2>2. CASE SetUp(s)
    BY <1>2, <2>2 DEF SetUp, CallOK, open, set_flags, clr_flags
  <2>3. CASE Redirect(s)
    BY <2>3 DEF Redirect, RedirectToDaemon, RedirectToSyslog, RedirectToOStream,
                RedirectToFile, RedirectToStderr, RedirectToCallback, ToOStream,
                open, set_flags, clr_flags, logVars
  <2> QED
    BY <1>1, <2>1, <2>2, <2>3
<1> QED
  BY <1>3, <1>4 DEF IInv, SwitchInv, switchVars, Follows, Library

(* A caller of LogManager keeps what it redirected the log to last, and    *)
(* that is a stream of its own unless RedirectToFile brought one.          *)
LEMMA ManagerLibrary ==
    ASSUME IInv, ManagerNext
    PROVE  LibraryInv'
<1> SUFFICES ASSUME Library'
             PROVE  LibraryInv'
  BY DEF LibraryInv
<1>1. PICK s \in Now : Step /\ (log(s) \/ SetUp(s) \/ Objects(s) \/ Redirect(s))
  BY DEF ManagerNext
<1>2. Library
  BY <1>1 DEF Step, Library
<1>3. /\ msg_callback \in (alive \cap Callbacks) \cup {None}
      /\ msg_ostream \in Streams \cup {File, None}
      /\ destination \in Streams => destination \in alive
      /\ Redirected
  BY <1>2 DEF IInv, LibraryInv
<1>4. /\ {"STDERR", "LOGGER", "SYSLOG", "closed"} \cap (Streams \cup {File, None}) = {}
      /\ None \notin Streams \cup Callbacks /\ File # None
      /\ Streams \cap Callbacks = {} /\ File \notin Callbacks
  BY StreamsAssumption, CallbacksAssumption, NamesAssumption
<1> USE <1>3, <1>4 DEF LibraryInv
<1>5. CASE s.op = "delete"
  <2>1. /\ alive' = alive \ {s.arg} /\ s.arg \notin {destination, msg_callback}
        /\ UNCHANGED <<logVars, destination>>
    BY <1>1, <1>2, <1>5, LibraryCall
       DEF log, SetUp, Objects, Redirect, RedirectToDaemon, RedirectToSyslog,
           RedirectToOStream, RedirectToFile, RedirectToStderr, RedirectToCallback
  <2> QED
    BY <2>1 DEF logVars, Redirected, Opened
<1>6. CASE Redirect(s)
  <2>1. CASE RedirectToDaemon(s) \/ RedirectToSyslog(s)
    BY <2>1 DEF RedirectToDaemon, RedirectToSyslog, open, set_flags, Redirected,
                Opened
  <2>2. CASE RedirectToFile(s)
    <3>1. CASE ToOStream(File) /\ destination' = File
      <4>1. /\ destination' = File /\ msg_ostream' = File /\ "OSTREAM" \in flags'
            /\ flags' \cap {"STDERR", "LOGGER"} = {}
            /\ UNCHANGED <<msg_callback, alive>>
        BY <2>2, <3>1 DEF RedirectToFile, ToOStream
      <4>2. Redirected'
        BY <4>1 DEF Redirected
      <4>3. destination' \notin Streams
        BY <4>1, StreamsAssumption
      <4> QED
        BY <4>1, <4>2, <4>3
    <3>2. CASE UNCHANGED <<logVars, destination>>
      BY <2>2, <3>2 DEF RedirectToFile, logVars, Redirected, Opened
    <3> QED
      BY <2>2, <3>1, <3>2 DEF RedirectToFile
  <2>3. CASE RedirectToStderr(s)
    BY <2>3 DEF RedirectToStderr, Redirected, Opened
  <2>4. CASE RedirectToOStream(s)
    <3>1. s.arg \in Streams \cap alive
      BY <1>1, <1>2, <2>4, LibraryCall DEF RedirectToOStream
    <3> QED
      BY <2>4, <3>1 DEF RedirectToOStream, ToOStream, Redirected, Opened
  <2>5. CASE RedirectToCallback(s)
    <3>1. s.arg \in (Callbacks \cap alive) \cup {None}
      BY <1>1, <1>2, <2>5, LibraryCall DEF RedirectToCallback
    <3> QED
      BY <2>5, <3>1 DEF RedirectToCallback, set_flags, clr_flags, callerVars,
                        Redirected, Opened
  <2> QED
    BY <1>6, <2>1, <2>2, <2>3, <2>4, <2>5 DEF Redirect
<1>7. ~ (log(s) \/ SetUp(s)) /\ (Objects(s) => s.op = "delete")
  BY <1>1, <1>2, LibraryCall DEF log, SetUp, Objects
<1> QED
  BY <1>1, <1>5, <1>6, <1>7

LEMMA ManagerScripts ==
    ASSUME IInv, ManagerNext
    PROVE  Trace3Inv' /\ Trace4Inv' /\ OthersInv'
<1>1. PICK s \in Now : Step /\ (log(s) \/ SetUp(s) \/ Objects(s) \/ Redirect(s))
  BY DEF ManagerNext
<1>2. program' = program /\ pc \in Nat \ {0} /\ (~ Library => pc' = pc + 1)
  BY <1>1 DEF Step, IInv, TypeOK
<1> USE DEF log, SetUp, Objects, Redirect, RedirectToDaemon, RedirectToSyslog,
            RedirectToOStream, RedirectToFile, RedirectToStderr, RedirectToCallback,
            logVars, callerVars, set_flags, clr_flags
<1>3. Trace3Inv'
  <2> SUFFICES ASSUME program = "Trace3"
               PROVE  Trace3Inv'
    BY <1>2 DEF Trace3Inv
  <2>1. pc' = pc + 1 /\ Trace3Inv
    BY <1>2 DEF Library, IInv
  <2> USE <1>1, <1>2, <2>1 DEF Trace3Inv, Call, LogTo, open, Syslog
  <2>2. CASE pc = 1
    BY <2>2, Trace3Call
  <2>3. CASE pc = 2
    BY <2>3, Trace3Call
  <2>4. CASE pc = 3
    BY <2>4, Trace3Call
  <2>5. CASE pc = 4
    <3>1. /\ \/ backend' = "SYSLOG" /\ flags' = {"SYSLOG"}
             \/ backend' = "closed" /\ flags' = {"STDERR"}
          /\ UNCHANGED <<msg_ostream, msg_callback, mask, alive>>
      BY <2>5, Trace3Call
    <3>2. pc' = 5 /\ msg_callback' = None /\ msg_ostream' = None
          /\ Output \in alive' /\ mask' = Priorities
      BY <2>5, <3>1
    <3>3. CASE backend' = "SYSLOG" /\ flags' = {"SYSLOG"}
      BY <3>2, <3>3
    <3>4. CASE backend' = "closed" /\ flags' = {"STDERR"}
      BY <3>2, <3>4
    <3> QED
      BY <3>1, <3>3, <3>4
  <2>6. CASE pc = 5
    BY <2>6, Trace3Call
  <2>7. CASE pc = 6
    BY <2>7, Trace3Call
  <2>8. CASE pc = 7
    BY <2>8, Trace3Call
  <2>9. CASE pc = 8
    BY <2>9, Trace3Call
  <2>10. CASE pc = 9
    BY <2>10, Trace3Call
  <2>11. CASE pc = 10
    BY <2>11, Trace3Call
  <2>12. CASE pc = 11
    BY <2>12, Trace3Call
  <2> QED
    BY <2>2, <2>3, <2>4, <2>5, <2>6, <2>7, <2>8, <2>9, <2>10, <2>11, <2>12, Trace3Call
<1>4. Trace4Inv'
  <2> SUFFICES ASSUME program = "Trace4"
               PROVE  Trace4Inv'
    BY <1>2 DEF Trace4Inv
  <2>1. pc' = pc + 1 /\ Trace4Inv
    BY <1>2 DEF Library, IInv
  <2> USE <1>1, <1>2, <2>1 DEF Trace4Inv, Call, LogTo
  <2>2. CASE pc = 1
    BY <2>2, Trace4Call
  <2>3. CASE pc = 2
    BY <2>3, Trace4Call
  <2>4. CASE pc = 3
    BY <2>4, Trace4Call
  <2>5. CASE pc = 4
    BY <2>5, Trace4Call
  <2>6. CASE pc \in 5..8
    BY <2>6, Trace4Call
  <2>7. CASE pc = 9
    BY <2>7, Trace4Call
  <2> QED
    BY <2>2, <2>3, <2>4, <2>5, <2>6, <2>7, Trace4Call
<1>5. OthersInv'
  <2> SUFFICES ASSUME program \in {"Trace1", "Trace2", "Trace5", "Trace6"}
               PROVE  OthersInv'
    BY <1>2 DEF OthersInv
  <2>1. OthersInv
    BY DEF IInv
  <2>2. \/ s.op = "log" \/ s.op = "priority_mask"
        \/ s.op = "open" /\ s.arg = "LOGGER"
        \/ s.op \in {"RedirectToDaemon", "RedirectToSyslog", "RedirectToFile",
                     "RedirectToStderr"}
    BY <1>2, OtherCall
  <2>3. /\ msg_ostream' \in {File, None} /\ msg_callback' = None
        /\ "OSTREAM" \in flags' => destination' \in {File, "LOGGER", "SYSLOG"}
    BY <1>1, <2>1, <2>2 DEF open, ToOStream, OthersInv
  <2> QED
    BY <1>2, <2>3 DEF OthersInv
<1> QED
  BY <1>3, <1>4, <1>5
-----------------------------------------------------------------------------
(* The steps of the signals and of the reactor.  They change SILENT and    *)
(* nothing else of the log.                                                *)

\* What the log and its callers have, but for SILENT.
RestUnchanged ==
    /\ flags' \ {"SILENT"} = flags \ {"SILENT"}
    /\ UNCHANGED <<program, pc, backend, msg_ostream, msg_callback, mask,
                   callerVars>>

LEMMA RestKept ==
    ASSUME IInv, RestUnchanged, Library
    PROVE  pc' # 0 /\ LibraryInv' /\ Trace3Inv' /\ Trace4Inv' /\ OthersInv'
<1>1. UNCHANGED <<program, pc, backend, msg_ostream, msg_callback, mask, alive,
                  destination>>
  BY DEF RestUnchanged, callerVars
<1>2. \A f \in {"STDERR", "LOGGER", "SYSLOG", "OSTREAM", "MSG_CALLBACK"} :
         f \in flags' <=> f \in flags
  BY DEF RestUnchanged
<1>3. program = "Library" /\ program' = "Library"
  BY <1>1 DEF Library
<1>4. LibraryInv'
  <2>1. Redirected => Redirected'
    BY <1>1, <1>2 DEF Redirected, Opened
  <2> QED
    BY <1>1, <1>2, <1>3, <2>1 DEF IInv, LibraryInv, Library
<1> QED
  BY <1>1, <1>3, <1>4 DEF IInv, Trace3Inv, Trace4Inv, OthersInv

(* handle_exception runs only after a signal, so only in Library.          *)
LEMMA SwitchStep ==
    ASSUME IInv, Switch
    PROVE  IInv'
<1>1. /\ Library /\ seen \in {"on", "off"} /\ seen' = "idle"
      /\ UNCHANGED <<program, pc, backend, msg_ostream, msg_callback, mask, callerVars,
                     loop, m_switch, signals, handling, notices, missed>>
      /\ flags' = IF seen = "on" THEN flags \ {"SILENT"} ELSE flags \cup {"SILENT"}
  BY DEF Switch, IInv, TypeOK, SwitchInv, set_flags, clr_flags
<1>2. RestUnchanged
  BY <1>1 DEF RestUnchanged
<1>3. TypeOK'
  BY <1>1 DEF IInv, TypeOK, callerVars, Flags
<1>4. SwitchInv'
  <2>1. m_switch \in {"unset", "on", "off"}
    BY DEF IInv, TypeOK
  <2>2. seen = m_switch => Follows'
    BY <1>1, <2>1 DEF Follows
  <2> QED
    BY <1>1, <2>1, <2>2 DEF IInv, SwitchInv, Library
<1> QED
  BY <1>1, <1>2, <1>3, <1>4, RestKept DEF IInv

LEMMA SignalStep ==
    ASSUME IInv, NEW on \in {"on", "off"}, Signal(on)
    PROVE  IInv'
<1>1. /\ Library /\ m_switch' = on
      /\ signals \in Nat /\ signals' = signals + 1 /\ signals < MaxSignals
      /\ handling \in 0..signals /\ handling' = handling + 1
      /\ UNCHANGED <<program, pc, flags, backend, msg_ostream, msg_callback, mask,
                     callerVars, loop, notices, missed, seen>>
  BY MaxSignalsAssumption DEF Signal, IInv, TypeOK, managerVars, logVars
<1>2. signals' \in 0..MaxSignals /\ handling' \in 0..signals' /\ handling' > 0
  BY <1>1, MaxSignalsAssumption
<1>3. TypeOK'
  BY <1>1, <1>2 DEF IInv, TypeOK, callerVars
<1>4. SwitchInv'
  BY <1>1, <1>2 DEF SwitchInv, Library
<1>5. RestUnchanged
  BY <1>1 DEF RestUnchanged
<1> QED
  BY <1>1, <1>3, <1>4, <1>5, RestKept DEF IInv

(* Whether notify queues the notification or fails.                        *)
LEMMA NotifyStep ==
    ASSUME IInv, Notify
    PROVE  IInv'
<1>1. /\ handling > 0 /\ handling \in 0..signals /\ signals \in Nat /\ notices \in Nat
      /\ handling' = handling - 1 /\ missed' \in BOOLEAN
      /\ \/ notices' = notices + 1
         \/ missed' /\ notices' = notices
      /\ UNCHANGED <<program, pc, flags, backend, msg_ostream, msg_callback, mask,
                     callerVars, loop, m_switch, signals, seen>>
  <2>1. handling \in 0..signals /\ signals \in Nat /\ notices \in Nat
    BY MaxSignalsAssumption DEF IInv, TypeOK
  <2> QED
    BY <2>1, Zenon DEF Notify, managerVars, logVars
<1>2. handling' \in 0..signals' /\ notices' \in Nat /\ signals # 0
  BY <1>1
<1>3. Library
  BY <1>2 DEF IInv, SwitchInv
<1>4. TypeOK'
  BY <1>1, <1>2 DEF IInv, TypeOK, callerVars
<1>5. SwitchInv'
  <2>1. notices' > 0 \/ missed'
    BY <1>1
  <2>2. m_switch' # "unset" /\ Library'
    BY <1>1, <1>2, <1>3 DEF IInv, SwitchInv, Library
  <2> QED
    BY <2>1, <2>2 DEF SwitchInv
<1>6. RestUnchanged
  BY <1>1 DEF RestUnchanged
<1> QED
  BY <1>3, <1>4, <1>5, <1>6, RestKept DEF IInv

(* What handle_exception reads is the last request.                        *)
LEMMA DispatchStep ==
    ASSUME IInv, Dispatch
    PROVE  IInv'
<1>1. /\ notices > 0 /\ notices \in Nat /\ notices' = notices - 1
      /\ m_switch \in {"unset", "on", "off"} /\ seen' = m_switch
      /\ UNCHANGED <<program, pc, flags, backend, msg_ostream, msg_callback, mask,
                     callerVars, loop, m_switch, signals, handling, missed>>
  BY DEF Dispatch, IInv, TypeOK, managerVars, logVars
<1>2. Library /\ m_switch # "unset" /\ notices' \in Nat
  BY <1>1 DEF IInv, SwitchInv
<1>3. TypeOK'
  BY <1>1, <1>2 DEF IInv, TypeOK, callerVars
<1>4. SwitchInv'
  BY <1>1, <1>2 DEF SwitchInv, Library
<1>5. RestUnchanged
  BY <1>1 DEF RestUnchanged
<1> QED
  BY <1>2, <1>3, <1>4, <1>5, RestKept DEF IInv

(* The end of the loop touches nothing of the log and the switch.          *)
LEMMA StopLoopStep ==
    ASSUME IInv, StopLoop
    PROVE  IInv'
<1>1. /\ Library /\ loop' = "ended"
      /\ UNCHANGED <<program, pc, flags, backend, msg_ostream, msg_callback, mask,
                     callerVars, m_switch, signals, handling, notices, missed, seen>>
  BY DEF StopLoop, managerVars, logVars
<1>2. TypeOK'
  BY <1>1 DEF IInv, TypeOK, callerVars
<1>3. SwitchInv'
  BY <1>1 DEF IInv, SwitchInv, Library, Follows
<1>4. RestUnchanged
  BY <1>1 DEF RestUnchanged
<1> QED
  BY <1>1, <1>2, <1>3, <1>4, RestKept DEF IInv

LEMMA StutterStep ==
    ASSUME IInv, UNCHANGED vars
    PROVE  IInv'
BY DEF vars, managerVars, logVars, callerVars, switchVars, IInv, TypeOK, SwitchInv,
       LibraryInv, Trace3Inv, Trace4Inv, OthersInv, Library, Follows, Redirected,
       Opened, Syslog

LEMMA Inductive == IInv /\ [Next]_vars => IInv'
<1> SUFFICES ASSUME IInv, [Next]_vars
             PROVE  IInv'
  OBVIOUS
<1>1. CASE Program
  <2>1. ManagerNext /\ UNCHANGED switchVars
    BY <1>1 DEF Program
  <2> QED
    BY <2>1, ManagerType, ManagerSwitch, ManagerLibrary, ManagerScripts DEF IInv
<1>2. CASE \E on \in {"on", "off"} : Signal(on)
  BY <1>2, SignalStep
<1>3. CASE Notify
  BY <1>3, NotifyStep
<1>4. CASE Dispatch
  BY <1>4, DispatchStep
<1>5. CASE Switch
  BY <1>5, SwitchStep
<1>6. CASE StopLoop
  BY <1>6, StopLoopStep
<1>7. CASE Finished \/ UNCHANGED vars
  BY <1>7, StutterStep DEF Finished
<1> QED
  BY <1>1, <1>2, <1>3, <1>4, <1>5, <1>6, <1>7 DEF Next

-----------------------------------------------------------------------------
(* The theorems. *)

THEOREM Invariance == Spec => []IInv
<1>1. Init => IInv
  BY InitIInv
<1>2. IInv /\ [Next]_vars => IInv'
  BY Inductive
<1> QED
  BY <1>1, <1>2, PTL DEF Spec

(* The types are right for any streams, callbacks and signals.             *)
THEOREM TypeCorrect == Spec => []TypeOK
<1>1. IInv => TypeOK
  BY DEF IInv
<1> QED
  BY <1>1, Invariance, PTL

(* The objects the log calls, and what they are in Library.                *)
LEMMA WrittenTo ==
    ASSUME NEW x \in Written
    PROVE  /\ x # None
           /\ \/ x = msg_ostream /\ "OSTREAM" \in flags
              \/ x = msg_callback /\ "MSG_CALLBACK" \in flags
BY DEF Written

LEMMA LibraryObjects ==
    ASSUME IInv, Library
    PROVE  /\ msg_callback \in (alive \cap Callbacks) \cup {None}
           /\ msg_ostream \in Streams \cup {File, None}
           /\ destination \in Streams => destination \in alive
           /\ Redirected
BY DEF IInv, LibraryInv

(* RedirectToOStream and RedirectToStderr leave no dead object to write    *)
(* to, whatever came before, and no callback is ever dead, for any objects *)
(* and any order of redirections, switches and destructions.               *)
THEOREM NoSinkDead == Spec => []DanglingCured
<1>1. IInv => DanglingCured
  <2> SUFFICES ASSUME IInv, Logging, NEW x \in Dangling
               PROVE  /\ x \in Streams \cup {File}
                      /\ destination \in {File, "LOGGER", "SYSLOG"}
    BY DEF DanglingCured
  <2>1. /\ x \notin alive /\ x # None
        /\ \/ x = msg_ostream /\ "OSTREAM" \in flags
           \/ x = msg_callback /\ "MSG_CALLBACK" \in flags
    BY WrittenTo DEF Dangling
  <2>2. CASE Library
    <3>1. x = msg_ostream /\ "OSTREAM" \in flags
      BY <2>1, <2>2, LibraryObjects
    <3>2. destination \notin Streams \cup {"STDERR", None}
      BY <2>1, <2>2, <3>1, LibraryObjects DEF Redirected
    <3>3. destination \in {"STDERR", "LOGGER", "SYSLOG", File, None} \cup Streams
      BY DEF IInv, TypeOK
    <3> QED
      BY <2>1, <2>2, <3>1, <3>2, <3>3, LibraryObjects
  <2>3. program # "Trace3"
    <3> SUFFICES ASSUME program = "Trace3" PROVE FALSE
      OBVIOUS
    <3>1. PICK m \in Now : m.op = "log"
      BY DEF Logging, Library
    <3>2. pc \in {3, 6, 9}
      BY <3>1, Trace3Call DEF IInv, TypeOK, Call
    <3>3. Output \in alive /\ msg_callback = None /\ msg_ostream \in {None, Output}
      BY <3>2 DEF IInv, Trace3Inv
    <3> QED
      BY <2>1, <3>3
  <2>4. program # "Trace4"
    <3> SUFFICES ASSUME program = "Trace4" PROVE FALSE
      OBVIOUS
    <3>1. PICK m \in Now : m.op = "log"
      BY DEF Logging, Library
    <3>2. pc \in 5..8
      BY <3>1, Trace4Call DEF IInv, TypeOK, Call
    <3>3. Callback \in alive /\ msg_ostream = None /\ msg_callback = Callback
      BY <3>2 DEF IInv, Trace4Inv
    <3> QED
      BY <2>1, <3>3
  <2>5. CASE program \in {"Trace1", "Trace2", "Trace5", "Trace6"}
    BY <2>1, <2>5 DEF IInv, OthersInv
  <2> QED
    BY <2>2, <2>3, <2>4, <2>5, ProgramsAssumption DEF IInv, TypeOK, Library, Script
<1> QED
  BY <1>1, Invariance, PTL

(* Trace3 and Trace4 do what their messages say, whether or not the        *)
(* system's log can be opened.                                             *)
THEOREM SaidDone == Spec => []SaidIsDone
<1>1. IInv => SaidIsDone
  <2> SUFFICES ASSUME IInv, NEW m \in Now, m.op = "log", m.says # Unsaid
               PROVE  Reaches(m) = m.says \ (IF backend = "closed" THEN {"SYSLOG"} ELSE {})
    BY DEF SaidIsDone
  <2>0. Output # None /\ Callback # None /\ Output # "SYSLOG" /\ Callback # "SYSLOG"
    BY ObjectsAssumption, NamesAssumption
  <2>1. ~ Library
    BY LibraryCall
  <2>2. CASE program = "Trace3"
    <3>1. /\ m.priority = "DEBUG" /\ mask = Priorities
          /\ \/ pc = 3 /\ m.says = {"STDERR"}
             \/ pc = 6 /\ m.says = {"STDERR", "SYSLOG"}
             \/ pc = 9 /\ m.says = {"STDERR", "SYSLOG", Output}
      BY <2>2, Trace3Call DEF IInv, TypeOK, Trace3Inv, Call, LogTo
    <3>2. Reaches(m) = Sinks
      BY <3>1 DEF Reaches, Priorities
    <3>3. CASE pc = 3
      <4>1. flags = {"STDERR"}
        BY <2>2, <3>3 DEF IInv, Trace3Inv
      <4> QED
        BY <3>1, <3>2, <3>3, <4>1 DEF Sinks, Written
    <3>4. CASE pc = 6
      <4>1. /\ backend \in {"SYSLOG", "closed"} /\ msg_callback = None
            /\ flags = {"STDERR"} \cup ({backend} \cap {"SYSLOG"})
        BY <2>2, <3>4 DEF IInv, Trace3Inv, Syslog
      <4>2. Written = {}
        BY <4>1 DEF Written
      <4>3. Sinks = {"STDERR"} \cup ({backend} \cap {"SYSLOG"})
        BY <4>1, <4>2 DEF Sinks
      <4>4. CASE backend = "SYSLOG"
        BY <3>1, <3>2, <3>4, <4>3, <4>4
      <4>5. CASE backend = "closed"
        BY <3>1, <3>2, <3>4, <4>3, <4>5
      <4> QED
        BY <4>1, <4>4, <4>5
    <3>5. CASE pc = 9
      <4>1. /\ backend \in {"SYSLOG", "closed"} /\ msg_callback = None
            /\ msg_ostream = Output /\ Output \in alive
            /\ flags = {"STDERR", "OSTREAM"} \cup ({backend} \cap {"SYSLOG"})
        BY <2>2, <3>5 DEF IInv, Trace3Inv, Syslog
      <4>2. Written = {Output}
        BY <2>0, <4>1 DEF Written
      <4>3. Sinks = {"STDERR", Output} \cup ({backend} \cap {"SYSLOG"})
        BY <4>1, <4>2 DEF Sinks
      <4>4. CASE backend = "SYSLOG"
        BY <3>1, <3>2, <3>5, <4>3, <4>4
      <4>5. CASE backend = "closed"
        BY <2>0, <3>1, <3>2, <3>5, <4>3, <4>5
      <4> QED
        BY <4>1, <4>4, <4>5
    <3> QED
      BY <3>1, <3>3, <3>4, <3>5
  <2>3. CASE program = "Trace4"
    <3>1. /\ m.priority \in mask /\ m.says = {Callback} /\ pc \in 5..8
      BY <2>3, Trace4Call DEF IInv, TypeOK, Trace4Inv, Call, LogTo, Priorities
    <3>2. Reaches(m) = Sinks
      BY <3>1 DEF Reaches
    <3>3. flags = {"MSG_CALLBACK"} /\ msg_callback = Callback /\ Callback \in alive
      BY <2>3, <3>1 DEF IInv, Trace4Inv
    <3>4. Written = {Callback}
      BY <2>0, <3>3 DEF Written
    <3>5. backend # "closed" \/ m.says \ {"SYSLOG"} = m.says
      BY <2>0, <3>1
    <3> QED
      BY <2>0, <3>1, <3>2, <3>3, <3>4, <3>5 DEF Sinks
  <2>4. program \notin {"Trace1", "Trace2", "Trace5", "Trace6"}
    BY OtherCall DEF IInv, TypeOK
  <2> QED
    BY <2>1, <2>2, <2>3, <2>4, ProgramsAssumption DEF IInv, TypeOK, Library, Script
<1> QED
  BY <1>1, Invariance, PTL

(* Messages arrive where the last redirection sent them, but for a file,   *)
(* for any history.                                                        *)
THEOREM RedirectionHolds == Spec => []LastRedirectionHolds
<1>1. IInv => LastRedirectionHolds
  <2> SUFFICES ASSUME IInv, Library, destination \notin {None, File}, "SILENT" \notin flags
               PROVE  /\ Arrives
                      /\ destination \in Streams \cup {"STDERR"} /\ "SYSLOG" \notin flags =>
                              Sinks \ Callbacks = {destination}
    BY DEF LastRedirectionHolds
  <2>1. /\ Redirected /\ msg_callback \in Callbacks \cup {None}
        /\ destination \in Streams => destination \in alive
    BY LibraryObjects
  <2>2. destination \in {"STDERR", "LOGGER", "SYSLOG"} \cup Streams
    BY DEF IInv, TypeOK
  <2>3. CASE destination \in {"LOGGER", "SYSLOG"}
    <3>1. destination \notin Streams \cup {"STDERR"}
      BY <2>3, NamesAssumption
    <3> QED
      BY <2>1, <2>3, <3>1 DEF Redirected, Opened, Sinks, Arrives
  <2>4. CASE destination = "STDERR"
    <3>1. "STDERR" \notin Callbacks
      BY NamesAssumption
    <3> QED
      BY <2>1, <2>4, <3>1 DEF Redirected, Sinks, Written, Arrives
  <2>5. CASE destination \in Streams
    <3>1. destination \notin Callbacks /\ destination # None
      BY <2>5, StreamsAssumption, CallbacksAssumption
    <3>2. /\ msg_ostream = destination /\ destination \in alive
          /\ "OSTREAM" \in flags /\ flags \cap {"STDERR", "LOGGER"} = {}
      BY <2>1, <2>5 DEF Redirected
    <3>3. destination \in Written /\ Written \subseteq {destination} \cup Callbacks
      BY <2>1, <3>1, <3>2 DEF Written
    <3> QED
      BY <3>1, <3>2, <3>3 DEF Sinks, Arrives
  <2> QED
    BY <2>2, <2>3, <2>4, <2>5
<1> QED
  BY <1>1, Invariance, PTL

(* However many signals interrupt each other and the switching.            *)
THEOREM SwitchFollowed == Spec => []LogFollowsSwitch
<1>1. IInv => LogFollowsSwitch
  <2> SUFFICES ASSUME IInv, handling = 0, notices = 0, seen = "idle", ~ missed
               PROVE  Follows
    BY DEF LogFollowsSwitch
  <2>1. m_switch # "idle"
    BY DEF IInv, TypeOK
  <2> QED
    BY <2>1 DEF IInv, SwitchInv
<1> QED
  BY <1>1, Invariance, PTL
=============================================================================
