-------------------------- MODULE EchoServerProofs --------------------------
(***************************************************************************)
(* Proofs about EchoServer: for any number of connections and handles, the *)
(* reactor's table never dangles, no handle is leaked or shared, and       *)
(* nobody who holds a socket is deaf.                                      *)
(***************************************************************************)
EXTENDS EchoServer, TLAPS

\* A service exists only for an accepted connection, a backlog only with it.
ServedOnceAccepted ==
    /\ \A c \in Conns : client[c] \in {"idle", "waiting", "aborted"} => life[c] = "none"
    /\ \A c \in backlog : life[c] = "open"
    /\ running = "start" => watch = {}

IInv == TypeOK /\ NoDanglingRegistration /\ HandlesOwned /\ NobodyDeaf
            /\ ServedOnceAccepted

\* The initial states satisfy the invariant.
LEMMA InitInv == Init => IInv
  BY AcceptorAssumption, NoneAssumption
     DEF Init, IInv, TypeOK, NoDanglingRegistration, HandlesOwned, NobodyDeaf,
         ServedOnceAccepted, Handlers, Alive, Events

(* Releasing a handler that keeps the tables in agreement takes exactly    *)
(* that handler's registrations away, and its handle.                      *)
LEMMA ReleaseTakesItsOwn ==
    ASSUME TypeOK, NoDanglingRegistration, HandlesOwned,
           NEW x \in Handlers,
           NEW w \in SUBSET watch,
           \A r \in watch : r \in w \/ r[1] = handle[x],
           Release(x, w)
    PROVE  /\ watch' = {r \in watch : r[2] # x}
           /\ handle' = [handle EXCEPT ![x] = None]
           /\ handle' \in [Handlers -> Handles \cup {None}]
           /\ socket' \in [Handles -> Handlers \cup {None}]
           /\ \A y \in Handlers, h \in Handles : handle'[y] = h <=> socket'[h] = y
<1>1. \A r \in watch : r[1] \in Handles /\ r[2] \in Handlers /\ r[3] \in Events
  BY DEF TypeOK
<1>2. \A r \in watch : r[1] = handle[r[2]]
  BY DEF NoDanglingRegistration
<1>3. \A r \in watch : r[1] = handle[x] <=> r[2] = x
  BY <1>1, <1>2, NoneAssumption DEF HandlesOwned, TypeOK
<1>4. watch' = {r \in w : r[1] # handle[x]}
  BY <1>1 DEF Release, Without
<1>5. watch' = {r \in watch : r[2] # x}
  BY <1>3, <1>4
<1>6. /\ handle' = [handle EXCEPT ![x] = None]
      /\ handle' \in [Handlers -> Handles \cup {None}]
  BY DEF Release, TypeOK
<1>7. socket' \in [Handles -> Handlers \cup {None}]
  BY DEF Release, TypeOK
<1>8. ASSUME NEW y \in Handlers, NEW h \in Handles
      PROVE  handle'[y] = h <=> socket'[h] = y
  <2>1. None # y /\ None # h
    BY NoneAssumption DEF Handlers
  <2>2. socket'[h] = IF h = handle[x] THEN None ELSE socket[h]
    BY DEF Release
  <2>3. handle'[y] = IF y = x THEN None ELSE handle[y]
    BY <1>6 DEF TypeOK
  <2>4. handle[y] = h <=> socket[h] = y
    BY DEF HandlesOwned
  <2>5. handle[x] = h <=> socket[h] = x
    BY DEF HandlesOwned
  <2> QED
    BY <2>1, <2>2, <2>3, <2>4, <2>5
<1> QED
  BY <1>5, <1>6, <1>7, <1>8

(* A handler without a socket that gets a new one takes nobody's.          *)
LEMMA OpenSocketTakesFree ==
    ASSUME TypeOK, HandlesOwned,
           NEW x \in Handlers, NEW h \in Free, handle[x] = None,
           OpenSocket(x, h)
    PROVE  /\ handle' = [handle EXCEPT ![x] = h]
           /\ handle' \in [Handlers -> Handles \cup {None}]
           /\ socket' \in [Handles -> Handlers \cup {None}]
           /\ \A y \in Handlers, g \in Handles : handle'[y] = g <=> socket'[g] = y
<1>1. h \in Handles /\ socket[h] = None /\ None # h
  BY NoneAssumption DEF Free
<1>2. /\ handle' = [handle EXCEPT ![x] = h]
      /\ handle' \in [Handlers -> Handles \cup {None}]
      /\ socket' = [socket EXCEPT ![h] = x]
      /\ socket' \in [Handles -> Handlers \cup {None}]
  BY <1>1 DEF OpenSocket, TypeOK
<1>3. ASSUME NEW y \in Handlers, NEW g \in Handles
      PROVE  handle'[y] = g <=> socket'[g] = y
  <2>1. None # y /\ None # g
    BY NoneAssumption DEF Handlers
  <2>2. socket'[g] = IF g = h THEN x ELSE socket[g]
    BY <1>2 DEF TypeOK
  <2>3. handle'[y] = IF y = x THEN h ELSE handle[y]
    BY <1>2 DEF TypeOK
  <2>4. handle[y] = g <=> socket[g] = y
    BY DEF HandlesOwned
  <2> QED
    BY <1>1, <2>1, <2>2, <2>3, <2>4
<1> QED
  BY <1>2, <1>3

-----------------------------------------------------------------------------
(* One lemma per kind of step. *)

(* A service's end leaves the others as they were. *)
LEMMA ServiceEnds ==
    ASSUME IInv,
           NEW c \in Conns, life[c] = "open",
           NEW w \in SUBSET watch,
           \A r \in watch : r \in w \/ r[1] = handle[c],
           NEW m, m # {"WRITE"},
           handle_close(c, m, w, backlog),
           running # "start",
           UNCHANGED <<program, running, client>>
    PROVE  IInv'
<1> USE DEF IInv
<1>1. /\ Release(c, w)
      /\ life' = [life EXCEPT ![c] = "deleted"]
      /\ backlog' = backlog \ {c}
  BY DEF handle_close
<1>2. c \in Handlers /\ c # Acceptor
  BY AcceptorAssumption DEF Handlers
<1>3. /\ watch' = {r \in watch : r[2] # c}
      /\ handle' = [handle EXCEPT ![c] = None]
      /\ handle' \in [Handlers -> Handles \cup {None}]
      /\ socket' \in [Handles -> Handlers \cup {None}]
      /\ \A y \in Handlers, h \in Handles : handle'[y] = h <=> socket'[h] = y
  BY <1>1, <1>2, ReleaseTakesItsOwn
<1>4. \A x \in Handlers : x # c => handle'[x] = handle[x] /\ (Alive(x) <=> Alive(x)')
  BY <1>1, <1>3 DEF TypeOK, Alive, Handlers
<1>5. handle'[c] = None /\ life'[c] = "deleted"
  BY <1>1, <1>2, <1>3 DEF TypeOK
<1>6. TypeOK'
  BY <1>1, <1>3 DEF TypeOK
<1>7. NoDanglingRegistration'
  <2>1. \A r \in watch : r[2] \in Handlers
    BY DEF TypeOK
  <2> QED
    BY <1>3, <1>4, <2>1 DEF NoDanglingRegistration
<1>8. HandlesOwned'
  BY <1>3, <1>4, <1>5 DEF HandlesOwned
<1>9. NobodyDeaf'
  <2>1. handle'[Acceptor] = handle[Acceptor]
    BY <1>2, <1>4 DEF Handlers
  <2>2. \A h, x, e : <<h, x, e>> \in watch' <=> <<h, x, e>> \in watch /\ x # c
    BY <1>3
  <2>3. handle'[Acceptor] # None => <<handle'[Acceptor], Acceptor, "ACCEPT">> \in watch'
    BY <1>2, <2>1, <2>2 DEF NobodyDeaf
  <2>4. ASSUME NEW d \in Conns, life'[d] = "open"
        PROVE  /\ <<handle'[d], d, "READ">> \in watch'
               /\ <<handle'[d], d, "WRITE">> \in watch' <=> d \in backlog'
    <3>1. d # c /\ life[d] = "open"
      BY <1>1, <1>5, <2>4 DEF TypeOK
    <3>2. handle'[d] = handle[d]
      BY <1>4, <3>1 DEF Handlers
    <3> QED
      BY <1>1, <2>2, <3>1, <3>2 DEF NobodyDeaf
  <2> QED
    BY <2>3, <2>4 DEF NobodyDeaf
<1>10. ServedOnceAccepted'
  BY <1>1 DEF ServedOnceAccepted, TypeOK
<1> QED
  BY <1>6, <1>7, <1>8, <1>9, <1>10

(* The acceptor's end leaves the services as they were. *)
LEMMA AcceptorEnds ==
    ASSUME IInv,
           NEW w \in SUBSET watch,
           \A r \in watch : r \in w \/ r[1] = handle[Acceptor],
           AcceptorClose(w),
           running = "loop",
           running' \in {"loop", "ended"},
           UNCHANGED <<program, life, backlog>>
    PROVE  IInv'
<1> USE DEF IInv
<1>1. Acceptor \in Handlers /\ Acceptor \notin Conns
  BY AcceptorAssumption DEF Handlers
<1>2. /\ watch' = {r \in watch : r[2] # Acceptor}
      /\ handle' = [handle EXCEPT ![Acceptor] = None]
      /\ handle' \in [Handlers -> Handles \cup {None}]
      /\ socket' \in [Handles -> Handlers \cup {None}]
      /\ \A y \in Handlers, h \in Handles : handle'[y] = h <=> socket'[h] = y
  <2>1. CASE handle[Acceptor] # None
    BY <1>1, <2>1, ReleaseTakesItsOwn DEF AcceptorClose
  <2>2. CASE handle[Acceptor] = None
    <3>1. watch' = w /\ handle' = handle /\ socket' = socket
      BY <2>2 DEF AcceptorClose
    <3>2. \A r \in watch : r[1] # None /\ r[2] # Acceptor
      BY <2>2, NoneAssumption DEF TypeOK, NoDanglingRegistration
    <3>3. handle = [handle EXCEPT ![Acceptor] = None]
      BY <2>2 DEF TypeOK
    <3> QED
      BY <2>2, <3>1, <3>2, <3>3 DEF TypeOK, HandlesOwned
  <2> QED
    BY <2>1, <2>2
<1>3. /\ client' \in [Conns -> {"idle", "waiting", "aborted", "linked", "gone"}]
      /\ \A c \in Conns : client'[c] \in {"idle", "waiting", "aborted"}
            => client[c] \in {"idle", "waiting", "aborted"}
  BY DEF AcceptorClose, TypeOK
<1>4. \A c \in Conns : c \in Handlers /\ handle'[c] = handle[c] /\ (Alive(c) <=> Alive(c)')
  BY <1>1, <1>2 DEF TypeOK, Alive, Handlers
<1>5. handle'[Acceptor] = None
  BY <1>1, <1>2 DEF TypeOK
<1>6. TypeOK'
  BY <1>2, <1>3 DEF TypeOK
<1>7. NoDanglingRegistration'
  <2>1. \A r \in watch' : r \in watch /\ r[2] \in Conns
    BY <1>2 DEF TypeOK, Handlers
  <2> QED
    BY <1>4, <2>1 DEF NoDanglingRegistration
<1>8. HandlesOwned'
  BY <1>2, <1>4, <1>5 DEF HandlesOwned, Handlers
<1>9. NobodyDeaf'
  <2>1. \A h, x, e : <<h, x, e>> \in watch' <=> <<h, x, e>> \in watch /\ x # Acceptor
    BY <1>2
  <2>2. ASSUME NEW d \in Conns, life'[d] = "open"
        PROVE  /\ <<handle'[d], d, "READ">> \in watch'
               /\ <<handle'[d], d, "WRITE">> \in watch' <=> d \in backlog'
    BY <1>1, <1>4, <2>1, <2>2 DEF NobodyDeaf
  <2> QED
    BY <1>5, <2>2 DEF NobodyDeaf
<1>10. ServedOnceAccepted'
  BY <1>3 DEF ServedOnceAccepted
<1> QED
  BY <1>6, <1>7, <1>8, <1>9, <1>10

(* main opens the acceptor, or ends. *)
LEMMA MainOpens ==
    ASSUME IInv, open
    PROVE  IInv'
<1> USE DEF IInv
<1>1. Acceptor \in Handlers /\ Acceptor \notin Conns
  BY AcceptorAssumption DEF Handlers
<1>2. running = "start" /\ watch = {} /\ handle[Acceptor] = None
  BY <1>1 DEF open, ServedOnceAccepted, HandlesOwned, Alive, TypeOK
<1>3. CASE running' = "exit" /\ UNCHANGED <<handle, socket, watch>>
  BY <1>1, <1>2, <1>3
     DEF open, TypeOK, NoDanglingRegistration, HandlesOwned, NobodyDeaf,
         ServedOnceAccepted, Alive, Handlers
<1>4. ASSUME NEW h \in Free,
             OpenSocket(Acceptor, h),
             watch' = Register(watch, handle', Acceptor, "ACCEPT"),
             running' = "loop"
      PROVE  IInv'
  <2>1. h \in Handles /\ h # None
    BY NoneAssumption DEF Free
  <2>2. /\ handle' = [handle EXCEPT ![Acceptor] = h]
        /\ handle' \in [Handlers -> Handles \cup {None}]
        /\ socket' \in [Handles -> Handlers \cup {None}]
        /\ \A y \in Handlers, g \in Handles : handle'[y] = g <=> socket'[g] = y
    BY <1>1, <1>2, <1>4, OpenSocketTakesFree
  <2>3. handle'[Acceptor] = h /\ \A c \in Conns : handle'[c] = handle[c]
    BY <1>1, <2>2 DEF TypeOK, Handlers
  <2>4. watch' = {<<h, Acceptor, "ACCEPT">>}
    BY <1>2, <1>4, <2>3 DEF Register
  <2>5. UNCHANGED <<program, client, life, backlog>>
    BY DEF open
  <2>6. TypeOK'
    <3>1. watch' \subseteq Handles \X Handlers \X Events
      BY <1>1, <2>1, <2>4 DEF Events
    <3> QED
      BY <1>4, <2>2, <2>5, <3>1 DEF TypeOK
  <2>7. NoDanglingRegistration'
    BY <1>4, <2>3, <2>4 DEF NoDanglingRegistration, Alive
  <2>8. HandlesOwned'
    BY <1>1, <1>4, <2>2, <2>3, <2>5 DEF HandlesOwned, Alive, Handlers
  <2>9. \A c \in Conns : life[c] # "open"
    BY <1>1, <1>2 DEF NobodyDeaf
  <2>10. NobodyDeaf'
    BY <2>3, <2>4, <2>5, <2>9 DEF NobodyDeaf
  <2>11. ServedOnceAccepted'
    BY <1>4, <2>5 DEF ServedOnceAccepted
  <2> QED
    BY <2>6, <2>7, <2>8, <2>10, <2>11
<1> QED
  BY <1>3, <1>4 DEF open

(* A connection is accepted and its service opened. *)
LEMMA ServiceOpens ==
    ASSUME IInv, NEW c \in Conns, Accept(c)
    PROVE  IInv'
<1> USE DEF IInv
<1>1. c \in Handlers /\ Acceptor \in Handlers /\ c # Acceptor
  BY AcceptorAssumption DEF Handlers
<1>2. life[c] = "none" /\ handle[c] = None /\ c \notin backlog /\ running = "loop"
  BY <1>1 DEF Accept, Acceptable, ServedOnceAccepted, HandlesOwned, Alive
<1>3. PICK h \in Free : OpenSocket(c, h)
  BY DEF Accept
<1>4. h \in Handles /\ h # None
  BY NoneAssumption DEF Free
<1>5. /\ handle' = [handle EXCEPT ![c] = h]
      /\ handle' \in [Handlers -> Handles \cup {None}]
      /\ socket' \in [Handles -> Handlers \cup {None}]
      /\ \A y \in Handlers, g \in Handles : handle'[y] = g <=> socket'[g] = y
  BY <1>1, <1>2, <1>3, OpenSocketTakesFree
<1>6. handle'[c] = h /\ \A x \in Handlers : x # c => handle'[x] = handle[x]
  BY <1>1, <1>5 DEF TypeOK
<1>7. /\ watch' = watch \cup {<<h, c, "READ">>}
      /\ life' = [life EXCEPT ![c] = "open"]
      /\ UNCHANGED <<program, running, backlog>>
  BY <1>6 DEF Accept, Register
<1>8. client' = [client EXCEPT ![c] = IF client[c] = "waiting" THEN "linked" ELSE "gone"]
  BY DEF Accept, Accepted
<1>9. \A r \in watch : r[2] \in Handlers /\ r[2] # c
  BY <1>1, <1>2 DEF TypeOK, NoDanglingRegistration, Alive
<1>10. life'[c] = "open" /\ \A d \in Conns : d # c => life'[d] = life[d]
  BY <1>7 DEF TypeOK
<1>11. \A x \in Handlers : Alive(x) => Alive(x)'
  BY <1>7, <1>10 DEF Alive, Handlers
<1>12. TypeOK'
  BY <1>1, <1>4, <1>5, <1>7, <1>8 DEF TypeOK, Events
<1>13. NoDanglingRegistration'
  <2>1. ASSUME NEW r \in watch
        PROVE  Alive(r[2])' /\ handle'[r[2]] = r[1]
    BY <1>6, <1>9, <1>11 DEF NoDanglingRegistration
  <2>2. Alive(c)' /\ handle'[c] = h
    BY <1>1, <1>6, <1>10 DEF Alive
  <2> QED
    BY <1>7, <2>1, <2>2 DEF NoDanglingRegistration
<1>14. HandlesOwned'
  <2>1. Alive(c)'
    BY <1>1, <1>10 DEF Alive
  <2> QED
    BY <1>5, <1>6, <1>11, <2>1 DEF HandlesOwned
<1>15. NobodyDeaf'
  <2>1. /\ handle'[Acceptor] = handle[Acceptor]
        /\ \A d \in Conns : d # c => handle'[d] = handle[d]
    BY <1>1, <1>6 DEF Handlers
  <2>2. <<h, c, "WRITE">> \notin watch'
    BY <1>7, <1>9
  <2> QED
    BY <1>2, <1>6, <1>7, <1>10, <2>1, <2>2 DEF NobodyDeaf
<1>16. ServedOnceAccepted'
  BY <1>2, <1>7, <1>8, <1>10 DEF ServedOnceAccepted, TypeOK
<1> QED
  BY <1>12, <1>13, <1>14, <1>15, <1>16

(* A service gains a backlog, or works it off. *)
LEMMA BacklogChanges ==
    ASSUME IInv, NEW h \in Handles, NEW c \in Conns,
           GainBacklog(h, c) \/ Drain(h, c)
    PROVE  IInv'
<1> USE DEF IInv
<1>1. c \in Handlers /\ c # Acceptor
  BY AcceptorAssumption DEF Handlers
<1>2. life[c] = "open" /\ handle[c] = h
  BY <1>1 DEF GainBacklog, Drain, Dispatch, NoDanglingRegistration, Alive
<1>3. UNCHANGED <<program, running, client, life, handle, socket>>
  BY DEF GainBacklog, Drain, handle_close
<1>4. \/ watch' = watch \cup {<<h, c, "WRITE">>} /\ backlog' = backlog \cup {c}
      \/ watch' = watch \ {<<h, c, "WRITE">>} /\ backlog' = backlog \ {c}
  <2>1. CASE GainBacklog(h, c)
    BY <1>2, <2>1 DEF GainBacklog, Register, NobodyDeaf
  <2>2. CASE Drain(h, c)
    <3>1. watch' = Without(watch, h, {"WRITE"}) /\ backlog' = backlog \ {c}
      BY <2>2 DEF Drain, handle_close
    <3>2. \A r \in watch : r[1] = h => r[2] = c
      BY <1>1, <1>2, NoneAssumption DEF NoDanglingRegistration, HandlesOwned, TypeOK
    <3>3. \A r \in watch : r = <<r[1], r[2], r[3]>>
      BY DEF TypeOK
    <3> QED
      BY <3>1, <3>2, <3>3 DEF Without
  <2> QED
    BY <2>1, <2>2
<1>5. \A r : r # <<h, c, "WRITE">> => (r \in watch' <=> r \in watch)
  BY <1>4
<1>6. TypeOK'
  BY <1>1, <1>3, <1>4 DEF TypeOK, Events
<1>7. NoDanglingRegistration'
  BY <1>1, <1>2, <1>3, <1>4 DEF NoDanglingRegistration, Alive
<1>8. HandlesOwned'
  BY <1>3 DEF HandlesOwned, Alive
<1>9. NobodyDeaf'
  <2>1. handle'[Acceptor] # None => <<handle'[Acceptor], Acceptor, "ACCEPT">> \in watch'
    BY <1>1, <1>3, <1>5 DEF NobodyDeaf
  <2>2. ASSUME NEW d \in Conns, life'[d] = "open"
        PROVE  /\ <<handle'[d], d, "READ">> \in watch'
               /\ <<handle'[d], d, "WRITE">> \in watch' <=> d \in backlog'
    BY <1>2, <1>3, <1>4, <2>2 DEF NobodyDeaf
  <2> QED
    BY <2>1, <2>2 DEF NobodyDeaf
<1>10. ServedOnceAccepted'
  BY <1>2, <1>3, <1>4 DEF ServedOnceAccepted, GainBacklog, Drain, Dispatch
<1> QED
  BY <1>6, <1>7, <1>8, <1>9, <1>10

(* A step that touches neither a handle nor a registration. *)
LEMMA TablesUntouched ==
    ASSUME IInv,
           UNCHANGED <<program, handle, socket, watch, backlog>>,
           running' \in {"start", "loop", "ended", "exit"},
           running' = running \/ (running = "ended" /\ running' = "exit"),
           client' \in [Conns -> {"idle", "waiting", "aborted", "linked", "gone"}],
           life' \in [Conns -> {"none", "open", "deleted"}],
           \A c \in Conns : life'[c] = "open" <=> life[c] = "open",
           \A c \in Conns : client'[c] \in {"idle", "waiting", "aborted"}
                                => life'[c] = "none"
    PROVE  IInv'
  BY AcceptorAssumption
     DEF IInv, TypeOK, NoDanglingRegistration, HandlesOwned, NobodyDeaf,
         ServedOnceAccepted, Alive, Handlers

-----------------------------------------------------------------------------
(* Every step keeps the invariant. *)
LEMMA NextKeepsInv == IInv /\ [Next]_vars => IInv'
<1> SUFFICES ASSUME IInv, [Next]_vars PROVE IInv'
  OBVIOUS
<1>1. CASE open
  BY <1>1, MainOpens
<1>2. CASE EventLoopEnds
  BY <1>2, AcceptorEnds DEF EventLoopEnds
<1>3. ASSUME NEW h \in Handles, ReactorCloses(h) PROVE IInv'
  <2>1. PICK r \in watch : /\ r[1] = h /\ r[2] \in Conns
                           /\ handle_close(r[2], Events, Without(watch, h, Events), backlog)
    BY <1>3 DEF ReactorCloses
  <2>2. life[r[2]] = "open" /\ handle[r[2]] = h
    BY <2>1, AcceptorAssumption DEF IInv, NoDanglingRegistration, Alive
  <2>3. \A s \in watch : s \in Without(watch, h, Events) \/ s[1] = h
    BY DEF Without
  <2>4. Without(watch, h, Events) \in SUBSET watch
    BY DEF Without
  <2>5. Events # {"WRITE"}
    BY DEF Events
  <2>6. running # "start" /\ UNCHANGED <<program, running, client>>
    BY <1>3 DEF ReactorCloses
  <2> QED
    BY <2>1, <2>2, <2>3, <2>4, <2>5, <2>6, ServiceEnds
<1>4. CASE Exit
  BY <1>4, TablesUntouched DEF Exit, IInv, TypeOK, ServedOnceAccepted
<1>5. ASSUME NEW c \in Conns, Accept(c) PROVE IInv'
  BY <1>5, ServiceOpens
<1>6. ASSUME NEW c \in Conns, AcceptUnregistered(c) PROVE IInv'
  <2>1. life[c] = "none"
    BY <1>6 DEF AcceptUnregistered, Acceptable, IInv, ServedOnceAccepted
  <2>2. /\ UNCHANGED <<program, running, handle, socket, watch, backlog>>
        /\ life' = [life EXCEPT ![c] = "deleted"]
        /\ client' = [client EXCEPT ![c] =
                        IF client[c] = "waiting" THEN "linked" ELSE "gone"]
    BY <1>6 DEF AcceptUnregistered, Accepted
  <2> QED
    BY <2>1, <2>2, TablesUntouched DEF IInv, TypeOK, ServedOnceAccepted
<1>7. ASSUME NEW c \in Conns, AcceptFails(c) PROVE IInv'
  <2>1. \A r \in watch : r \in Without(watch, handle[Acceptor], {"ACCEPT"})
                         \/ r[1] = handle[Acceptor]
    BY DEF Without
  <2>2. Without(watch, handle[Acceptor], {"ACCEPT"}) \in SUBSET watch
    BY DEF Without
  <2>3. running = "loop" /\ UNCHANGED <<program, running, life, backlog>>
        /\ AcceptorClose(Without(watch, handle[Acceptor], {"ACCEPT"}))
    BY <1>7 DEF AcceptFails, Acceptable
  <2> QED
    BY <2>1, <2>2, <2>3, AcceptorEnds
<1>8. ASSUME NEW h \in Handles, NEW c \in Conns, ServiceStep(h, c) PROVE IInv'
  <2>1. CASE GainBacklog(h, c) \/ Drain(h, c)
    BY <2>1, BacklogChanges
  <2>2. CASE Close(h, c)
    <3>1. life[c] = "open" /\ handle[c] = h
      BY <2>2, AcceptorAssumption
         DEF Close, Dispatch, IInv, NoDanglingRegistration, Alive
    <3>2. \A r \in watch : r \in Without(watch, h, {"READ"}) \/ r[1] = h
      BY DEF Without
    <3>3. Without(watch, h, {"READ"}) \in SUBSET watch
      BY DEF Without
    <3>4. /\ running # "start" /\ UNCHANGED <<program, running, client>>
          /\ handle_close(c, {"READ"}, Without(watch, h, {"READ"}), backlog)
      BY <2>2 DEF Close, Dispatch
    <3>5. {"READ"} # {"WRITE"}
      OBVIOUS
    <3> QED
      BY <3>1, <3>2, <3>3, <3>4, <3>5, ServiceEnds
  <2> QED
    BY <1>8, <2>1, <2>2 DEF ServiceStep
<1>9. ASSUME NEW c \in Conns, Connect(c) \/ Leave(c) PROVE IInv'
  <2>1. UNCHANGED <<program, running, life, handle, socket, watch, backlog>>
    BY <1>9 DEF Connect, Leave
  <2>2. client' \in [Conns -> {"idle", "waiting", "aborted", "linked", "gone"}]
    BY <1>9 DEF Connect, Leave, IInv, TypeOK
  <2>3. \A d \in Conns : client'[d] \in {"idle", "waiting", "aborted"}
                            => client[d] \in {"idle", "waiting", "aborted"}
    BY <1>9 DEF Connect, Leave, IInv, TypeOK
  <2> QED
    BY <2>1, <2>2, <2>3, TablesUntouched DEF IInv, TypeOK, ServedOnceAccepted
<1>10. ASSUME NEW c \in Conns, AcceptSkips(c) PROVE IInv'
  <2>1. UNCHANGED <<program, running, life, handle, socket, watch, backlog>>
    BY <1>10 DEF AcceptSkips
  <2>2. client' = [client EXCEPT ![c] = "gone"]
    BY <1>10 DEF AcceptSkips
  <2> QED
    BY <2>1, <2>2, TablesUntouched DEF IInv, TypeOK, ServedOnceAccepted
<1>11. CASE UNCHANGED vars
  BY <1>11, TablesUntouched DEF vars, IInv, TypeOK, ServedOnceAccepted
<1> QED
  BY <1>1, <1>2, <1>3, <1>4, <1>5, <1>6, <1>7, <1>8, <1>9, <1>10, <1>11
     DEF Next, Main, AcceptorInput, Finished

(* The tables of the program, the reactor and the system agree always.     *)
THEOREM Invariance == Spec => []IInv
  BY InitInv, NextKeepsInv, PTL DEF Spec

\* The type invariant.
THEOREM TypeCorrect == Spec => []TypeOK
<1>1. IInv => TypeOK
  BY DEF IInv
<1> QED
  BY <1>1, Invariance, PTL

(* The reactor never holds a deleted object or a handle that is another's. *)
THEOREM NoDangling == Spec => []NoDanglingRegistration
<1>1. IInv => NoDanglingRegistration
  BY DEF IInv
<1> QED
  BY <1>1, Invariance, PTL

\* No handle is leaked, and none has two owners.
THEOREM Ownership == Spec => []HandlesOwned
<1>1. IInv => HandlesOwned
  BY DEF IInv
<1> QED
  BY <1>1, Invariance, PTL

\* Whoever holds a socket is called back.
THEOREM Listening == Spec => []NobodyDeaf
<1>1. IInv => NobodyDeaf
  BY DEF IInv
<1> QED
  BY <1>1, Invariance, PTL

-----------------------------------------------------------------------------
(* What a step may do to a service: nothing, accept it, or close it.       *)
LEMMA OneLife ==
    ASSUME IInv, [Next]_vars, NEW c \in Conns
    PROVE  \/ life'[c] = life[c] /\ handle'[c] = handle[c]
           \/ life[c] = "none"
           \/ life'[c] = "deleted"
<1>1. /\ life \in [Conns -> {"none", "open", "deleted"}]
      /\ handle \in [Handlers -> Handles \cup {None}]
      /\ c \in Handlers /\ c # Acceptor
  BY AcceptorAssumption DEF IInv, TypeOK, Handlers
<1>2. ASSUME NEW x \in Handlers, NEW w, Release(x, w), x # c
      PROVE  handle'[c] = handle[c]
  BY <1>1, <1>2 DEF Release
<1>3. ASSUME NEW d \in Conns, NEW m, NEW w, NEW b, handle_close(d, m, w, b)
      PROVE  \/ life'[c] = life[c] /\ handle'[c] = handle[c]
             \/ life'[c] = "deleted"
  <2>1. CASE life' = life /\ handle' = handle
    BY <2>1
  <2>2. CASE Release(d, w) /\ life' = [life EXCEPT ![d] = "deleted"]
    <3>1. CASE d = c
      BY <1>1, <2>2, <3>1
    <3>2. CASE d # c
      <4>1. life'[c] = life[c]
        BY <1>1, <2>2, <3>2
      <4> QED
        BY <1>2, <2>2, <3>2, <4>1 DEF Handlers
    <3> QED
      BY <3>1, <3>2
  <2> QED
    BY <1>3, <2>1, <2>2 DEF handle_close
<1>4. ASSUME NEW w, AcceptorClose(w) PROVE handle'[c] = handle[c]
  BY <1>1, <1>2, <1>4 DEF AcceptorClose, Handlers
<1>5. CASE open
  <2>1. life' = life /\ handle'[c] = handle[c]
    BY <1>1, <1>5 DEF open, OpenSocket
  <2> QED
    BY <2>1
<1>6. CASE EventLoopEnds
  BY <1>4, <1>6 DEF EventLoopEnds
<1>7. CASE \E h \in Handles : ReactorCloses(h)
  BY <1>3, <1>7 DEF ReactorCloses
<1>8. ASSUME NEW d \in Conns, AcceptorInput(d)
      PROVE  \/ life'[c] = life[c] /\ handle'[c] = handle[c]
             \/ life[c] = "none"
  <2>1. life[d] = "none"
    BY <1>8 DEF AcceptorInput, Accept, AcceptUnregistered, AcceptFails, AcceptSkips,
                Acceptable, IInv, ServedOnceAccepted
  <2>2. CASE AcceptFails(d) \/ AcceptSkips(d)
    BY <1>4, <2>2 DEF AcceptFails, AcceptSkips
  <2>3. CASE Accept(d) \/ AcceptUnregistered(d)
    <3>1. CASE d # c
      BY <1>1, <2>3, <3>1 DEF Accept, AcceptUnregistered, OpenSocket
    <3> QED
      BY <2>1, <3>1
  <2> QED
    BY <1>8, <2>2, <2>3 DEF AcceptorInput
<1>9. ASSUME NEW h \in Handles, NEW d \in Conns, ServiceStep(h, d)
      PROVE  \/ life'[c] = life[c] /\ handle'[c] = handle[c]
             \/ life'[c] = "deleted"
  BY <1>3, <1>9 DEF ServiceStep, GainBacklog, Drain, Close
<1>10. ASSUME NEW d \in Conns, Connect(d) \/ Leave(d)
       PROVE  life'[c] = life[c] /\ handle'[c] = handle[c]
  BY <1>10 DEF Connect, Leave
<1>11. CASE Exit \/ Finished \/ UNCHANGED vars
  BY <1>11 DEF Exit, Finished, vars
<1> QED
  BY <1>5, <1>6, <1>7, <1>8, <1>9, <1>10, <1>11 DEF Next, Main

(* A service keeps its handle from accept to close, whatever happens to    *)
(* the other connections, and one that was deleted (handle_close's "delete *)
(* this", Server3-ace/ClientService.cpp:35-41) is never called back to     *)
(* life nor owns a handle again, although its handle is another's by then. *)
KeepsItsHandle ==
    [][\A c \in Conns :
        /\ life[c] = "deleted" => life'[c] = "deleted" /\ handle'[c] = None
        /\ life[c] = "open" =>
              \/ life'[c] = "open" /\ handle'[c] = handle[c]
              \/ life'[c] = "deleted" /\ handle'[c] = None]_vars

THEOREM HandleKept == Spec => KeepsItsHandle
<1>1. IInv /\ IInv' /\ [Next]_vars =>
        [\A c \in Conns :
            /\ life[c] = "deleted" => life'[c] = "deleted" /\ handle'[c] = None
            /\ life[c] = "open" =>
                  \/ life'[c] = "open" /\ handle'[c] = handle[c]
                  \/ life'[c] = "deleted" /\ handle'[c] = None]_vars
  <2> SUFFICES ASSUME IInv, IInv', [Next]_vars, NEW c \in Conns
               PROVE  /\ life[c] = "deleted" => life'[c] = "deleted" /\ handle'[c] = None
                      /\ life[c] = "open" =>
                            \/ life'[c] = "open" /\ handle'[c] = handle[c]
                            \/ life'[c] = "deleted" /\ handle'[c] = None
    OBVIOUS
  <2>1. c \in Handlers /\ c # Acceptor
    BY AcceptorAssumption DEF Handlers
  <2>2. life'[c] = "deleted" => handle'[c] = None
    BY <2>1 DEF IInv, HandlesOwned, Alive
  <2>3. life[c] = "deleted" => handle[c] = None
    BY <2>1 DEF IInv, HandlesOwned, Alive
  <2> QED
    BY <2>2, <2>3, OneLife
<1> QED
  BY <1>1, Invariance, PTL DEF Spec, KeepsItsHandle
=============================================================================
