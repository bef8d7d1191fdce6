----------------------------- MODULE QosProofs ------------------------------
(***************************************************************************)
(* Proofs about Qos, for any number of requests, of values, of Connections *)
(* of the container and of failed commands.                                *)
(***************************************************************************)
EXTENDS Qos, TLAPS

(* A Connection that does not exist yet has no values, port or queues. *)
Fresh ==
  \A o \in Conn : o > conns => /\ conn[o] = NoValue /\ ~port[o].exists
                               /\ \A f \in Fields : creator[o][f] = 0

(* Between its command and its note (connection.go:470, 474) a request is  *)
(* the only one there for its field, and the queue has the value it is     *)
(* going to note, unless two commands raced or the port is gone.           *)
NoteInv ==
  \A q \in Reqs :
    /\ req[q].pc = "note" /\ port[req[q].con].exists
    /\ <<req[q].con, req[q].field>> \notin raced
    => /\ port[req[q].con].queue[req[q].field] = Wanted(q)
       /\ ~Unnoted(q)

(* A queue that somebody added is there as long as its port is. *)
QueuesStay ==
  \A o \in Conn, f \in Fields :
    port[o].exists /\ creator[o][f] # 0 => port[o].queue[f] # Empty

(* An addQos is past the command for a field only if it has added the      *)
(* queue itself.                                                           *)
Past(q, f) ==
  /\ req[q].op = "add" /\ req[q].pc \in {"tc", "note", "next"}
  /\ (f = "Delay" /\ req[q].field = "BandWidth") \/ (f = req[q].field /\ req[q].pc # "tc")

AddInv ==
  \A q \in Reqs :
    /\ req[q].pc # "idle" => req[q].id # 0
    /\ req[q].pc = "get" => req[q].field = "Delay"
    /\ \A f \in Fields : Past(q, f) => creator[req[q].con][f] = req[q].id

(* The local variables of a request, when c Connections and m requests     *)
(* have been made.                                                         *)
Locals(c, m) ==
  [pc : {"idle", "get", "tc", "note", "next"}, op : {"none", "add", "change"},
   args : [Fields -> Values \cup {Empty}], con : 0 .. c, field : Fields, id : 0 .. m]

IInv ==
  /\ TypeOK /\ Fresh /\ NoteInv /\ QueuesStay /\ AddInv
  /\ NotedIsInstalled /\ AddsDoNotMix

LEMMA ReqType == TypeOK => req \in [Reqs -> Locals(conns, made)]
  BY DEF TypeOK, Locals

(* A request that runs commands has a Connection. *)
LEMMA HasCon ==
  ASSUME IInv, NEW q \in Reqs, req[q].pc \in {"tc", "note", "next"}
  PROVE  req[q].con \in Conn /\ req[q].con <= conns /\ req[q].field \in Fields
<1>1. TypeOK
  BY DEF IInv
<1>2. req[q] \in Locals(conns, made)
  BY <1>1, ReqType
<1>3. req[q].con \in 0 .. conns /\ req[q].field \in Fields
  BY <1>2 DEF Locals
<1>4. req[q].con # 0 /\ conns \in 0 .. MaxConns
  BY <1>1 DEF TypeOK, None
<1> QED BY <1>3, <1>4, QosAssumption DEF Conn

(* No Connection, no request. *)
LEMMA InitIInv == Init => IInv
<1> SUFFICES ASSUME Init PROVE IInv
  OBVIOUS
<1> USE QosAssumption DEF Init, NoReq, NoPort, NoValue, None, Fields, Conn
<1>1. TypeOK
  <2>1. port \in [Conn -> [exists : BOOLEAN, queue : Noted]]
    BY Zenon DEF Noted
  <2> QED BY <2>1 DEF TypeOK, Noted
<1>2. Fresh /\ NoteInv /\ QueuesStay /\ AddInv
  BY DEF Fresh, NoteInv, QueuesStay, AddInv, Past
<1>3. NotedIsInstalled /\ AddsDoNotMix
  BY DEF NotedIsInstalled, AddsDoNotMix
<1> QED BY <1>1, <1>2, <1>3 DEF IInv

(* A new Connection: its port is new and nobody works on it; the earlier   *)
(* ports are gone.                                                         *)
LEMMA SetConnectionIInv ==
  ASSUME IInv, SetConnection
  PROVE  IInv'
<1> DEFINE new == conns + 1
<1> USE QosAssumption
<1>1. /\ new \in Conn /\ conns \in Nat /\ conns' = new /\ current' = new
      /\ conn' = conn /\ req' = req /\ creator' = creator /\ raced' = raced
      /\ made' = made /\ faults' = faults
  BY DEF IInv, TypeOK, SetConnection, Conn
<1>2. /\ port'[new].exists = TRUE /\ port'[new].queue = NoValue
      /\ \A o \in Conn \ {new} : port'[o] = NoPort
  <2>1. port' = [o \in Conn |-> IF o = new THEN [NoPort EXCEPT !.exists = TRUE]
                                ELSE NoPort]
    BY DEF SetConnection
  <2>2. port'[new] = [NoPort EXCEPT !.exists = TRUE]
    BY <1>1, <2>1, Zenon
  <2>3. \A o \in Conn \ {new} : port'[o] = NoPort
    BY <2>1, Zenon
  <2> QED BY Zenon, <2>2, <2>3 DEF NoPort
<1>3. NoPort.exists = FALSE /\ NoPort \in [exists : BOOLEAN, queue : Noted]
  <2>1. NoValue \in Noted
    BY DEF NoValue, Noted
  <2> QED BY <2>1, Zenon DEF NoPort
<1>4. TypeOK'
  <2>1. [NoPort EXCEPT !.exists = TRUE] \in [exists : BOOLEAN, queue : Noted]
    BY Zenon, <1>3
  <2>2. port' \in [Conn -> [exists : BOOLEAN, queue : Noted]]
    BY <1>3, <2>1, Zenon DEF SetConnection, IInv, TypeOK
  <2>3. conns' \in 0 .. MaxConns /\ current' \in 0 .. conns' /\ 0 .. conns \subseteq 0 .. conns'
    BY <1>1 DEF Conn
  <2> QED BY <1>1, <2>2, <2>3 DEF IInv, TypeOK
<1>5. \A q \in Reqs : req[q].con # new
  BY <1>1 DEF IInv, TypeOK
<1>6. Fresh'
  <2>1. \A o \in Conn : o > new => o # new /\ o > conns
    BY <1>1 DEF Conn
  <2> QED BY <1>1, <1>2, <1>3, <2>1 DEF IInv, Fresh
<1>7. NoteInv'
  <2>1. \A q \in Reqs : req[q].pc = "note" => req[q].con \in Conn \ {new}
    BY <1>5, HasCon
  <2>2. \A q \in Reqs : req[q].pc = "note" => ~port'[req[q].con].exists
    BY <1>2, <1>3, <2>1
  <2> QED BY <1>1, <2>2 DEF NoteInv
<1>8. QueuesStay' /\ AddInv' /\ AddsDoNotMix'
  <2>1. QueuesStay'
    BY <1>1, <1>2, <1>3 DEF IInv, QueuesStay, Fresh
  <2>2. AddInv' /\ AddsDoNotMix'
    BY <1>1 DEF IInv, AddInv, AddsDoNotMix, Past
  <2> QED BY <2>1, <2>2
<1>9. NotedIsInstalled'
  <2> SUFFICES ASSUME NEW o \in Conn, NEW f \in Fields, port'[o].exists,
                      <<o, f>> \notin raced,
                      ~ \E q \in Reqs : req[q].pc = "note" /\ req[q].con = o /\ req[q].field = f
               PROVE  conn[o][f] = port'[o].queue[f]
    BY <1>1 DEF NotedIsInstalled
  <2>1. CASE o = new
    BY <1>1, <1>2, <2>1 DEF IInv, Fresh
  <2>2. CASE o # new
    BY <1>2, <1>3, <2>2
  <2> QED BY <2>1, <2>2
<1> QED BY <1>4, <1>6, <1>7, <1>8, <1>9 DEF IInv

(* The port of a Connection goes. *)
LEMMA DeletePortIInv ==
  ASSUME IInv, DeletePort
  PROVE  IInv'
<1>1. PICK c \in Conn :
        /\ port' = [port EXCEPT ![c] = NoPort]
        /\ UNCHANGED <<current, conn, req, conns, made, faults, creator, raced>>
  BY DEF DeletePort
<1>2. NoPort.exists = FALSE /\ NoPort \in [exists : BOOLEAN, queue : Noted]
  <2>1. NoValue \in Noted
    BY DEF NoValue, Noted
  <2> QED BY <2>1, Zenon DEF NoPort
<1>3. TypeOK'
  <2>1. port' \in [Conn -> [exists : BOOLEAN, queue : Noted]]
    BY <1>1, <1>2, Zenon DEF IInv, TypeOK
  <2> QED BY <1>1, <2>1 DEF IInv, TypeOK
<1>4. \A o \in Conn : port'[o].exists => port'[o] = port[o]
  BY <1>1, <1>2 DEF IInv, TypeOK
<1>5. Fresh' /\ AddInv' /\ AddsDoNotMix'
  BY <1>1, <1>4 DEF IInv, Fresh, AddInv, AddsDoNotMix, Past
<1>6. QueuesStay' /\ NotedIsInstalled'
  BY <1>1, <1>4 DEF IInv, QueuesStay, NotedIsInstalled
<1>7. NoteInv'
  <2>1. \A q \in Reqs : req[q].pc = "note" => req[q].con \in Conn
    BY HasCon
  <2> QED BY <1>1, <1>4, <2>1 DEF IInv, NoteInv, Wanted, Unnoted
<1> QED BY <1>3, <1>5, <1>6, <1>7 DEF IInv

(* The container has no Connection. *)
LEMMA DeleteConnectionIInv ==
  ASSUME IInv, DeleteConnection
  PROVE  IInv'
<1>1. TypeOK'
  BY DEF IInv, TypeOK, DeleteConnection, None
<1>2. Fresh' /\ NoteInv' /\ QueuesStay' /\ AddInv' /\ NotedIsInstalled' /\ AddsDoNotMix'
  BY DEF IInv, DeleteConnection, Fresh, NoteInv, QueuesStay, AddInv, NotedIsInstalled,
         AddsDoNotMix, Past, Wanted, Unnoted
<1> QED BY <1>1, <1>2 DEF IInv

(* A request q that runs no command and notes nothing. *)
LEMMA QuietIInv ==
  ASSUME IInv, TypeOK', NEW q \in Reqs,
         conn' = conn, port' = port, conns' = conns, creator' = creator, raced' = raced,
         \A r \in Reqs \ {q} : req'[r] = req[r],
         req[q].pc # "note", req'[q].pc # "note",
         req'[q].pc # "idle" => req'[q].id # 0,
         req'[q].pc = "get" => req'[q].field = "Delay",
         \A f \in Fields : Past(q, f)' => creator[req'[q].con][f] = req'[q].id
  PROVE  IInv'
<1>1. \A r \in Reqs : req'[r].pc = "note" => req'[r] = req[r]
  OBVIOUS
<1>2. \A r \in Reqs : req[r].pc = "note" => req'[r] = req[r]
  OBVIOUS
<1>3. Fresh' /\ QueuesStay' /\ AddsDoNotMix'
  BY DEF IInv, Fresh, QueuesStay, AddsDoNotMix
<1>4. NoteInv'
  BY <1>1, <1>2 DEF IInv, NoteInv, Wanted, Unnoted
<1>5. NotedIsInstalled'
  BY <1>1, <1>2 DEF IInv, NotedIsInstalled
<1>6. AddInv'
  BY DEF IInv, AddInv, Past
<1> QED BY <1>3, <1>4, <1>5, <1>6 DEF IInv

(* A request that returns. *)
LEMMA ReturnIInv ==
  ASSUME IInv, NEW q \in Reqs, req[q].pc # "note", Return(q), faults' \in 0 .. MaxFaults,
         UNCHANGED <<current, conn, port, conns, made, creator, raced>>
  PROVE  IInv'
<1>1. /\ req'[q] = NoReq /\ \A r \in Reqs \ {q} : req'[r] = req[r]
      /\ req' \in [Reqs -> Locals(conns, made)]
  <2>1. NoReq \in Locals(conns, made)
    BY DEF IInv, TypeOK, Locals, NoReq, NoValue, Fields, None
  <2> QED BY <2>1, ReqType DEF IInv, Return
<1>2. TypeOK'
  BY <1>1 DEF IInv, TypeOK, NoReq, Locals
<1>3. ~Past(q, "Delay")' /\ ~Past(q, "BandWidth")' /\ req'[q].pc = "idle"
  BY <1>1 DEF NoReq, Past
<1> QED BY <1>1, <1>2, <1>3, QuietIInv DEF Fields

(* A request that starts. *)
LEMMA RequestIInv ==
  ASSUME IInv, NEW q \in Reqs, NEW op \in {"add", "change"}, Request(q, op)
  PROVE  IInv'
<1>1. PICK args \in [Fields -> Values \cup {Empty}] \ {NoValue} :
        req' = [req EXCEPT ![q] =
          [NoReq EXCEPT !.pc = "get", !.op = op, !.args = args, !.id = made + 1]]
  BY DEF Request
<1>2. /\ req'[q] = [pc |-> "get", op |-> op, args |-> args, con |-> None,
                    field |-> "Delay", id |-> made + 1]
      /\ \A r \in Reqs \ {q} : req'[r] = req[r]
  BY Zenon, <1>1 DEF IInv, TypeOK, NoReq
<1>3. made \in Nat /\ made' = made + 1 /\ made' \in 0 .. MaxReqs
  BY QosAssumption DEF IInv, TypeOK, Request
<1>4. TypeOK'
  <2>1. req' \in [Reqs -> Locals(conns, made')]
    <3>1. req \in [Reqs -> Locals(conns, made')]
      <4>1. 0 .. made \subseteq 0 .. made'
        BY <1>3
      <4>2. Locals(conns, made) \subseteq Locals(conns, made')
        BY <4>1 DEF Locals
      <4> QED BY <4>2, ReqType DEF IInv
    <3>2. req'[q] \in Locals(conns, made')
      BY <1>2, <1>3 DEF IInv, TypeOK, Locals, Fields, None
    <3> QED BY <1>1, <1>2, <3>1, <3>2
  <2>2. \A r \in Reqs : req'[r].pc \in {"tc", "note", "next"} => req'[r].con # None
    BY <1>2 DEF IInv, TypeOK
  <2>3. creator' \in [Conn -> [Fields -> 0 .. made']]
    <3>1. 0 .. made \subseteq 0 .. made'
      BY <1>3
    <3>2. [Fields -> 0 .. made] \subseteq [Fields -> 0 .. made']
      BY <3>1
    <3> QED BY <3>2 DEF IInv, TypeOK, Request
  <2> QED BY <1>3, <2>1, <2>2, <2>3 DEF IInv, TypeOK, Request, Locals
<1>5. /\ ~Past(q, "Delay")' /\ ~Past(q, "BandWidth")'
      /\ req'[q].id # 0 /\ req'[q].field = "Delay"
  BY <1>2, <1>3 DEF Past
<1> QED BY <1>2, <1>4, <1>5, QuietIInv DEF Request, Fields

(* A request that reads the Connection, has nothing to install or goes on  *)
(* to the next field: what it has passed it passed before.                 *)
LEMMA GoOnIInv ==
  ASSUME IInv, NEW q \in Reqs, GetConnection(q) \/ Skip(q) \/ NextField(q)
  PROVE  IInv'
<1>1. /\ UNCHANGED <<current, conn, port, conns, made, creator, raced>>
      /\ faults' \in 0 .. MaxFaults /\ req[q].pc # "note"
  BY QosAssumption DEF IInv, TypeOK, GetConnection, Skip, NextField, mayFail
<1>2. CASE Return(q)
  BY <1>1, <1>2, ReturnIInv
<1>3. ASSUME req'[q] \in Locals(conns, made), req' = [req EXCEPT ![q] = req'[q]],
             req'[q].pc \in {"tc", "next"}, req'[q].con # None, req'[q].id # 0,
             \A f \in Fields : Past(q, f)' => creator[req'[q].con][f] = req'[q].id
      PROVE  IInv'
  <2>1. /\ req' \in [Reqs -> Locals(conns, made)]
        /\ \A r \in Reqs \ {q} : req'[r] = req[r]
    BY <1>3, ReqType DEF IInv
  <2>2. \A r \in Reqs : req'[r].pc \in {"tc", "note", "next"} => req'[r].con # None
    BY <1>3, <2>1 DEF IInv, TypeOK
  <2>3. TypeOK'
    BY <1>1, <2>1, <2>2 DEF IInv, TypeOK, Locals
  <2> QED BY <1>1, <1>3, <2>1, <2>3, QuietIInv
<1>4. req[q] \in Locals(conns, made)
  BY ReqType DEF IInv
<1>5. CASE GetConnection(q) /\ ~Return(q)
  <2>1. /\ req[q].pc = "get" /\ current # None /\ current \in 0 .. conns
        /\ req' = [req EXCEPT ![q].pc = "tc", ![q].con = current]
    <3>1. current \in 0 .. conns
      BY DEF IInv, TypeOK
    <3> QED BY <1>5, <3>1, Zenon DEF GetConnection
  <2>2. req'[q] = [req[q] EXCEPT !.pc = "tc", !.con = current]
    BY <2>1 DEF IInv, TypeOK
  <2>3. req'[q] \in Locals(conns, made) /\ req' = [req EXCEPT ![q] = req'[q]]
    BY Zenon, <1>4, <2>1, <2>2, ReqType DEF IInv, Locals
  <2>4. /\ req'[q].pc = "tc" /\ req'[q].con = current /\ req'[q].id = req[q].id
        /\ req'[q].field = "Delay" /\ req[q].id # 0
    <3>1. req[q].id # 0 /\ req[q].field = "Delay"
      BY <2>1 DEF IInv, AddInv
    <3> QED BY <1>4, <2>2, <3>1 DEF Locals
  <2> QED BY Zenon, <1>3, <2>1, <2>3, <2>4 DEF Past
<1>6. CASE Skip(q)
  <2>1. /\ req[q].pc = "tc" /\ Wanted(q) = Empty
        /\ req' = [req EXCEPT ![q].pc = "next"]
    BY <1>6 DEF Skip
  <2>2. req'[q] = [req[q] EXCEPT !.pc = "next"]
    BY <2>1 DEF IInv, TypeOK
  <2>3. req'[q] \in Locals(conns, made) /\ req' = [req EXCEPT ![q] = req'[q]]
    BY <1>4, <2>1, <2>2, ReqType DEF IInv, Locals
  <2>4. /\ req'[q].pc = "next" /\ req'[q].con = req[q].con /\ req'[q].id = req[q].id
        /\ req'[q].op = req[q].op /\ req[q].id # 0 /\ req[q].con # None
    <3>1. req[q].id # 0 /\ req[q].con # None
      BY <2>1 DEF IInv, TypeOK, AddInv
    <3> QED BY <1>4, <2>2, <3>1 DEF Locals
  <2>5. req[q].op # "add"
    BY <2>1, QosAssumption DEF Wanted
  <2> QED BY <1>3, <2>3, <2>4, <2>5 DEF Past
<1>7. CASE NextField(q) /\ ~Return(q)
  <2>1. /\ req[q].pc = "next" /\ req[q].field = "Delay"
        /\ req' = [req EXCEPT ![q].pc = "tc", ![q].field = "BandWidth"]
    BY <1>7 DEF NextField
  <2>2. req'[q] = [req[q] EXCEPT !.pc = "tc", !.field = "BandWidth"]
    BY <2>1 DEF IInv, TypeOK
  <2>3. req'[q] \in Locals(conns, made) /\ req' = [req EXCEPT ![q] = req'[q]]
    BY <1>4, <2>1, <2>2, ReqType DEF IInv, Locals, Fields
  <2>4. /\ req'[q].pc = "tc" /\ req'[q].con = req[q].con /\ req'[q].id = req[q].id
        /\ req'[q].op = req[q].op /\ req[q].id # 0 /\ req[q].con # None
    <3>1. req[q].id # 0 /\ req[q].con # None
      BY <2>1 DEF IInv, TypeOK, AddInv
    <3> QED BY <1>4, <2>2, <3>1 DEF Locals
  <2>5. \A f \in Fields : Past(q, f)' => Past(q, f)
    BY <2>1, <2>4 DEF Past
  <2>6. \A f \in Fields : Past(q, f)' => creator[req'[q].con][f] = req'[q].id
    BY <2>4, <2>5 DEF IInv, AddInv
  <2> QED BY <1>3, <2>3, <2>4, <2>6
<1> QED BY <1>2, <1>5, <1>6, <1>7

(* A command that succeeds. *)
Installs(q) ==
  /\ Wanted(q) # Empty
  /\ Accepts(port[req[q].con], req[q].op, req[q].field)
  /\ port' = [port EXCEPT ![req[q].con].queue[req[q].field] = Wanted(q)]
  /\ creator' = IF req[q].op = "add"
                THEN [creator EXCEPT ![req[q].con][req[q].field] = req[q].id] ELSE creator
  /\ raced' = raced \cup (IF Unnoted(q) THEN {<<req[q].con, req[q].field>>} ELSE {})
  /\ req' = [req EXCEPT ![q].pc = "note"]

(* Then the request is between the command and its note.  A queue is added *)
(* only where there was none, so nobody else is past it.                   *)
LEMMA installedIInv ==
  ASSUME IInv, NEW q \in Reqs, req[q].pc = "tc", Installs(q),
         UNCHANGED <<current, conn, conns, made, faults>>
  PROVE  IInv'
<1> DEFINE o == req[q].con
           f == req[q].field
<1>1. /\ req[q] \in Locals(conns, made) /\ req \in [Reqs -> Locals(conns, made)]
      /\ o \in Conn /\ o <= conns /\ f \in Fields /\ req[q].id \in 0 .. made
  <2>1. req[q] \in Locals(conns, made) /\ req \in [Reqs -> Locals(conns, made)]
    BY ReqType DEF IInv
  <2>2. req[q].id \in 0 .. made
    BY <2>1 DEF Locals
  <2> QED BY <2>1, <2>2, HasCon
<1>2. /\ req'[q] = [req[q] EXCEPT !.pc = "note"]
      /\ \A r \in Reqs \ {q} : req'[r] = req[r]
  <2>1. req' = [req EXCEPT ![q].pc = "note"]
    BY DEF Installs
  <2> QED BY <1>1, <2>1
<1>3. /\ req'[q].pc = "note" /\ req'[q].con = o /\ req'[q].field = f
      /\ req'[q].id = req[q].id /\ req'[q].op = req[q].op /\ req'[q].args = req[q].args
  BY <1>1, <1>2 DEF Locals
<1>4. Wanted(q) \in Values \cup {Default, Empty}
  BY <1>1 DEF Locals, Wanted
<1>5. /\ port' \in [Conn -> [exists : BOOLEAN, queue : Noted]]
      /\ \A c \in Conn : port'[c].exists = port[c].exists
      /\ port'[o].queue[f] = Wanted(q)
      /\ \A c \in Conn, g \in Fields :
           <<c, g>> # <<o, f>> => port'[c].queue[g] = port[c].queue[g]
  <2>1. port' = [port EXCEPT ![o].queue[f] = Wanted(q)]
    BY DEF Installs
  <2>2. port \in [Conn -> [exists : BOOLEAN, queue : Noted]]
    BY DEF IInv, TypeOK
  <2>3. /\ port'[o] = [port[o] EXCEPT !.queue = [@ EXCEPT ![f] = Wanted(q)]]
        /\ \A c \in Conn \ {o} : port'[c] = port[c]
        /\ DOMAIN port' = Conn /\ port' = [c \in Conn |-> port'[c]]
    BY Zenon, <1>1, <2>1, <2>2
  <2>4. [port[o].queue EXCEPT ![f] = Wanted(q)] \in Noted
    BY <1>1, <1>4, <2>2 DEF Noted
  <2>5. /\ port'[o] \in [exists : BOOLEAN, queue : Noted]
        /\ port'[o].exists = port[o].exists
        /\ port'[o].queue = [port[o].queue EXCEPT ![f] = Wanted(q)]
    BY <1>1, <2>2, <2>3, <2>4
  <2>6. port' \in [Conn -> [exists : BOOLEAN, queue : Noted]]
    BY <2>2, <2>3, <2>5
  <2>7. /\ port'[o].queue[f] = Wanted(q)
        /\ \A g \in Fields \ {f} : port'[o].queue[g] = port[o].queue[g]
    BY <1>1, <2>2, <2>5 DEF Noted
  <2> QED BY ZenonT(30), <2>3, <2>5, <2>6, <2>7
<1>6. /\ creator' \in [Conn -> [Fields -> 0 .. made]]
      /\ \A c \in Conn, g \in Fields :
           <<c, g>> # <<o, f>> => creator'[c][g] = creator[c][g]
      /\ creator'[o][f] = IF req[q].op = "add" THEN req[q].id ELSE creator[o][f]
      /\ req[q].op # "add" => creator' = creator
  <2>1. creator' = IF req[q].op = "add" THEN [creator EXCEPT ![o][f] = req[q].id] ELSE creator
    BY DEF Installs
  <2>2. creator \in [Conn -> [Fields -> 0 .. made]]
    BY DEF IInv, TypeOK
  <2> QED BY <1>1, <2>1, <2>2
<1>7. req[q].op = "add" => creator[o][f] = 0
  <2>1. Accepts(port[o], req[q].op, f)
    BY DEF Installs
  <2> QED BY <1>1, <2>1 DEF IInv, QueuesStay, Accepts
<1>8. /\ raced \subseteq raced' /\ raced' \subseteq raced \cup {<<o, f>>}
      /\ Unnoted(q) => <<o, f>> \in raced'
  BY DEF Installs
<1>15. TypeOK'
  <2>1. req' \in [Reqs -> Locals(conns, made)]
    <3>1. req'[q] \in Locals(conns, made)
      BY <1>1, <1>2 DEF Locals
    <3>2. req' = [req EXCEPT ![q] = req'[q]]
      BY <1>1, <1>2 DEF Installs
    <3> QED BY <1>1, <3>1, <3>2
  <2>2. \A r \in Reqs : req'[r].pc \in {"tc", "note", "next"} => req'[r].con # None
    BY <1>2, <1>3 DEF IInv, TypeOK
  <2>3. raced' \subseteq Conn \X Fields
    BY <1>1, <1>8 DEF IInv, TypeOK
  <2> QED BY <1>5, <1>6, <2>1, <2>2, <2>3 DEF IInv, TypeOK, Locals
<1>9. Fresh'
  <2>1. \A c \in Conn : c > conns => c # o
    BY <1>1 DEF IInv, TypeOK, Conn
  <2> SUFFICES ASSUME NEW c \in Conn, c > conns
               PROVE  /\ conn[c] = NoValue /\ ~port'[c].exists
                      /\ \A g \in Fields : creator'[c][g] = 0
    BY DEF Fresh
  <2>2. /\ c # o /\ conn[c] = NoValue /\ ~port[c].exists
        /\ \A g \in Fields : creator[c][g] = 0
    BY <2>1 DEF IInv, Fresh
  <2> QED BY <1>5, <1>6, <2>2
<1>10. NoteInv'
  <2> SUFFICES ASSUME NEW r \in Reqs, req'[r].pc = "note", port'[req'[r].con].exists,
                      <<req'[r].con, req'[r].field>> \notin raced'
               PROVE  /\ port'[req'[r].con].queue[req'[r].field] = Wanted(r)'
                      /\ ~Unnoted(r)'
    BY DEF NoteInv
  <2>1. CASE r = q
    <3>1. Wanted(q)' = Wanted(q)
      BY <1>3 DEF Wanted
    <3>2. ~Unnoted(q)
      BY <1>3, <1>8, <2>1
    <3>3. ~Unnoted(q)'
      BY <1>2, <1>3, <3>2 DEF Unnoted
    <3> QED BY <1>3, <1>5, <2>1, <3>1, <3>3
  <2>2. CASE r # q
    <3>1. req'[r] = req[r] /\ req[r].con \in Conn /\ req[r].field \in Fields
      <4>1. req'[r] = req[r]
        BY <1>2, <2>2
      <4> QED BY <4>1, HasCon
    <3>2. <<req[r].con, req[r].field>> # <<o, f>>
      BY <1>8, <2>2, <3>1 DEF Unnoted
    <3>3. /\ port[req[r].con].queue[req[r].field] = Wanted(r)
          /\ ~Unnoted(r)
      <4>1. port[req[r].con].exists /\ <<req[r].con, req[r].field>> \notin raced
        BY <1>5, <1>8, <3>1
      <4> QED BY <3>1, <4>1 DEF IInv, NoteInv
    <3>4. ~Unnoted(r)'
      <4> SUFFICES ASSUME NEW p \in Reqs \ {r}, req'[p].pc = "note",
                          req'[p].con = req'[r].con, req'[p].field = req'[r].field
                   PROVE  FALSE
        BY DEF Unnoted
      <4>1. p # q
        BY <1>3, <3>1, <3>2
      <4>2. req'[p] = req[p]
        BY <1>2, <4>1
      <4> QED BY <3>1, <3>3, <4>2 DEF Unnoted
    <3>5. Wanted(r)' = Wanted(r)
      BY <3>1 DEF Wanted
    <3> QED BY <1>5, <3>1, <3>2, <3>3, <3>4, <3>5
  <2> QED BY <2>1, <2>2
<1>11. QueuesStay'
  <2> SUFFICES ASSUME NEW c \in Conn, NEW g \in Fields,
                      port'[c].exists, creator'[c][g] # 0
               PROVE  port'[c].queue[g] # Empty
    BY DEF QueuesStay
  <2>1. CASE c = o /\ g = f
    <3>1. Wanted(q) # Empty
      BY DEF Installs
    <3> QED BY <1>5, <2>1, <3>1
  <2>2. CASE <<c, g>> # <<o, f>>
    <3>1. /\ port[c].exists /\ creator[c][g] # 0
          /\ port'[c].queue[g] = port[c].queue[g]
      BY <1>5, <1>6, <2>2
    <3> QED BY <3>1 DEF IInv, QueuesStay
  <2> QED BY <2>1, <2>2
<1>12. NotedIsInstalled'
  <2> SUFFICES ASSUME NEW c \in Conn, NEW g \in Fields, port'[c].exists, <<c, g>> \notin raced',
                      ~ \E r \in Reqs : req'[r].pc = "note" /\ req'[r].con = c /\ req'[r].field = g
               PROVE  conn[c][g] = port'[c].queue[g]
    BY DEF NotedIsInstalled
  <2>1. <<c, g>> # <<o, f>>
    BY <1>3
  <2>2. ~ \E r \in Reqs : req[r].pc = "note" /\ req[r].con = c /\ req[r].field = g
    BY <1>2
  <2> QED BY <1>5, <1>8, <2>1, <2>2 DEF IInv, NotedIsInstalled
<1>13. AddsDoNotMix'
  <2>1. CASE req[q].op # "add"
    BY <1>6, <2>1 DEF IInv, AddsDoNotMix
  <2>2. CASE req[q].op = "add" /\ f = "Delay"
    BY <1>1, <1>6, <1>7, <2>2 DEF IInv, AddsDoNotMix, Fields
  <2>3. CASE req[q].op = "add" /\ f = "BandWidth"
    <3>1. creator[o]["Delay"] = req[q].id
      BY <2>3 DEF IInv, AddInv, Past, Fields
    <3> QED BY <1>1, <1>6, <2>3, <3>1 DEF IInv, AddsDoNotMix, Fields
  <2> QED BY <1>1, <2>1, <2>2, <2>3 DEF Fields
<1>14. AddInv'
  <2> SUFFICES ASSUME NEW r \in Reqs
               PROVE  /\ req'[r].pc # "idle" => req'[r].id # 0
                      /\ req'[r].pc = "get" => req'[r].field = "Delay"
                      /\ \A g \in Fields : Past(r, g)' => creator'[req'[r].con][g] = req'[r].id
    BY SMTT(30) DEF AddInv
  <2>1. CASE r = q
    BY <1>1, <1>3, <1>6, <2>1 DEF IInv, AddInv, Past, Fields
  <2>2. CASE r # q
    <3>1. req'[r] = req[r]
      BY <1>2, <2>2
    <3>2. ASSUME NEW g \in Fields, Past(r, g)
          PROVE  creator'[req[r].con][g] = req[r].id
      <4>1. creator[req[r].con][g] = req[r].id /\ req[r].id # 0 /\ req[r].con \in Conn
        <5>1. req[r].pc \in {"tc", "note", "next"}
          BY <3>2 DEF Past
        <5>2. req[r].con \in Conn
          BY <5>1, HasCon
        <5> QED BY <3>2, <5>1, <5>2 DEF IInv, AddInv
      <4> QED BY <1>6, <1>7, <3>2, <4>1
    <3> QED BY <3>1, <3>2 DEF IInv, AddInv, Past
  <2> QED BY <2>1, <2>2
<1> QED BY <1>15, <1>9, <1>10, <1>11, <1>12, <1>13, <1>14 DEF IInv

(* installQos: the command succeeds, or the request returns. *)
LEMMA installQosIInv ==
  ASSUME IInv, NEW q \in Reqs, installQos(q)
  PROVE  IInv'
<1>1. req[q].pc = "tc" /\ Wanted(q) # Empty /\ UNCHANGED <<current, conn, conns, made>>
  BY SMTT(30) DEF installQos
<1>2. CASE /\ Accepts(port[req[q].con], req[q].op, req[q].field)
           /\ port' = [port EXCEPT ![req[q].con].queue[req[q].field] = Wanted(q)]
           /\ creator' = IF req[q].op = "add"
                         THEN [creator EXCEPT ![req[q].con][req[q].field] = req[q].id]
                         ELSE creator
           /\ raced' = raced \cup (IF Unnoted(q) THEN {<<req[q].con, req[q].field>>} ELSE {})
           /\ req' = [req EXCEPT ![q].pc = "note"]
           /\ UNCHANGED faults
  BY Zenon, <1>1, <1>2, installedIInv DEF Installs
<1>3. CASE /\ ~Accepts(port[req[q].con], req[q].op, req[q].field) \/ mayFail
           /\ faults' = IF Accepts(port[req[q].con], req[q].op, req[q].field)
                        THEN faults + 1 ELSE faults
           /\ Failed(q)
           /\ UNCHANGED <<port, creator, raced>>
  <2>1. faults' \in 0 .. MaxFaults
    BY <1>3, QosAssumption DEF IInv, TypeOK, mayFail
  <2> QED BY <1>1, <1>3, <2>1, ReturnIInv DEF Failed
<1> QED BY <1>2, <1>3, Zenon DEF installQos

(* The value of the queue is noted. *)
LEMMA NoteIInv ==
  ASSUME IInv, NEW q \in Reqs, Note(q)
  PROVE  IInv'
<1> DEFINE o == req[q].con
           f == req[q].field
<1>1. /\ req[q].pc = "note" /\ conn' = [conn EXCEPT ![o][f] = Wanted(q)]
      /\ req' = [req EXCEPT ![q].pc = "next"]
      /\ UNCHANGED <<current, port, conns, made, faults, creator, raced>>
  BY DEF Note
<1>2. /\ req[q] \in Locals(conns, made) /\ req \in [Reqs -> Locals(conns, made)]
      /\ o \in Conn /\ o <= conns /\ f \in Fields
  <2>1. TypeOK
    BY DEF IInv
  <2> QED BY <1>1, <2>1, HasCon, ReqType
<1>3. /\ req'[q] = [req[q] EXCEPT !.pc = "next"]
      /\ \A r \in Reqs \ {q} : req'[r] = req[r]
  BY <1>1, <1>2
<1>4. /\ req'[q].pc = "next" /\ req'[q].con = o /\ req'[q].field = f
      /\ req'[q].id = req[q].id /\ req'[q].op = req[q].op
  BY <1>2, <1>3 DEF Locals
<1>5. /\ conn'[o][f] = Wanted(q)
      /\ \A c \in Conn, g \in Fields : <<c, g>> # <<o, f>> => conn'[c][g] = conn[c][g]
      /\ \A c \in Conn : c # o => conn'[c] = conn[c]
  BY <1>1, <1>2 DEF IInv, TypeOK, Noted
<1>6. TypeOK'
  <2>1. conn' \in [Conn -> Noted]
    <3>1. Wanted(q) \in Values \cup {Default, Empty}
      BY <1>2 DEF Locals, Wanted
    <3> QED BY <1>1, <1>2, <3>1 DEF IInv, TypeOK, Noted
  <2>2. req' \in [Reqs -> Locals(conns, made)]
    <3>1. req'[q] \in Locals(conns, made)
      BY <1>2, <1>3 DEF Locals
    <3> QED BY <1>1, <1>2, <1>3, <3>1
  <2>3. \A r \in Reqs : req'[r].pc \in {"tc", "note", "next"} => req'[r].con # None
    BY <1>1, <1>3, <1>4 DEF IInv, TypeOK
  <2> QED BY Zenon, <1>1, <2>1, <2>2, <2>3 DEF IInv, TypeOK, Locals
<1>7. Fresh'
  <2>1. \A c \in Conn : c > conns => c # o
    BY <1>2 DEF IInv, TypeOK, Conn
  <2> QED BY <1>1, <1>5, <2>1 DEF IInv, Fresh
<1>8. NoteInv'
  <2> SUFFICES ASSUME NEW r \in Reqs, req'[r].pc = "note", port[req'[r].con].exists,
                      <<req'[r].con, req'[r].field>> \notin raced
               PROVE  /\ port[req'[r].con].queue[req'[r].field] = Wanted(r)'
                      /\ ~Unnoted(r)'
    BY <1>1 DEF NoteInv
  <2>1. r # q /\ req'[r] = req[r]
    BY Zenon, <1>3, <1>4
  <2>2. port[req[r].con].queue[req[r].field] = Wanted(r) /\ ~Unnoted(r)
    BY <2>1 DEF IInv, NoteInv
  <2>3. Wanted(r)' = Wanted(r)
    BY <2>1 DEF Wanted
  <2>4. ~Unnoted(r)'
    <3> SUFFICES ASSUME NEW p \in Reqs \ {r}, req'[p].pc = "note",
                        req'[p].con = req'[r].con, req'[p].field = req'[r].field
                 PROVE  FALSE
      BY DEF Unnoted
    <3>1. req'[p] = req[p]
      BY Zenon, <1>3, <1>4
    <3> QED BY <2>1, <2>2, <3>1 DEF Unnoted
  <2> QED BY <2>1, <2>2, <2>3, <2>4
<1>9. NotedIsInstalled'
  <2> SUFFICES ASSUME NEW c \in Conn, NEW g \in Fields, port[c].exists, <<c, g>> \notin raced,
                      ~ \E r \in Reqs : req'[r].pc = "note" /\ req'[r].con = c /\ req'[r].field = g
               PROVE  conn'[c][g] = port[c].queue[g]
    BY <1>1 DEF NotedIsInstalled
  <2>1. CASE c = o /\ g = f
    BY SMTT(30), <1>1, <1>5, <2>1 DEF IInv, NoteInv
  <2>2. CASE <<c, g>> # <<o, f>>
    <3>1. ~ \E r \in Reqs : req[r].pc = "note" /\ req[r].con = c /\ req[r].field = g
      BY <1>3, <2>2
    <3> QED BY <1>5, <2>2, <3>1 DEF IInv, NotedIsInstalled
  <2> QED BY <2>1, <2>2
<1>10. QueuesStay' /\ AddsDoNotMix'
  BY <1>1 DEF IInv, QueuesStay, AddsDoNotMix
<1>11. AddInv'
  <2>1. \A g \in Fields : Past(q, g)' => Past(q, g)
    BY <1>1, <1>4 DEF Past
  <2> QED BY <1>1, <1>3, <1>4, <2>1 DEF IInv, AddInv, Past
<1> QED BY <1>6, <1>7, <1>8, <1>9, <1>10, <1>11 DEF IInv

LEMMA NextIInv == IInv /\ [Next]_vars => IInv'
<1> SUFFICES ASSUME IInv, [Next]_vars PROVE IInv'
  OBVIOUS
<1>1. CASE UNCHANGED vars
  <2>1. UNCHANGED <<current, conn, port, req, conns, made, faults, creator, raced>>
    BY <1>1 DEF vars
  <2>2. TypeOK'
    BY <2>1 DEF IInv, TypeOK
  <2>5. Fresh'
    BY <2>1 DEF IInv, Fresh
  <2>3. NoteInv' /\ NotedIsInstalled'
    BY <2>1 DEF IInv, NoteInv, NotedIsInstalled, Wanted, Unnoted
  <2>4. QueuesStay' /\ AddInv' /\ AddsDoNotMix'
    BY <2>1 DEF IInv, QueuesStay, AddInv, AddsDoNotMix, Past
  <2> QED BY <2>2, <2>3, <2>4, <2>5 DEF IInv
<1>2. CASE SetConnection \/ DeletePort \/ DeleteConnection
  BY <1>2, SetConnectionIInv, DeletePortIInv, DeleteConnectionIInv
<1>3. ASSUME NEW q \in Reqs, createQos(q) \/ updateQos(q)
      PROVE  IInv'
  BY <1>3, RequestIInv DEF createQos, updateQos
<1>4. ASSUME NEW q \in Reqs, Step(q)
      PROVE  IInv'
  BY <1>4, GoOnIInv, installQosIInv, NoteIInv DEF Step
<1> QED BY <1>1, <1>2, <1>3, <1>4 DEF Next

LEMMA SpecIInv == Spec => []IInv
  BY InitIInv, NextIInv, PTL DEF Spec

(* Every variable of Qos keeps its type; a request that runs commands has  *)
(* found a Connection.                                                     *)
THEOREM TypeCorrect == Spec => []TypeOK
<1>1. IInv => TypeOK
  BY DEF IInv
<1> QED BY <1>1, SpecIInv, PTL

(* What a Connection notes for a field is what the kernel does for its     *)
(* port (connection.go:474), however many requests interleave, fail or     *)
(* meet a port that is replaced: the only exception is a field for which   *)
(* two commands ran before either was noted.                               *)
THEOREM NotedMatchesKernel == Spec => []NotedIsInstalled
<1>1. IInv => NotedIsInstalled
  BY DEF IInv
<1> QED BY <1>1, SpecIInv, PTL

(* The two queues of a port are never added by different createQos         *)
(* (connection.go:470).                                                    *)
THEOREM OneRequestAddsBoth == Spec => []AddsDoNotMix
<1>1. IInv => AddsDoNotMix
  BY DEF IInv
<1> QED BY <1>1, SpecIInv, PTL

(* A createQos that reports success has both queues (connection.go:495),   *)
(* unless the port is gone.                                                *)
THEOREM SuccessMeansBothQueues == Spec => []AddInstallsBoth
<1>1. ASSUME IInv
      PROVE  AddInstallsBoth
  <2> SUFFICES ASSUME NEW q \in Reqs, req[q].pc = "next", req[q].op = "add",
                      req[q].field = "BandWidth", port[req[q].con].exists,
                      NEW f \in Fields
               PROVE  port[req[q].con].queue[f] # Empty
    BY DEF AddInstallsBoth
  <2>1. Past(q, f)
    BY DEF Past, Fields
  <2>2. req[q].con \in Conn
    BY <1>1, HasCon
  <2>3. creator[req[q].con][f] = req[q].id /\ req[q].id # 0
    BY <1>1, <2>1 DEF IInv, AddInv
  <2> QED BY <1>1, <2>2, <2>3 DEF IInv, QueuesStay
<1> QED BY <1>1, SpecIInv, PTL

(* A queue once added stays as long as its port (connection.go:462-497):   *)
(* no request, whether it succeeds, fails or panics, empties one, and only *)
(* the end of the port takes it away.                                      *)
THEOREM QueuesOutliveRequests ==
  Spec => [][\A o \in Conn, f \in Fields :
               port[o].exists /\ port'[o].exists /\ port[o].queue[f] # Empty
               => port'[o].queue[f] # Empty]_vars
<1> DEFINE Stays == \A o \in Conn, f \in Fields :
                      port[o].exists /\ port'[o].exists /\ port[o].queue[f] # Empty
                      => port'[o].queue[f] # Empty
<1>1. ASSUME IInv, [Next]_vars
      PROVE  Stays
  <2>1. CASE port' = port
    BY <2>1
  <2>2. CASE SetConnection
    <3>1. ~port[conns + 1].exists
      BY <1>1, <2>2, QosAssumption DEF IInv, TypeOK, Fresh, SetConnection, Conn
    <3>2. \A o \in Conn : o # conns + 1 => port'[o] = NoPort
      BY <2>2, Zenon DEF SetConnection
    <3> QED BY <3>1, <3>2 DEF NoPort
  <2>3. CASE DeletePort
    <3>1. \A o \in Conn : port'[o] = NoPort \/ port'[o] = port[o]
      BY <1>1, <2>3 DEF IInv, TypeOK, DeletePort
    <3> QED BY <3>1 DEF NoPort
  <2>4. ASSUME NEW q \in Reqs, installQos(q), port' # port
        PROVE  Stays
    <3>1. /\ port' = [port EXCEPT ![req[q].con].queue[req[q].field] = Wanted(q)]
          /\ Wanted(q) # Empty
      BY <2>4, Zenon DEF installQos
    <3> QED BY <1>1, <3>1 DEF IInv, TypeOK, Noted
  <2> QED BY Zenon, <1>1, <2>1, <2>2, <2>3, <2>4
      DEF Next, vars, DeleteConnection, createQos, updateQos, Request, Step,
          GetConnection, Skip, Note, NextField
<1> QED BY <1>1, SpecIInv, PTL DEF Spec
=============================================================================
