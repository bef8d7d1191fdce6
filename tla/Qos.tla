-------------------------------- MODULE Qos ---------------------------------
(***************************************************************************)
(* The bandwidth and delay of one container (server/connection.go, api.go):*)
(* createQos and updateQos run in an API goroutine each, side by side and  *)
(* next to connHandler, which deletes and replaces the Connection.         *)
(*                                                                         *)
(* The port of a connection has two queues of the kernel: the root netem   *)
(* with the delay, and below it tbf with the bandwidth.  A request runs    *)
(* one tc command for each and notes the value in the Connection after     *)
(* the command.                                                            *)
(***************************************************************************)
EXTENDS Integers

CONSTANTS
  Reqs,      \* API requests that can run at the same time
  Values,    \* bandwidths and delays asked for
  Default,   \* what addQos installs for a value that is not given
  Empty,     \* the empty string: no value
  MaxReqs,   \* bound: requests made
  MaxConns,  \* bound: Connections made for the container
  MaxFaults  \* bound: commands that fail

ASSUME QosAssumption ==
  /\ Empty \notin Values \cup {Default}
  /\ MaxReqs \in Nat /\ MaxConns \in Nat /\ MaxFaults \in Nat

Conn == 1 .. MaxConns
None == 0
Fields == {"Delay", "BandWidth"}

VARIABLES
  current,   \* d.connections of the container: its Connection
  conn,      \* Delay and BandWidth noted in each Connection
  port,      \* the port of each Connection: does it exist, its queues
  req,       \* the requests in progress: their local variables
  conns, made, faults,   \* counters
  creator,   \* history: the request that added a queue of a port
  raced      \* history: fields for which two commands ran before they were noted

vars == <<current, conn, port, req, conns, made, faults, creator, raced>>

NoValue == [f \in Fields |-> Empty]
NoPort == [exists |-> FALSE, queue |-> NoValue]
NoReq == [pc |-> "idle", op |-> "none", args |-> NoValue, con |-> None,
          field |-> "Delay", id |-> 0]

Init ==
  /\ current = None
  /\ conn = [o \in Conn |-> NoValue]
  /\ port = [o \in Conn |-> NoPort]
  /\ req = [q \in Reqs |-> NoReq]
  /\ conns = 0 /\ made = 0 /\ faults = 0
  /\ creator = [o \in Conn |-> [f \in Fields |-> 0]]
  /\ raced = {}

mayFail == faults < MaxFaults
Return(q) == req' = [req EXCEPT ![q] = NoReq]

-----------------------------------------------------------------------------
(* connHandler, as far as this container goes.  A new Connection has a    *)
(* new port; addConnection refuses a process that has its link, so the     *)
(* process is new, and the earlier ports are gone with their namespaces.   *)
SetConnection ==
  /\ conns < MaxConns /\ conns' = conns + 1
  /\ current' = conns + 1
  /\ port' = [o \in Conn |-> IF o = conns + 1 THEN [NoPort EXCEPT !.exists = TRUE]
                             ELSE NoPort]
  /\ UNCHANGED <<conn, req, made, faults, creator, raced>>

(* deleteConnection deletes the port of the Connection delConn had found,  *)
(* or nothing when the table cache does not have the port.                 *)
DeletePort ==
  /\ \E o \in Conn : port[o].exists /\ port' = [port EXCEPT ![o] = NoPort]
  /\ UNCHANGED <<current, conn, req, conns, made, faults, creator, raced>>

(* The entry of the container goes, whichever Connection it holds by now   *)
(* and whether or not its port was deleted.                                *)
DeleteConnection ==
  /\ current # None
  /\ current' = None
  /\ UNCHANGED <<conn, port, req, conns, made, faults, creator, raced>>

-----------------------------------------------------------------------------
(* createQos and updateQos: one of the values must be given, and the       *)
(* container must be connected.                                            *)
Request(q, op) ==
  /\ req[q].pc = "idle" /\ made < MaxReqs /\ made' = made + 1
  /\ current # None
  /\ \E args \in [Fields -> Values \cup {Empty}] \ {NoValue} :
       req' = [req EXCEPT ![q] =
         [NoReq EXCEPT !.pc = "get", !.op = op, !.args = args, !.id = made + 1]]
  /\ UNCHANGED <<current, conn, port, conns, faults, creator, raced>>

createQos(q) == Request(q, "add")
updateQos(q) == Request(q, "change")

(* Mutant of GetConnection: a Connection that is gone is not noticed. *)
GetConnectionNil(q) ==
  /\ req[q].pc = "get"
  /\ req' = [req EXCEPT ![q].pc = "tc", ![q].con = current]
  /\ UNCHANGED <<current, conn, port, conns, made, faults, creator, raced>>

(* addQos and changeQos read the Connection anew: when it is deleted by    *)
(* now the goroutine panics, which the HTTP server catches.  Entering the  *)
(* namespace may fail.                                                     *)
GetConnection(q) ==
  /\ req[q].pc = "get"
  /\ \/ /\ current # None
        /\ req' = [req EXCEPT ![q].pc = "tc", ![q].con = current]
        /\ UNCHANGED faults
     \/ current = None /\ Return(q) /\ UNCHANGED faults
     \/ current # None /\ mayFail /\ faults' = faults + 1 /\ Return(q)
  /\ UNCHANGED <<current, conn, port, conns, made, creator, raced>>

-----------------------------------------------------------------------------
(* The tc commands. *)

(* What the next command of q is to install: nothing when changeQos was    *)
(* not given a value, the default when addQos was not.                     *)
Wanted(q) ==
  LET v == req[q].args[req[q].field]
  IN  IF v = Empty /\ req[q].op = "add" THEN Default ELSE v

(* The kernel, external: a queue is added once, below an existing root,    *)
(* and changed only if it is there.                                        *)
Accepts(p, op, f) ==
  /\ p.exists
  /\ op = "add" => p.queue[f] = Empty
  /\ op = "change" => p.queue[f] # Empty
  /\ f = "BandWidth" => p.queue["Delay"] # Empty

(* Another request has run its command for this field and not noted it. *)
Unnoted(q) ==
  \E r \in Reqs \ {q} : /\ req[r].pc = "note" /\ req[r].con = req[q].con
                        /\ req[r].field = req[q].field

(* Mutants of Failed: the error of the command for the bandwidth, or for   *)
(* the delay, is only logged.                                              *)
FailedLogged(q) ==
  IF req[q].field = "BandWidth" THEN req' = [req EXCEPT ![q].pc = "next"] ELSE Return(q)

FailedGoesOn(q) ==
  IF req[q].field = "Delay" THEN req' = [req EXCEPT ![q].pc = "next"] ELSE Return(q)

(* A command that fails ends the request with an error; what the earlier   *)
(* one installed stays.                                                    *)
Failed(q) == Return(q)

(* installQos. *)
installQos(q) ==
  LET o == req[q].con
      f == req[q].field
      can == Accepts(port[o], req[q].op, f)
  IN  /\ req[q].pc = "tc" /\ Wanted(q) # Empty
      /\ \/ /\ can
            /\ port' = [port EXCEPT ![o].queue[f] = Wanted(q)]
            /\ creator' = IF req[q].op = "add"
                          THEN [creator EXCEPT ![o][f] = req[q].id] ELSE creator
            /\ raced' = raced \cup (IF Unnoted(q) THEN {<<o, f>>} ELSE {})
            /\ req' = [req EXCEPT ![q].pc = "note"]
            /\ UNCHANGED faults
         \/ /\ ~can \/ mayFail
            /\ faults' = IF can THEN faults + 1 ELSE faults
            /\ Failed(q)
            /\ UNCHANGED <<port, creator, raced>>
      /\ UNCHANGED <<current, conn, conns, made>>

(* changeQos leaves a field alone for which it has no value. *)
Skip(q) ==
  /\ req[q].pc = "tc" /\ Wanted(q) = Empty
  /\ req' = [req EXCEPT ![q].pc = "next"]
  /\ UNCHANGED <<current, conn, port, conns, made, faults, creator, raced>>

(* Mutant of Note: only a value the user gave is noted. *)
NoteGiven(q) ==
  LET f == req[q].field
  IN  /\ req[q].pc = "note"
      /\ conn' = IF req[q].args[f] # Empty
                 THEN [conn EXCEPT ![req[q].con][f] = req[q].args[f]] ELSE conn
      /\ req' = [req EXCEPT ![q].pc = "next"]
      /\ UNCHANGED <<current, port, conns, made, faults, creator, raced>>

(* con.Delay and con.BandWidth, after the command has succeeded. *)
Note(q) ==
  /\ req[q].pc = "note"
  /\ conn' = [conn EXCEPT ![req[q].con][req[q].field] = Wanted(q)]
  /\ req' = [req EXCEPT ![q].pc = "next"]
  /\ UNCHANGED <<current, port, conns, made, faults, creator, raced>>

(* The delay comes first; after the bandwidth the request is answered. *)
NextField(q) ==
  /\ req[q].pc = "next"
  /\ IF req[q].field = "Delay"
     THEN req' = [req EXCEPT ![q].pc = "tc", ![q].field = "BandWidth"]
     ELSE Return(q)
  /\ UNCHANGED <<current, conn, port, conns, made, faults, creator, raced>>

Step(q) == GetConnection(q) \/ installQos(q) \/ Skip(q) \/ Note(q) \/ NextField(q)

Next ==
  \/ SetConnection \/ DeletePort \/ DeleteConnection
  \/ \E q \in Reqs : createQos(q) \/ updateQos(q) \/ Step(q)

Spec == Init /\ [][Next]_vars

-----------------------------------------------------------------------------
Noted == [Fields -> Values \cup {Default, Empty}]

TypeOK ==
  /\ current \in 0 .. conns
  /\ conn \in [Conn -> Noted]
  /\ port \in [Conn -> [exists : BOOLEAN, queue : Noted]]
  /\ req \in [Reqs -> [pc : {"idle", "get", "tc", "note", "next"},
                      op : {"none", "add", "change"},
                      args : [Fields -> Values \cup {Empty}],
                      con : 0 .. conns, field : Fields, id : 0 .. made]]
  /\ \A q \in Reqs : req[q].pc \in {"tc", "note", "next"} => req[q].con # None
  /\ conns \in 0 .. MaxConns /\ made \in 0 .. MaxReqs /\ faults \in 0 .. MaxFaults
  /\ creator \in [Conn -> [Fields -> 0 .. made]]
  /\ raced \subseteq Conn \X Fields

(* What getConn shows is what the kernel does (connection.go:474): once no *)
(* request is between a command and its note, the delay and bandwidth of   *)
(* the Connection are those of the queues of its port, however requests,   *)
(* failed commands and deletions interleave.  The one exception is a field *)
(* for which two requests ran their commands before either was noted.      *)
NotedIsInstalled ==
  \A o \in Conn, f \in Fields :
    /\ port[o].exists /\ <<o, f>> \notin raced
    /\ ~ \E q \in Reqs : req[q].pc = "note" /\ req[q].con = o /\ req[q].field = f
    => conn[o][f] = port[o].queue[f]

(* Two createQos that run at the same time do not mix (connection.go:470): *)
(* the queue for the bandwidth is added by the request that has added the  *)
(* root.                                                                   *)
AddsDoNotMix ==
  \A o \in Conn : creator[o]["BandWidth"] \in {0, creator[o]["Delay"]}

(* A createQos that is answered without an error has installed both queues *)
(* (connection.go:495), unless the port was deleted meanwhile: nobody can  *)
(* have removed one of them.                                               *)
AddInstallsBoth ==
  \A q \in Reqs :
    /\ req[q].pc = "next" /\ req[q].op = "add" /\ req[q].field = "BandWidth"
    /\ port[req[q].con].exists
    => \A f \in Fields : port[req[q].con].queue[f] # Empty
=============================================================================
