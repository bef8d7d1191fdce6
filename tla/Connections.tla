---------------------------- MODULE Connections -----------------------------
(***************************************************************************)
(* The container connections of one node (server/connection.go, api.go,    *)
(* daemon.go): the API goroutines of createConn and delConn, the goroutine *)
(* of connHandler that serves them one at a time over connectionChan, and  *)
(* one monitor goroutine (getInterfaceInfo) per connection.                *)
(*                                                                         *)
(* Each createConn allocates a Connection: conn[o] is the o-th of them,    *)
(* and d.connections maps a container to the index of its Connection.      *)
(* RequestIP, MarkUsed and ReleaseIP are steps of the pool of AddressPool. *)
(***************************************************************************)
EXTENDS BitSet

CONSTANTS
  Containers,  \* container IDs
  MaxReqs,     \* bound: API requests that run at the same time
  Hosts,       \* addresses of the bitmap
  Chosen,      \* the addresses users ask for by name
  MaxConns,    \* bound: calls of createConn
  MaxDels,     \* bound: calls of delConn
  MaxPid,      \* bound: processes a container has had
  MaxStarts,   \* bound: times the daemon is started again
  MaxFaults    \* bound: steps that fail

ASSUME ConnectionsAssumption ==
  /\ Hosts \in Nat \ {0} /\ MaxReqs \in Nat /\ MaxConns \in Nat /\ MaxDels \in Nat
  /\ MaxPid \in Nat \ {0} /\ MaxStarts \in Nat /\ MaxFaults \in Nat /\ Chosen \subseteq 1 .. Hosts

Conn == 1 .. MaxConns
Reqs == 1 .. MaxReqs
None == 0

VARIABLES
  connections,  \* d.connections
  conn,         \* the Connections allocated: container, process, port, address
  monitor,      \* the goroutine of getInterfaceInfo of each of them
  req,          \* the API requests in progress
  handler,      \* connHandler: the request it serves
  pid,          \* the process that runs in each container: its first, second...
  netns,        \* the links in /var/run/netns: container and process
  marked,       \* the bitmap of the network
  made, dels,   \* calls of createConn and delConn so far
  starts,       \* times the daemon was started again
  faults,       \* failed steps so far
  crashed,      \* a goroutine has panicked: the daemon is gone
  unmarked,     \* history: an address was handed out that was not free
  stale,        \* history: a Connection was deleted that was not in connections,
                \* or whose port was not in the table cache
  orphaned      \* history: a port or an address lost its Connection

vars == <<connections, conn, monitor, req, handler, pid, netns, marked, made,
          dels, starts, faults, crashed, unmarked, stale, orphaned>>
history == <<unmarked, stale, orphaned>>

NoConn == [cont |-> None, pid |-> None, port |-> FALSE, ip |-> None]
NoReq == [pc |-> "idle", act |-> "none", con |-> None]
Waiting == [pc |-> "recv", req |-> None, con |-> None]

Init ==
  /\ connections = [c \in Containers |-> None]
  /\ conn = [o \in Conn |-> NoConn]
  /\ monitor = [o \in Conn |-> "none"]
  /\ req = [q \in Reqs |-> NoReq]
  /\ handler = Waiting
  /\ pid = [c \in Containers |-> 1]
  /\ netns = {}
  /\ marked = {0}   \* the gateway
  /\ made = 0 /\ dels = 0 /\ starts = 0 /\ faults = 0
  /\ crashed = FALSE /\ unmarked = FALSE /\ stale = FALSE /\ orphaned = FALSE

mayFail == faults < MaxFaults
Fault(failed) == faults' = IF failed THEN faults + 1 ELSE faults
Id(o) == <<conn[o].cont, conn[o].pid>>
Running(o) == pid[conn[o].cont] = conn[o].pid

-----------------------------------------------------------------------------
(* A new request takes the first place that is free. *)
Unused(q) == req[q].pc = "idle" /\ \A p \in 1 .. q - 1 : req[p].pc # "idle"

(* The API goroutines.  After this step each one sends on connectionChan   *)
(* and waits for the result.                                               *)
createConn(q) ==
  /\ Unused(q) /\ made < MaxConns
  /\ made' = made + 1
  /\ \E c \in Containers :
       conn' = [conn EXCEPT ![made + 1] = [NoConn EXCEPT !.cont = c, !.pid = pid[c]]]
  /\ req' = [req EXCEPT ![q] = [pc |-> "send", act |-> "addConn", con |-> made + 1]]
  /\ UNCHANGED <<connections, monitor, handler, pid, netns, marked, dels,
                 faults, starts, crashed, history>>

(* A container without connection is answered at once. *)
delConn(q) ==
  /\ Unused(q) /\ dels < MaxDels
  /\ dels' = dels + 1
  /\ \E c \in Containers :
       /\ connections[c] # None
       /\ req' = [req EXCEPT ![q] =
            [pc |-> "send", act |-> "deleteConn", con |-> connections[c]]]
  /\ UNCHANGED <<connections, conn, monitor, handler, pid, netns, marked, made,
                 faults, starts, crashed, history>>

(* A container is started again: a new process, in a new namespace. *)
Restart(c) ==
  /\ pid[c] < MaxPid
  /\ pid' = [pid EXCEPT ![c] = @ + 1]
  /\ UNCHANGED <<connections, conn, monitor, req, handler, netns, marked, made,
                 dels, faults, starts, crashed, history>>

-----------------------------------------------------------------------------
(* connHandler. *)

Receive(q) ==
  /\ handler.pc = "recv" /\ req[q].pc = "send"
  /\ req' = [req EXCEPT ![q].pc = "wait"]
  /\ handler' = [pc |-> IF req[q].act = "addConn" THEN "getNetwork" ELSE "deletePort",
                 req |-> q, con |-> req[q].con]
  /\ UNCHANGED <<connections, conn, monitor, pid, netns, marked, made, dels,
                 faults, starts, crashed, history>>

(* The result is sent to the goroutine that waits for it. *)
Reply == req' = [req EXCEPT ![handler.req] = NoReq] /\ handler' = Waiting

(* Mutant of GetNetwork: no result is sent on an error. *)
GetNetworkSilent ==
  /\ handler.pc = "getNetwork"
  /\ \/ handler' = [handler EXCEPT !.pc = "createPort"] /\ UNCHANGED faults
     \/ mayFail /\ Fault(TRUE) /\ handler' = Waiting
  /\ UNCHANGED <<connections, conn, monitor, req, pid, netns, marked, made, dels,
                 starts, crashed, history>>

(* addConnection: without the network nothing is done. *)
GetNetwork ==
  /\ handler.pc = "getNetwork"
  /\ \/ handler' = [handler EXCEPT !.pc = "createPort"] /\ UNCHANGED <<req, faults>>
     \/ mayFail /\ Fault(TRUE) /\ Reply
  /\ UNCHANGED <<connections, conn, monitor, pid, netns, marked, made, dels,
                 starts, crashed, history>>

(* addConnection: the error of AddInternalPort goes unnoticed.  Then it    *)
(* sleeps for a second.                                                    *)
createOvsInternalPort ==
  /\ handler.pc = "createPort"
  /\ handler' = [handler EXCEPT !.pc = "requestIP"]
  /\ \/ conn' = [conn EXCEPT ![handler.con].port = TRUE] /\ UNCHANGED faults
     \/ mayFail /\ Fault(TRUE) /\ UNCHANGED conn
  /\ UNCHANGED <<connections, monitor, req, pid, netns, marked, made, dels,
                 starts, crashed, history>>

(* addConnection: an address, the smallest free one or the one the user    *)
(* asks for, marked already or not.  A pool that fails hands it out        *)
(* unmarked.                                                               *)
RequestIP ==
  LET t == TestAndSet(marked, Hosts)
  IN  /\ handler.pc = "requestIP"
      /\ \E pool \in BOOLEAN, g \in {[bits |-> t.bits, pos |-> t.pos]}
              \cup {[bits |-> Set(marked, a - 1), pos |-> a] : a \in Chosen} :
           /\ pool \/ mayFail
           /\ Fault(~pool)
           /\ conn' = [conn EXCEPT ![handler.con].ip = g.pos]
           /\ marked' = IF pool THEN g.bits ELSE marked
           /\ unmarked' = (unmarked \/ ~pool \/ g.bits = marked)
      /\ handler' = [handler EXCEPT !.pc = "attach"]
      /\ UNCHANGED <<connections, monitor, req, pid, netns, made, dels, starts,
                     crashed, stale, orphaned>>

(* addConnection, the rest: the link to the namespace must not exist and   *)
(* stays when a later step fails; the steps in the namespace need the      *)
(* process and the port.  On an error the port and the address stay.       *)
Attach ==
  LET o == handler.con
      can == Id(o) \notin netns /\ Running(o) /\ conn[o].port
  IN  /\ handler.pc = "attach"
      /\ netns' = netns \cup {Id(o)}
      /\ \/ can /\ handler' = [handler EXCEPT !.pc = "set"]
            /\ UNCHANGED <<req, faults, orphaned>>
         \/ (~can \/ mayFail) /\ Fault(can) /\ Reply /\ orphaned' = TRUE
      /\ UNCHANGED <<connections, conn, monitor, pid, marked, made, dels,
                     starts, crashed, unmarked, stale>>

(* connections.Set replaces the Connection of an earlier process of the    *)
(* container; then the monitor is started and the result sent.             *)
SetConnection ==
  LET o == handler.con
      c == conn[o].cont
  IN  /\ handler.pc = "set"
      /\ connections' = [connections EXCEPT ![c] = o]
      /\ monitor' = [monitor EXCEPT ![o] = "read"]
      /\ orphaned' = (orphaned \/ connections[c] # None)
      /\ Reply
      /\ UNCHANGED <<conn, pid, netns, marked, made, dels, faults,
                     starts, crashed, unmarked, stale>>

(* Mutant of DeletePort: the port is not deleted. *)
DeletePortNot ==
  /\ handler.pc = "deletePort"
  /\ handler' = [handler EXCEPT !.pc = "releaseIP"]
  /\ stale' = (stale \/ connections[conn[handler.con].cont] # handler.con)
  /\ UNCHANGED <<connections, conn, monitor, req, pid, netns, marked, made, dels,
                 faults, starts, crashed, unmarked, orphaned>>

(* deleteConnection: a port that is not in the table cache yet is not      *)
(* deleted.                                                                *)
DeletePort ==
  LET o == handler.con
  IN  /\ handler.pc = "deletePort"
      /\ handler' = [handler EXCEPT !.pc = "releaseIP"]
      /\ \/ /\ conn' = [conn EXCEPT ![o].port = FALSE]
            /\ stale' = (stale \/ connections[conn[o].cont] # o)
            /\ UNCHANGED faults
         \/ mayFail /\ Fault(TRUE) /\ stale' = TRUE /\ UNCHANGED conn
      /\ UNCHANGED <<connections, monitor, req, pid, netns, marked, made, dels,
                     starts, crashed, unmarked, orphaned>>

(* Without the network the address is not released; connHandler ignores    *)
(* the error.                                                              *)
ReleaseIP ==
  LET released == Clear(marked, conn[handler.con].ip - 1)
  IN  /\ handler.pc = "releaseIP"
      /\ handler' = [handler EXCEPT !.pc = "unset"]
      /\ \/ marked' = released /\ UNCHANGED <<faults, orphaned>>
         \/ mayFail /\ Fault(TRUE) /\ orphaned' = TRUE /\ UNCHANGED marked
      /\ UNCHANGED <<connections, conn, monitor, req, pid, netns, made, dels,
                     starts, crashed, unmarked, stale>>

DeleteConnection ==
  /\ handler.pc = "unset"
  /\ connections' = [connections EXCEPT ![conn[handler.con].cont] = None]
  /\ Reply
  /\ UNCHANGED <<conn, monitor, pid, netns, marked, made, dels, faults, starts,
                 crashed, history>>

connHandler ==
  \/ GetNetwork \/ createOvsInternalPort \/ RequestIP \/ Attach \/ SetConnection
  \/ DeletePort \/ ReleaseIP \/ DeleteConnection

-----------------------------------------------------------------------------
(* getInterfaceInfo: it reads the counters of the process, ends when there *)
(* is none, and looks for the line of its port.  Without that line it      *)
(* slices the text from -1 on: the goroutine panics, and so the daemon.    *)
ReadCounters(o) ==
  /\ monitor[o] = "read"
  /\ monitor' = [monitor EXCEPT ![o] = IF Running(o) THEN "check" ELSE "done"]
  /\ crashed' = (Running(o) /\ ~conn[o].port)
  /\ UNCHANGED <<connections, conn, req, handler, pid, netns, marked, made,
                 dels, starts, faults, history>>

(* Under the lock: it ends when its container has no connection.           *)
CheckDeleted(o) ==
  /\ monitor[o] = "check"
  /\ monitor' = [monitor EXCEPT ![o] =
       IF connections[conn[o].cont] = None THEN "done" ELSE "read"]
  /\ UNCHANGED <<connections, conn, req, handler, pid, netns, marked, made,
                 dels, faults, starts, crashed, history>>

getInterfaceInfo(o) == ReadCounters(o) \/ CheckDeleted(o)

-----------------------------------------------------------------------------
(* Mutant of Start: the addresses are free again. *)
StartFresh(clean) ==
  /\ starts < MaxStarts /\ starts' = starts + 1
  /\ connections' = [c \in Containers |-> None]
  /\ monitor' = [o \in Conn |-> "none"] /\ req' = [q \in Reqs |-> NoReq]
  /\ handler' = Waiting /\ crashed' = FALSE
  /\ marked' = {0} /\ orphaned' = TRUE
  /\ UNCHANGED <<conn, pid, netns, made, dels, faults, unmarked, stale>>

(* The daemon is started again: d.connections and the goroutines are gone. *)
(* After a crash the ports are still there; a signal deletes the bridge.   *)
(* The bitmap is in the store, and the links stay.                         *)
Start(clean) ==
  /\ starts < MaxStarts /\ starts' = starts + 1
  /\ clean => ~crashed
  /\ connections' = [c \in Containers |-> None]
  /\ monitor' = [o \in Conn |-> "none"] /\ req' = [q \in Reqs |-> NoReq]
  /\ handler' = Waiting /\ crashed' = FALSE
  /\ conn' = [o \in Conn |-> [conn[o] EXCEPT !.port = @ /\ ~clean]]
  /\ orphaned' = (orphaned \/ marked # {0} \/ \E o \in Conn : conn[o].port)
  /\ UNCHANGED <<pid, netns, marked, made, dels, faults, unmarked, stale>>

Next ==
  \/ /\ ~crashed
     /\ \/ \E q \in Reqs : createConn(q) \/ delConn(q) \/ Receive(q)
        \/ \E c \in Containers : Restart(c)
        \/ connHandler
        \/ \E o \in Conn : getInterfaceInfo(o)
  \/ \E clean \in BOOLEAN : Start(clean)

Spec == Init /\ [][Next]_vars

(* Goroutines are scheduled and the calls of the handler return.  Senders  *)
(* that wait on a channel are served in the order they came: connHandler   *)
(* does not pass over one of them forever.                                 *)
FairSpec ==
  /\ Spec
  /\ WF_vars(~crashed /\ connHandler)
  /\ \A q \in Reqs : SF_vars(~crashed /\ Receive(q))
  /\ \A o \in Conn : WF_vars(~crashed /\ getInterfaceInfo(o))

-----------------------------------------------------------------------------
TypeOK ==
  /\ connections \in [Containers -> Conn \cup {None}]
  /\ conn \in [Conn -> [cont : Containers \cup {None}, pid : 0 .. MaxPid,
                       port : BOOLEAN, ip : 0 .. Hosts + 1]]
  /\ monitor \in [Conn -> {"none", "read", "check", "done"}]
  /\ req \in [Reqs -> [pc : {"idle", "send", "wait"},
                      act : {"none", "addConn", "deleteConn"},
                      con : Conn \cup {None}]]
  /\ handler \in [pc : {"recv", "getNetwork", "createPort", "requestIP", "attach",
                        "set", "deletePort", "releaseIP", "unset"},
                  req : Reqs \cup {None}, con : Conn \cup {None}]
  /\ pid \in [Containers -> 1 .. MaxPid]
  /\ netns \subseteq Containers \X (1 .. MaxPid)
  /\ marked \subseteq 0 .. Hosts - 1
  /\ made \in 0 .. MaxConns /\ dels \in 0 .. MaxDels
  /\ starts \in 0 .. MaxStarts /\ faults \in 0 .. MaxFaults
  /\ {crashed, unmarked, stale, orphaned} \subseteq BOOLEAN

InMap(o) == \E c \in Containers : connections[c] = o
Deleting(o) == handler.con = o /\ handler.pc \in {"releaseIP", "unset"}

(* The port has been given its address.  A daemon that crashes between     *)
(* createOvsInternalPort and RequestIP leaves one that never was.          *)
Addressed(o) == conn[o].port /\ conn[o].ip # None

(* As long as addresses were free when they were handed out and no         *)
(* Connection was deleted twice (api.go:351 reads it before connHandler    *)
(* serves the request): a Connection in d.connections that is not being    *)
(* deleted has its port and an address, and an address a port was given,   *)
(* also of a container that an earlier daemon connected, is marked and no  *)
(* other port's.                                                           *)
Connected ==
  ~unmarked /\ ~stale =>
    /\ \A o \in Conn : InMap(o) /\ ~Deleting(o) => Addressed(o)
    /\ \A o \in Conn : Addressed(o) =>
         /\ conn[o].ip - 1 \in marked
         /\ \A u \in Conn \ {o} : conn[u].port => conn[u].ip # conn[o].ip

(* Unless an addConnection failed half way, a release failed, a Connection *)
(* was replaced or the daemon forgot it, nothing is lost: a port or a mark *)
(* belongs to a Connection in d.connections or to the one connHandler      *)
(* works on.                                                               *)
NothingLost ==
  ~unmarked /\ ~stale /\ ~orphaned =>
    /\ \A o \in Conn : conn[o].port => InMap(o) \/ handler.con = o
    /\ \A b \in marked \ {0} : \E o \in Conn :
         conn[o].ip = b + 1 /\ (InMap(o) \/ handler.con = o)

(* connHandler and the goroutines meet on two unbuffered channels          *)
(* (connection.go:133): a goroutine waits for a result only while          *)
(* connHandler works on its request, and connHandler works for one that    *)
(* waits, so no result is sent to nobody or to another request.            *)
WaitingIsServed ==
  \A q \in Reqs : req[q].pc = "wait" <=> handler.pc # "recv" /\ handler.req = q

(* Every request is answered (api.go:333, 364): connHandler is never stuck *)
(* on a goroutine, nor a goroutine on connHandler, until the daemon goes.  *)
Answered ==
  \A q \in Reqs : req[q].pc = "send" ~> (req[q].pc = "idle" \/ crashed)

-----------------------------------------------------------------------------
(* "first check the container is deleted or not, if deleted, stop the      *)
(* monitor" (connection.go:614): deleting a connection stops its monitor,  *)
(* and does not make it panic.                                             *)
MonitorStops == ~crashed
=============================================================================
