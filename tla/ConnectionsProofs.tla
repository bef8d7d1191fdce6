------------------------- MODULE ConnectionsProofs --------------------------
(***************************************************************************)
(* Proofs about Connections, for any number of containers, requests,       *)
(* processes, addresses, restarts of the daemon and failed steps.          *)
(***************************************************************************)
EXTENDS Connections, BitSetProofs, TLAPS

ConnType == [cont : Containers \cup {None}, pid : 0 .. MaxPid, port : BOOLEAN,
             ip : 0 .. Hosts + 1]
ReqType == [pc : {"idle", "send", "wait"}, act : {"none", "addConn", "deleteConn"},
            con : Conn \cup {None}]
HandlerType == [pc : {"recv", "getNetwork", "createPort", "requestIP", "attach", "set",
                      "deletePort", "releaseIP", "unset"},
                req : Reqs \cup {None}, con : Conn \cup {None}]

AddPcs == {"getNetwork", "createPort", "requestIP", "attach", "set"}
Blank(o) == ~conn[o].port /\ conn[o].ip = 0

(* A Connection that has been made is for a process of a container, and    *)
(* d.connections has it under that container.                              *)
Made ==
  /\ \A o \in Conn : IF o <= made THEN conn[o].cont \in Containers /\ conn[o].pid # 0
                     ELSE Blank(o)
  /\ \A c \in Containers : connections[c] # None =>
       connections[c] <= made /\ conn[connections[c]].cont = c

(* A request holds a Connection that has been made, and the handler works  *)
(* for a request that waits for it.                                        *)
Served ==
  /\ \A q \in Reqs : IF req[q].act = "none" THEN req[q].con = None
                     ELSE req[q].con \in 1 .. made
  /\ \A q \in Reqs : req[q].pc = "idle" <=> req[q].act = "none"
  /\ IF handler.pc = "recv" THEN handler.con = None
     ELSE /\ handler.req \in Reqs /\ req[handler.req].pc = "wait"
          /\ req[handler.req].con = handler.con
          /\ req[handler.req].act = IF handler.pc \in AddPcs THEN "addConn" ELSE "deleteConn"

(* Until connHandler has added it nobody else knows a Connection; it is    *)
(* blank until its port is created, and has no address until that is       *)
(* requested.                                                              *)
Added ==
  /\ \A q \in Reqs : req[q].act = "addConn" =>
       /\ ~InMap(req[q].con)
       /\ \A p \in Reqs \ {q} : req[p].con # req[q].con
       /\ req[q].pc = "send" => Blank(req[q].con)
  /\ handler.pc \in {"getNetwork", "createPort"} => Blank(handler.con)
  /\ handler.pc = "requestIP" => conn[handler.con].ip = 0
  /\ handler.pc \in {"attach", "set"} => conn[handler.con].ip # 0
  /\ handler.pc = "set" => conn[handler.con].port

(* While connHandler deletes a Connection that was in d.connections, it    *)
(* still is; the port goes first, and nobody else has its address.         *)
Removed ==
  LET o == handler.con
  IN  /\ handler.pc \in {"releaseIP", "unset"} /\ ~stale =>
           ~conn[o].port /\ connections[conn[o].cont] = o
      /\ handler.pc = "releaseIP" /\ ~stale /\ ~unmarked =>
           \A u \in Conn : conn[u].port => conn[u].ip # conn[o].ip
      /\ handler.pc = "unset" /\ ~orphaned => conn[o].ip - 1 \notin marked

IInv == TypeOK /\ Made /\ Served /\ Added /\ Removed /\ Connected /\ NothingLost

LEMMA Types ==
  TypeOK => /\ conn \in [Conn -> ConnType] /\ req \in [Reqs -> ReqType]
            /\ handler \in HandlerType
  BY DEF TypeOK, ConnType, ReqType, HandlerType

(* No Connection, no request, and of the addresses only the gateway's. *)
LEMMA InitIInv == Init => IInv
<1> SUFFICES ASSUME Init PROVE IInv
  OBVIOUS
<1> USE ConnectionsAssumption DEF Init, NoConn, NoReq, Waiting, None
<1>1. TypeOK
  <2>1. conn \in [Conn -> ConnType]
    <3>1. 0 \in 0 .. MaxPid /\ 0 \in 0 .. Hosts + 1
      OBVIOUS
    <3> QED BY <3>1, Zenon DEF ConnType
  <2>2. {crashed, unmarked, stale, orphaned} \subseteq BOOLEAN
    BY Zenon
  <2>3. monitor \in [Conn -> {"none", "read", "check", "done"}] /\ req \in [Reqs -> ReqType]
    BY DEF ReqType
  <2>4. handler \in HandlerType
    BY DEF HandlerType
  <2>5. pid \in [Containers -> 1 .. MaxPid] /\ marked \subseteq 0 .. Hosts - 1
    OBVIOUS
  <2> QED BY <2>1, <2>2, <2>3, <2>4, <2>5 DEF TypeOK, ConnType, ReqType, HandlerType
<1>2. \A o \in Conn : conn[o].port = FALSE /\ conn[o].ip = 0
  OBVIOUS
<1>3. Made /\ Served /\ Added /\ Removed
  BY <1>2 DEF Made, Blank, Served, Added, Removed, Conn
<1>4. Connected /\ NothingLost
  BY <1>2 DEF Connected, Addressed, NothingLost, InMap, Conn
<1> QED BY <1>1, <1>3, <1>4 DEF IInv

-----------------------------------------------------------------------------
(* Facts about the handler. *)

(* The Connection the handler works on has been made, and it belongs to no *)
(* other request that is to add one.                                       *)
LEMMA HandlerProps ==
  ASSUME IInv, handler.pc # "recv"
  PROVE  /\ handler.req \in Reqs /\ handler.con \in Conn /\ handler.con <= made
         /\ conn[handler.con].cont \in Containers /\ conn[handler.con].pid \in 1 .. MaxPid
         /\ \A q \in Reqs \ {handler.req} : req[q].act = "addConn" => req[q].con # handler.con
<1>1. handler.req \in Reqs /\ handler.con \in 1 .. made /\ req[handler.req].con = handler.con
  BY DEF IInv, Served, AddPcs
<1>2. handler.con \in Conn /\ handler.con <= made
  BY <1>1, ConnectionsAssumption DEF IInv, TypeOK, Conn
<1>3. conn[handler.con].cont \in Containers /\ conn[handler.con].pid \in 1 .. MaxPid
  BY <1>2, ConnectionsAssumption DEF IInv, TypeOK, Made
<1>4. \A q \in Reqs \ {handler.req} : req[q].act = "addConn" => req[q].con # handler.con
  BY <1>1 DEF IInv, Added
<1> QED BY <1>1, <1>2, <1>3, <1>4

(* The request is answered. *)
LEMMA ReplyProps ==
  ASSUME IInv, handler.pc # "recv", Reply, made' = made
  PROVE  /\ req' \in [Reqs -> ReqType] /\ handler' = Waiting /\ handler' \in HandlerType
         /\ \A q \in Reqs : req'[q].act = "addConn" =>
              req'[q] = req[q] /\ req[q].con # handler.con /\ q # handler.req
         /\ \A q \in Reqs : req'[q] = req[q] \/ req'[q] = NoReq
         /\ Served'
<1>1. handler.req \in Reqs /\ req \in [Reqs -> ReqType]
  BY HandlerProps, Types DEF IInv
<1>2. NoReq \in ReqType /\ NoReq.pc = "idle" /\ NoReq.act = "none" /\ NoReq.con = None
  BY DEF NoReq, ReqType
<1>3. Waiting \in HandlerType /\ Waiting.pc = "recv" /\ Waiting.con = None
  BY DEF Waiting, HandlerType
<1>4. /\ req' = [req EXCEPT ![handler.req] = NoReq] /\ handler' = Waiting
  BY DEF Reply
<1>5. /\ req' \in [Reqs -> ReqType] /\ req'[handler.req] = NoReq
      /\ \A q \in Reqs \ {handler.req} : req'[q] = req[q]
  BY <1>1, <1>2, <1>4
<1>6. Served'
  BY <1>2, <1>3, <1>4, <1>5 DEF IInv, Served
<1> QED BY <1>2, <1>3, <1>4, <1>5, <1>6, HandlerProps

(* A step that leaves the Connections, the bitmap and the exceptions       *)
(* alone: what is said of them stays, and the two invariants about what    *)
(* the handler works on change only with the handler.                      *)
core == <<connections, conn, marked, made, unmarked, stale, orphaned>>

LEMMA CoreStays ==
  ASSUME IInv, UNCHANGED core
  PROVE  Made' /\ \A o : (InMap(o)' <=> InMap(o)) /\ (Blank(o)' <=> Blank(o))
  BY DEF IInv, core, Made, InMap, Blank

(* Steps of others than the requests and the handler. *)
LEMMA BystanderIInv ==
  ASSUME IInv, TypeOK', UNCHANGED <<core, req, handler>>
  PROVE  IInv'
<1>1. Made' /\ \A o : (InMap(o)' <=> InMap(o)) /\ (Blank(o)' <=> Blank(o))
  BY CoreStays
<1>2. Served' /\ Added' /\ Removed'
  BY <1>1 DEF IInv, core, Served, Added, Removed
<1>3. Connected' /\ NothingLost'
  BY <1>1 DEF IInv, core, Connected, Addressed, NothingLost, Deleting
<1> QED BY <1>1, <1>2, <1>3 DEF IInv

LEMMA RestartIInv ==
  ASSUME IInv, NEW c \in Containers, Restart(c)
  PROVE  IInv'
<1>1. TypeOK'
  BY ConnectionsAssumption DEF IInv, TypeOK, Restart, history
<1> QED BY <1>1, BystanderIInv DEF Restart, history, core

(* The monitor of a connection, whether it panics or not. *)
LEMMA getInterfaceInfoIInv ==
  ASSUME IInv, NEW o \in Conn, getInterfaceInfo(o)
  PROVE  IInv'
<1>1. CASE ReadCounters(o)
  <2>1. crashed' \in BOOLEAN
    BY <1>1, Zenon DEF ReadCounters
  <2>2. monitor' \in [Conn -> {"none", "read", "check", "done"}]
    BY <1>1 DEF IInv, TypeOK, ReadCounters
  <2>3. {crashed', unmarked', stale', orphaned'} \subseteq BOOLEAN
    BY <1>1, <2>1 DEF IInv, TypeOK, ReadCounters, history
  <2>4. TypeOK'
    BY <1>1, <2>2, <2>3 DEF IInv, TypeOK, ReadCounters, history
  <2> QED BY <1>1, <2>4, BystanderIInv DEF ReadCounters, history, core
<1>2. CASE CheckDeleted(o)
  <2>1. TypeOK'
    BY <1>2 DEF IInv, TypeOK, CheckDeleted, history
  <2> QED BY <1>2, <2>1, BystanderIInv DEF CheckDeleted, history, core
<1> QED BY <1>1, <1>2 DEF getInterfaceInfo

(* A request to add takes a Connection nobody has had. *)
LEMMA createConnIInv ==
  ASSUME IInv, NEW q \in Reqs, createConn(q)
  PROVE  IInv'
<1> DEFINE n == made + 1
           r == [pc |-> "send", act |-> "addConn", con |-> n]
<1>1. /\ req[q].pc = "idle" /\ made' = n /\ n \in Conn /\ made \in Nat
      /\ req' = [req EXCEPT ![q] = r]
      /\ UNCHANGED <<connections, monitor, handler, pid, netns, marked, dels,
                     faults, starts, crashed, unmarked, stale, orphaned>>
  BY SMTT(30), ConnectionsAssumption DEF IInv, TypeOK, createConn, Unused, Conn, history
<1>2. PICK c \in Containers :
        conn' = [conn EXCEPT ![n] = [NoConn EXCEPT !.cont = c, !.pid = pid[c]]]
  BY Zenon DEF createConn
<1>3. conn \in [Conn -> ConnType] /\ req \in [Reqs -> ReqType] /\ handler \in HandlerType
  BY Types DEF IInv
<1>4. pid[c] \in 1 .. MaxPid
  BY DEF IInv, TypeOK
<1> DEFINE x == [NoConn EXCEPT !.cont = c, !.pid = pid[c]]
<1>5. NoConn \in ConnType /\ NoConn.port = FALSE /\ NoConn.ip = 0
  <2>1. 0 \in 0 .. Hosts + 1 /\ 0 \in 0 .. MaxPid
    BY ConnectionsAssumption
  <2> QED BY <2>1, Zenon DEF ConnType, NoConn, None
<1>6. x \in ConnType /\ x.cont = c /\ x.pid = pid[c] /\ x.port = FALSE /\ x.ip = 0
  <2>1. pid[c] \in 0 .. MaxPid
    BY <1>4, ConnectionsAssumption
  <2> QED BY Zenon, <1>5, <2>1 DEF ConnType
<1> HIDE DEF x
<1>7. /\ conn' \in [Conn -> ConnType] /\ conn'[n] = x
      /\ \A o \in Conn \ {n} : conn'[o] = conn[o]
  BY <1>1, <1>2, <1>3, <1>6 DEF x
<1>8. /\ req' \in [Reqs -> ReqType] /\ req'[q] = r
      /\ \A p \in Reqs \ {q} : req'[p] = req[p]
  BY <1>1, <1>3 DEF ReqType
<1>9. TypeOK'
  <2>1. made' \in 0 .. MaxConns
    BY <1>1 DEF Conn
  <2> QED BY <1>1, <1>7, <1>8, <2>1 DEF IInv, TypeOK, ConnType, ReqType
<1>10. /\ \A d \in Containers : connections[d] # n
       /\ \A p \in Reqs : req[p].con # n
       /\ handler.con # n /\ ~conn[n].port /\ conn[n].ip = 0
  <2>1. \A d \in Containers : connections[d] # n
    BY <1>1 DEF IInv, TypeOK, Made, None, Conn
  <2>2. \A p \in Reqs : req[p].con # n
    BY <1>1 DEF IInv, Served, None
  <2>3. handler.con # n
    BY <1>1, HandlerProps DEF IInv, Served, None
  <2>4. ~conn[n].port /\ conn[n].ip = 0
    BY <1>1 DEF IInv, Made, Blank
  <2> QED BY <2>1, <2>2, <2>3, <2>4
<1>11. /\ \A o \in Conn : conn'[o].port = conn[o].port /\ conn'[o].ip = conn[o].ip
       /\ \A o \in Conn : (Blank(o)' <=> Blank(o))
       /\ \A o : (InMap(o)' <=> InMap(o))
  <2>1. \A o \in Conn : conn'[o].port = conn[o].port /\ conn'[o].ip = conn[o].ip
    <3>1. conn[n].port = FALSE
      BY <1>1, <1>3, <1>10, Zenon DEF ConnType
    <3> QED BY Zenon, <1>6, <1>7, <1>10, <3>1
  <2> QED BY <1>1, <2>1 DEF Blank, InMap
<1>12. Made'
  <2>1. \A o \in Conn : o <= n <=> o <= made \/ o = n
    BY <1>1 DEF Conn
  <2>2. \A o \in Conn : o <= n => conn'[o].cont \in Containers /\ conn'[o].pid # 0
    BY <1>4, <1>6, <1>7, <2>1 DEF IInv, Made
  <2>3. \A o \in Conn : ~(o <= n) => Blank(o)'
    BY <1>11, <2>1 DEF IInv, Made
  <2>4. \A d \in Containers : connections[d] # None =>
          connections[d] <= n /\ conn'[connections[d]].cont = d
    BY <1>1, <1>7, <1>10, <2>1 DEF IInv, TypeOK, Made, None
  <2> QED BY <1>1, <2>2, <2>3, <2>4 DEF Made
<1>13. Served'
  <2>1. q # handler.req \/ handler.pc = "recv"
    BY <1>1 DEF IInv, Served
  <2>2. \A p \in Reqs : IF req'[p].act = "none" THEN req'[p].con = None
                        ELSE req'[p].con \in 1 .. n
    BY <1>1, <1>8 DEF IInv, Served
  <2>3. \A p \in Reqs : req'[p].pc = "idle" <=> req'[p].act = "none"
    BY <1>8 DEF IInv, Served
  <2> QED BY SMTT(30), <1>1, <1>8, <2>1, <2>2, <2>3 DEF IInv, Served
<1>14. Added'
  <2>1. \A p \in Reqs : req[p].act # "none" => req[p].con \in Conn
    BY <1>1, ConnectionsAssumption DEF IInv, Served, Conn, TypeOK
  <2>2. \A p \in Reqs : req'[p].act = "addConn" =>
          /\ \A d \in Containers : connections'[d] # req'[p].con
          /\ \A s \in Reqs \ {p} : req'[s].con # req'[p].con
          /\ req'[p].pc = "send" => ~conn'[req'[p].con].port /\ conn'[req'[p].con].ip = 0
    <3> SUFFICES ASSUME NEW p \in Reqs, req'[p].act = "addConn"
                 PROVE  /\ \A d \in Containers : connections[d] # req'[p].con
                        /\ \A s \in Reqs \ {p} : req'[s].con # req'[p].con
                        /\ req'[p].pc = "send" =>
                             ~conn'[req'[p].con].port /\ conn'[req'[p].con].ip = 0
      BY <1>1
    <3>1. CASE p = q
      <4>1. req'[p].con = n
        BY <1>8, <3>1
      <4> QED BY <1>1, <1>6, <1>7, <1>8, <1>10, <3>1, <4>1
    <3>2. CASE p # q
      <4>1. req'[p] = req[p] /\ req[p].con \in Conn \ {n}
        BY <1>8, <1>10, <2>1, <3>2
      <4>2. \A s \in Reqs \ {p} : req'[s].con # req'[p].con
        BY <1>8, <4>1 DEF IInv, Added
      <4>3. conn'[req[p].con] = conn[req[p].con]
        BY <1>7, <4>1
      <4> QED BY <4>1, <4>2, <4>3 DEF IInv, Added, InMap, Blank
    <3> QED BY <3>1, <3>2
  <2>3. handler.pc # "recv" => conn'[handler.con] = conn[handler.con]
    BY <1>7, <1>10, HandlerProps
  <2>4. /\ handler.pc \in {"getNetwork", "createPort"} => Blank(handler.con)'
        /\ handler.pc = "requestIP" => conn'[handler.con].ip = 0
        /\ handler.pc \in {"attach", "set"} => conn'[handler.con].ip # 0
        /\ handler.pc = "set" => conn'[handler.con].port
    BY <1>1, <2>3 DEF IInv, Added, Blank
  <2> QED BY <1>1, <2>2, <2>4 DEF Added, InMap, Blank
<1>15. Removed'
  <2>1. handler.pc # "recv" => handler.con \in Conn \ {n}
    BY <1>10, HandlerProps
  <2> QED BY <1>1, <1>7, <1>11, <2>1 DEF IInv, Removed
<1>16. Connected' /\ NothingLost'
  <2>1. Connected'
    BY <1>1, <1>11 DEF IInv, Connected, Addressed, Deleting
  <2>2. NothingLost'
    BY <1>1, <1>11 DEF IInv, NothingLost
  <2> QED BY <2>1, <2>2
<1> QED BY <1>9, <1>12, <1>13, <1>14, <1>15, <1>16 DEF IInv

(* A request to delete takes a Connection from d.connections, which no     *)
(* request is to add.                                                      *)
LEMMA delConnIInv ==
  ASSUME IInv, NEW q \in Reqs, delConn(q)
  PROVE  IInv'
<1>1. /\ req[q].pc = "idle" /\ dels < MaxDels /\ dels' = dels + 1
      /\ UNCHANGED <<core, monitor, handler, pid, netns, faults, starts, crashed>>
  BY DEF delConn, Unused, core, history
<1>2. PICK c \in Containers :
        /\ connections[c] # None
        /\ req' = [req EXCEPT ![q] =
             [pc |-> "send", act |-> "deleteConn", con |-> connections[c]]]
  BY Zenon DEF delConn
<1> DEFINE r == [pc |-> "send", act |-> "deleteConn", con |-> connections[c]]
<1>3. connections[c] \in Conn /\ connections[c] \in 1 .. made
  BY <1>2, ConnectionsAssumption DEF IInv, TypeOK, Made, Conn, None
<1>4. r \in ReqType /\ r.pc = "send" /\ r.act = "deleteConn" /\ r.con = connections[c]
  BY <1>3 DEF ReqType
<1> HIDE DEF r
<1>5. /\ req' \in [Reqs -> ReqType] /\ req'[q] = r
      /\ \A p \in Reqs \ {q} : req'[p] = req[p]
  BY <1>2, <1>4, Types DEF IInv, r
<1>6. TypeOK'
  <2>1. dels' \in 0 .. MaxDels
    BY <1>1, ConnectionsAssumption DEF IInv, TypeOK
  <2> QED BY <1>1, <1>5, <2>1 DEF IInv, TypeOK, core, ReqType
<1>7. Made' /\ \A o : (InMap(o)' <=> InMap(o)) /\ (Blank(o)' <=> Blank(o))
  BY <1>1, CoreStays
<1>8. Served'
  <2>1. q # handler.req \/ handler.pc = "recv"
    BY <1>1 DEF IInv, Served
  <2> QED BY <1>1, <1>3, <1>4, <1>5, <2>1 DEF IInv, Served, core
<1>9. Added'
  <2>1. \A p \in Reqs : req'[p].act = "addConn" =>
          p # q /\ req'[p] = req[p] /\ req[p].con # connections[c]
    BY <1>4, <1>5 DEF IInv, Added, InMap
  <2>2. \A p \in Reqs : req'[p].act = "addConn" =>
          /\ \A d \in Containers : connections[d] # req'[p].con
          /\ \A s \in Reqs \ {p} : req'[s].con # req'[p].con
          /\ req'[p].pc = "send" => ~conn[req'[p].con].port /\ conn[req'[p].con].ip = 0
    BY SMTT(30), <1>4, <1>5, <2>1 DEF IInv, Added, InMap, Blank
  <2> QED BY <1>1, <2>2 DEF IInv, Added, InMap, Blank, core
<1>10. Removed' /\ Connected' /\ NothingLost'
  BY <1>1, <1>7 DEF IInv, core, Removed, Connected, Addressed, NothingLost, Deleting
<1> QED BY <1>6, <1>7, <1>8, <1>9, <1>10 DEF IInv

(* The handler, which worked on nothing, starts. *)
LEMMA ReceiveIInv ==
  ASSUME IInv, NEW q \in Reqs, Receive(q)
  PROVE  IInv'
<1> DEFINE h == [pc |-> IF req[q].act = "addConn" THEN "getNetwork" ELSE "deletePort",
                 req |-> q, con |-> req[q].con]
<1>1. /\ handler.pc = "recv" /\ req[q].pc = "send" /\ handler' = h
      /\ req' = [req EXCEPT ![q].pc = "wait"]
      /\ UNCHANGED <<core, monitor, pid, netns, dels, faults, starts, crashed>>
  BY DEF Receive, core, history
<1>2. req \in [Reqs -> ReqType] /\ req[q] \in ReqType
  BY Types DEF IInv
<1>3. req[q].act \in {"addConn", "deleteConn"} /\ req[q].con \in 1 .. made
  BY <1>1, <1>2 DEF IInv, Served, ReqType
<1>4. /\ req' \in [Reqs -> ReqType] /\ req'[q].pc = "wait" /\ req'[q].act = req[q].act
      /\ req'[q].con = req[q].con /\ \A p \in Reqs \ {q} : req'[p] = req[p]
  <2>1. /\ [req[q] EXCEPT !.pc = "wait"] \in ReqType
        /\ [req[q] EXCEPT !.pc = "wait"].pc = "wait"
        /\ [req[q] EXCEPT !.pc = "wait"].act = req[q].act
        /\ [req[q] EXCEPT !.pc = "wait"].con = req[q].con
    BY <1>2 DEF ReqType
  <2> QED BY <1>1, <1>2, <2>1
<1>5. /\ h \in HandlerType /\ h.req = q /\ h.con = req[q].con
      /\ h.pc = IF req[q].act = "addConn" THEN "getNetwork" ELSE "deletePort"
  BY <1>2 DEF HandlerType, ReqType
<1> HIDE DEF h
<1>6. TypeOK'
  BY <1>1, <1>4, <1>5 DEF IInv, TypeOK, core, ReqType, HandlerType
<1>7. Made' /\ \A o : (InMap(o)' <=> InMap(o)) /\ (Blank(o)' <=> Blank(o))
  BY <1>1, CoreStays
<1>8. Served'
  <2>1. \A p \in Reqs : /\ req'[p].act = req[p].act /\ req'[p].con = req[p].con
                        /\ req'[p].pc = "idle" <=> req[p].pc = "idle"
    BY <1>1, <1>4
  <2>2. h.pc # "recv" /\ (h.pc \in AddPcs <=> req[q].act = "addConn")
    BY <1>5 DEF AddPcs
  <2> QED BY <1>1, <1>3, <1>4, <1>5, <2>1, <2>2 DEF IInv, Served, core
<1>9. Added'
  <2>1. \A p \in Reqs : /\ req'[p].act = req[p].act /\ req'[p].con = req[p].con
                        /\ req'[p].pc = "send" => req[p].pc = "send"
    BY <1>4
  <2>2. \A p \in Reqs : req'[p].act = "addConn" =>
          /\ \A d \in Containers : connections[d] # req'[p].con
          /\ \A s \in Reqs \ {p} : req'[s].con # req'[p].con
          /\ req'[p].pc = "send" => ~conn[req'[p].con].port /\ conn[req'[p].con].ip = 0
    BY <2>1 DEF IInv, Added, InMap, Blank
  <2>3. h.pc = "getNetwork" => ~conn[h.con].port /\ conn[h.con].ip = 0
    BY <1>1, <1>5 DEF IInv, Added, Blank
  <2> QED BY <1>1, <1>5, <2>2, <2>3 DEF Added, InMap, Blank, core
<1>10. Removed'
  BY <1>1, <1>5 DEF Removed
<1>11. handler.con = None /\ None \notin Conn
  BY <1>1 DEF IInv, Served, Conn, None
<1>12. Connected' /\ NothingLost'
  BY <1>1, <1>5, <1>7, <1>11 DEF IInv, core, Connected, Addressed, NothingLost, Deleting
<1> QED BY <1>6, <1>7, <1>8, <1>9, <1>10, <1>12 DEF IInv

(* The handler goes on with its request. *)
LEMMA HandlerMoves ==
  ASSUME IInv, handler.pc # "recv", req' = req, made' = made,
         NEW label \in {"createPort", "requestIP", "attach", "set", "releaseIP", "unset"},
         handler.pc \in AddPcs <=> label \in AddPcs,
         handler' = [handler EXCEPT !.pc = label]
  PROVE  /\ Served' /\ handler' \in HandlerType
         /\ handler'.pc = label /\ handler'.con = handler.con /\ handler'.req = handler.req
<1>1. handler \in HandlerType
  BY Types DEF IInv
<1>2. /\ handler' \in HandlerType /\ handler'.pc = label
      /\ handler'.con = handler.con /\ handler'.req = handler.req
  BY <1>1 DEF HandlerType
<1>3. Served'
  BY SMTT(30), <1>2 DEF IInv, Served
<1> QED BY <1>2, <1>3

(* What a request that is to add a Connection relies on, when only the     *)
(* Connection of the handler changes.                                      *)
LEMMA OthersAdded ==
  ASSUME IInv, handler.pc # "recv",
         \A o \in Conn \ {handler.con} : conn'[o] = conn[o],
         \A q \in Reqs : req'[q] = req[q] \/ req'[q] = NoReq,
         \A c \in Containers : connections'[c] \in {connections[c], None, handler.con},
         \A c \in Containers : connections'[c] = handler.con =>
           connections[c] = handler.con \/ req'[handler.req].act # "addConn"
  PROVE  \A q \in Reqs : req'[q].act = "addConn" =>
           /\ \A c \in Containers : connections'[c] # req'[q].con
           /\ \A p \in Reqs \ {q} : req'[p].con # req'[q].con
           /\ req'[q].pc = "send" => ~conn'[req'[q].con].port /\ conn'[req'[q].con].ip = 0
<1> SUFFICES ASSUME NEW q \in Reqs, req'[q].act = "addConn"
             PROVE  /\ \A c \in Containers : connections'[c] # req'[q].con
                    /\ \A p \in Reqs \ {q} : req'[p].con # req'[q].con
                    /\ req'[q].pc = "send" =>
                         ~conn'[req'[q].con].port /\ conn'[req'[q].con].ip = 0
  OBVIOUS
<1>1. NoReq.act = "none" /\ NoReq.con = None
  BY DEF NoReq
<1>2. req'[q] = req[q] /\ req[q].con \in Conn /\ req[q].con # None
  BY SMTT(30), <1>1, ConnectionsAssumption DEF IInv, TypeOK, Served, Conn, None
<1>3. \A p \in Reqs \ {q} : req'[p].con # req'[q].con
  BY <1>1, <1>2 DEF IInv, Added
<1>4. \A c \in Containers : connections[c] # req[q].con
  BY <1>2 DEF IInv, Added, InMap
<1>5. CASE q = handler.req
  <2>1. req[q].pc = "wait" /\ req[q].con = handler.con
    BY SMTT(30), <1>5 DEF IInv, Served
  <2> QED BY <1>2, <1>3, <1>4, <1>5, <2>1
<1>6. CASE q # handler.req
  <2>1. req[q].con # handler.con
    BY <1>2, <1>6, HandlerProps
  <2>2. req[q].pc = "send" => ~conn[req[q].con].port /\ conn[req[q].con].ip = 0
    BY <1>2 DEF IInv, Added, Blank
  <2> QED BY <1>2, <1>3, <1>4, <2>1, <2>2
<1> QED BY <1>5, <1>6

LEMMA MadeStays ==
  ASSUME Made, connections' = connections, conn' = conn, made' = made
  PROVE  Made'
  BY DEF Made, Blank

LEMMA FaultType ==
  ASSUME IInv, faults' = faults \/ (mayFail /\ faults' = faults + 1)
  PROVE  faults' \in 0 .. MaxFaults
  BY ConnectionsAssumption DEF IInv, TypeOK, mayFail

(* addConnection without the network: nothing was done. *)
LEMMA GetNetworkIInv ==
  ASSUME IInv, GetNetwork
  PROVE  IInv'
<1>1. /\ handler.pc = "getNetwork"
      /\ UNCHANGED <<core, monitor, pid, netns, dels, starts, crashed>>
      /\ faults' = faults \/ (mayFail /\ faults' = faults + 1)
  BY DEF GetNetwork, Fault, core, history
<1>2. faults' \in 0 .. MaxFaults
  BY SMTT(30), <1>1, FaultType
<1>3. /\ handler.pc # "recv" /\ ~conn[handler.con].port /\ conn[handler.con].ip = 0
  BY <1>1 DEF IInv, Added, Blank
<1>4. Made' /\ \A o : (InMap(o)' <=> InMap(o)) /\ (Blank(o)' <=> Blank(o))
  BY <1>1, CoreStays
<1>5. /\ req' \in [Reqs -> ReqType] /\ handler' \in HandlerType /\ Served'
      /\ \A q \in Reqs : req'[q] = req[q] \/ req'[q] = NoReq
      /\ \/ handler'.pc = "createPort" /\ handler'.con = handler.con
         \/ handler'.pc = "recv" /\ handler'.con = None
  <2>1. CASE handler' = [handler EXCEPT !.pc = "createPort"] /\ req' = req
    BY <1>1, <2>1, HandlerMoves, Types DEF IInv, AddPcs, core
  <2>2. CASE Reply
    BY <1>1, <2>2, ReplyProps DEF core, Waiting
  <2> QED BY Zenon, <2>1, <2>2 DEF GetNetwork
<1>6. TypeOK'
  BY <1>1, <1>2, <1>5 DEF IInv, TypeOK, core, ReqType, HandlerType
<1>7. Added'
  <2>1. \A q \in Reqs : req'[q].act = "addConn" =>
          /\ \A c \in Containers : connections'[c] # req'[q].con
          /\ \A p \in Reqs \ {q} : req'[p].con # req'[q].con
          /\ req'[q].pc = "send" => ~conn'[req'[q].con].port /\ conn'[req'[q].con].ip = 0
    BY SMTT(30), <1>1, <1>3, <1>5, OthersAdded DEF core
  <2> QED BY SMTT(30), <1>1, <1>3, <1>5, <2>1 DEF Added, InMap, Blank, core
<1>8. Removed'
  BY <1>5 DEF Removed
<1>9. Connected'
  BY SMTT(30), <1>1, <1>4, <1>5 DEF IInv, core, Connected, Addressed, Deleting
<1>10. NothingLost'
  <2>1. \A b \in marked \ {0} : b + 1 # 0
    BY DEF IInv, TypeOK
  <2> QED BY <1>1, <1>3, <1>4, <1>5, <2>1 DEF IInv, core, NothingLost
<1> QED BY <1>4, <1>5, <1>6, <1>7, <1>8, <1>9, <1>10 DEF IInv

(* The port is created, or not; no address is touched. *)
LEMMA createOvsInternalPortIInv ==
  ASSUME IInv, createOvsInternalPort
  PROVE  IInv'
<1> DEFINE o == handler.con
<1>1. /\ handler.pc = "createPort" /\ handler.pc # "recv"
      /\ handler' = [handler EXCEPT !.pc = "requestIP"]
      /\ UNCHANGED <<connections, monitor, req, pid, netns, marked, made, dels, starts,
                     crashed, unmarked, stale, orphaned>>
      /\ faults' = faults \/ (mayFail /\ faults' = faults + 1)
  BY DEF createOvsInternalPort, Fault, history
<1>2. faults' \in 0 .. MaxFaults
  BY <1>1, FaultType
<1>3. /\ o \in Conn /\ o <= made /\ conn \in [Conn -> ConnType] /\ conn[o] \in ConnType
      /\ ~conn[o].port /\ conn[o].ip = 0
  BY <1>1, HandlerProps, Types DEF IInv, Added, Blank
<1>4. /\ Served' /\ handler' \in HandlerType
      /\ handler'.pc = "requestIP" /\ handler'.con = o
  BY <1>1, HandlerMoves DEF AddPcs
<1>5. /\ conn' \in [Conn -> ConnType]
      /\ \A u \in Conn \ {o} : conn'[u] = conn[u]
      /\ conn'[o].cont = conn[o].cont /\ conn'[o].pid = conn[o].pid /\ conn'[o].ip = 0
  <2>1. CASE conn' = [conn EXCEPT ![o].port = TRUE]
    <3>1. conn'[o] = [conn[o] EXCEPT !.port = TRUE]
      BY Zenon, <1>3, <2>1
    <3>2. conn'[o] \in ConnType
      BY Zenon, <1>3, <3>1 DEF ConnType
    <3>3. conn'[o].cont = conn[o].cont /\ conn'[o].pid = conn[o].pid /\ conn'[o].ip = 0
      BY <1>3, <3>1 DEF ConnType
    <3> QED BY <1>3, <2>1, <3>2, <3>3
  <2>2. CASE conn' = conn
    BY <1>3, <2>2
  <2> QED BY Zenon, <2>1, <2>2 DEF createOvsInternalPort
<1>6. TypeOK'
  BY <1>1, <1>2, <1>4, <1>5 DEF IInv, TypeOK, ConnType, HandlerType
<1>7. Made'
  <2>1. \A u \in Conn : conn'[u].cont = conn[u].cont /\ conn'[u].pid = conn[u].pid
    BY <1>5
  <2>2. \A c \in Containers : connections[c] # None => connections[c] \in Conn
    BY DEF IInv, TypeOK
  <2> QED BY <1>1, <1>3, <1>5, <2>1, <2>2 DEF IInv, Made, Blank
<1>8. Added'
  <2>1. \A q \in Reqs : req'[q].act = "addConn" =>
          /\ \A c \in Containers : connections'[c] # req'[q].con
          /\ \A p \in Reqs \ {q} : req'[p].con # req'[q].con
          /\ req'[q].pc = "send" => ~conn'[req'[q].con].port /\ conn'[req'[q].con].ip = 0
    BY <1>1, <1>5, OthersAdded
  <2> QED BY <1>4, <1>5, <2>1 DEF Added, InMap, Blank
<1>9. Removed'
  BY SMTT(30), <1>4 DEF Removed
<1>10. Connected'
  <2>1. \A u \in Conn : Addressed(u)' <=> Addressed(u)
    BY <1>3, <1>5 DEF Addressed, None
  <2>2. \A u \in Conn : (InMap(u)' <=> InMap(u)) /\ ~Deleting(u) /\ ~Deleting(u)'
    BY <1>1, <1>4 DEF InMap, Deleting
  <2>3. \A u \in Conn : Addressed(u) => u # o /\ conn'[u] = conn[u] /\ conn[u].ip # 0
    BY <1>3, <1>5 DEF Addressed, None
  <2> QED BY <1>1, <1>5, <2>1, <2>2, <2>3 DEF IInv, Connected
<1>11. NothingLost'
  <2>1. \A u \in Conn : conn'[u].ip = conn[u].ip /\ (u # o => conn'[u] = conn[u])
    BY <1>3, <1>5
  <2>2. \A u \in Conn : InMap(u)' <=> InMap(u)
    BY <1>1 DEF InMap
  <2> QED BY <1>1, <1>4, <2>1, <2>2 DEF IInv, NothingLost
<1> QED BY <1>4, <1>6, <1>7, <1>8, <1>9, <1>10, <1>11 DEF IInv

(* The address RequestIP hands out: unless an exception is recorded it was *)
(* free and is the one marked now.                                         *)
LEMMA Granted ==
  ASSUME IInv, RequestIP
  PROVE  /\ conn' \in [Conn -> ConnType] /\ marked' \subseteq 0 .. Hosts - 1
         /\ unmarked' \in BOOLEAN
         /\ conn'[handler.con].cont = conn[handler.con].cont
         /\ conn'[handler.con].pid = conn[handler.con].pid
         /\ conn'[handler.con].port = conn[handler.con].port
         /\ conn'[handler.con].ip # 0
         /\ \A u \in Conn \ {handler.con} : conn'[u] = conn[u]
         /\ ~unmarked' => /\ ~unmarked
                          /\ conn'[handler.con].ip - 1 \notin marked
                          /\ marked' = marked \cup {conn'[handler.con].ip - 1}
         /\ faults' \in 0 .. MaxFaults
<1> DEFINE o == handler.con
           t == TestAndSet(marked, Hosts)
           G == {[bits |-> t.bits, pos |-> t.pos]}
                \cup {[bits |-> Set(marked, a - 1), pos |-> a] : a \in Chosen}
<1>1. PICK pool \in BOOLEAN, g \in G :
        /\ pool \/ mayFail
        /\ Fault(~pool)
        /\ conn' = [conn EXCEPT ![o].ip = g.pos]
        /\ marked' = IF pool THEN g.bits ELSE marked
        /\ unmarked' = (unmarked \/ ~pool \/ g.bits = marked)
  BY Zenon DEF RequestIP
<1>2. handler.pc # "recv"
  BY DEF RequestIP
<1>3. Hosts \in Nat /\ marked \in SUBSET (0 .. Hosts - 1) /\ Chosen \subseteq 1 .. Hosts
  BY SMTT(30), ConnectionsAssumption DEF IInv, TypeOK
<1>4. /\ g.pos \in 1 .. Hosts + 1 /\ g.bits \subseteq 0 .. Hosts - 1
      /\ g.bits = marked \/ (g.pos - 1 \notin marked /\ g.bits = marked \cup {g.pos - 1})
  <2>1. CASE g = [bits |-> t.bits, pos |-> t.pos]
    <3>1. \/ /\ t.pos - 1 \in (0 .. Hosts - 1) \ marked
             /\ t.bits = marked \cup {t.pos - 1}
          \/ /\ t.pos - 1 = Hosts
             /\ t.bits = marked
      BY <1>3, TestAndSetTakesSmallestFree
    <3>2. t.pos \in Int
      <4>1. CASE Free(marked, Hosts) = {}
        BY <1>3, <4>1 DEF TestAndSet
      <4>2. CASE Free(marked, Hosts) # {}
        <5>1. Smallest(Free(marked, Hosts)) \in Int
          BY <1>3, <4>2, SmallestProps DEF Free
        <5> QED BY <4>2, <5>1 DEF TestAndSet
      <4> QED BY <4>1, <4>2
    <3>3. g.bits = t.bits /\ g.pos = t.pos
      BY <2>1
    <3> HIDE DEF t
    <3>4. t.pos \in 1 .. Hosts + 1
      BY <1>3, <3>1, <3>2
    <3>5. t.bits \subseteq 0 .. Hosts - 1
      <4>1. CASE t.bits = marked
        BY <1>3, <4>1
      <4>2. CASE t.pos - 1 \in 0 .. Hosts - 1 /\ t.bits = marked \cup {t.pos - 1}
        BY Zenon, <1>3, <4>2
      <4> QED BY <3>1, <4>1, <4>2
    <3> QED BY <3>1, <3>3, <3>4, <3>5
  <2>2. ASSUME NEW a \in Chosen, g = [bits |-> Set(marked, a - 1), pos |-> a]
        PROVE  /\ g.pos \in 1 .. Hosts + 1 /\ g.bits \subseteq 0 .. Hosts - 1
               /\ \/ g.bits = marked
                  \/ g.pos - 1 \notin marked /\ g.bits = marked \cup {g.pos - 1}
    BY <1>3, <2>2 DEF Set
  <2> QED BY <2>1, <2>2
<1> HIDE DEF G
<1>5. o \in Conn /\ conn \in [Conn -> ConnType] /\ conn[o] \in ConnType
  BY <1>2, HandlerProps, Types DEF IInv
<1>6. /\ conn' \in [Conn -> ConnType] /\ conn'[o].cont = conn[o].cont
      /\ conn'[o].pid = conn[o].pid /\ conn'[o].port = conn[o].port
      /\ conn'[o].ip = g.pos
      /\ \A u \in Conn \ {o} : conn'[u] = conn[u]
  <2> DEFINE x == [conn[o] EXCEPT !.ip = g.pos]
  <2>1. g.pos \in 0 .. Hosts + 1
    BY <1>3, <1>4
  <2>2. /\ x \in ConnType /\ x.cont = conn[o].cont /\ x.pid = conn[o].pid
        /\ x.port = conn[o].port /\ x.ip = g.pos
    BY Zenon, <1>5, <2>1 DEF ConnType
  <2>3. conn' = [conn EXCEPT ![o] = x]
    BY Zenon, <1>1, <1>5
  <2> HIDE DEF x
  <2> QED BY <1>5, <2>2, <2>3
<1>7. unmarked' \in BOOLEAN
  BY <1>1, Zenon
<1>8. ~unmarked' => ~unmarked /\ pool /\ g.bits # marked
  BY <1>1, Zenon
<1>9. marked' = g.bits \/ marked' = marked
  BY <1>1, Zenon
<1>10. pool => marked' = g.bits
  BY <1>1, Zenon
<1>11. faults' \in 0 .. MaxFaults
  <2>1. faults' = faults \/ (mayFail /\ faults' = faults + 1)
    BY <1>1, Zenon DEF Fault
  <2> QED BY <2>1, FaultType
<1> QED BY <1>3, <1>4, <1>6, <1>7, <1>8, <1>9, <1>10, <1>11

LEMMA RequestIPIInv ==
  ASSUME IInv, RequestIP
  PROVE  IInv'
<1> DEFINE o == handler.con
<1>1. /\ handler.pc = "requestIP" /\ handler.pc # "recv"
      /\ handler' = [handler EXCEPT !.pc = "attach"]
      /\ UNCHANGED <<connections, monitor, req, pid, netns, made, dels, starts,
                     crashed, stale, orphaned>>
  BY DEF RequestIP
<1>2. /\ conn' \in [Conn -> ConnType] /\ marked' \subseteq 0 .. Hosts - 1
      /\ unmarked' \in BOOLEAN
      /\ conn'[o].cont = conn[o].cont /\ conn'[o].pid = conn[o].pid
      /\ conn'[o].port = conn[o].port /\ conn'[o].ip # 0
      /\ \A u \in Conn \ {o} : conn'[u] = conn[u]
      /\ ~unmarked' => /\ ~unmarked /\ conn'[o].ip - 1 \notin marked
                       /\ marked' = marked \cup {conn'[o].ip - 1}
      /\ faults' \in 0 .. MaxFaults
  BY Granted
<1>3. /\ Served' /\ handler' \in HandlerType
      /\ handler'.pc = "attach" /\ handler'.con = o
  BY <1>1, HandlerMoves DEF AddPcs
<1>4. /\ o \in Conn /\ o <= made /\ conn[o].ip = 0
      /\ \A c \in Containers : connections[c] # o
  <2>1. conn[o].ip = 0
    BY <1>1 DEF IInv, Added
  <2>2. req[handler.req].act = "addConn" /\ req[handler.req].con = o
    BY <1>1 DEF IInv, Served, AddPcs
  <2>3. \A c \in Containers : connections[c] # o
    BY <1>1, <2>2, HandlerProps DEF IInv, Added, InMap
  <2> QED BY <1>1, <2>1, <2>3, HandlerProps
<1>5. TypeOK'
  <2>1. {crashed', unmarked', stale', orphaned'} \subseteq BOOLEAN
    BY <1>1, <1>2 DEF IInv, TypeOK
  <2> QED BY <1>1, <1>2, <1>3, <2>1 DEF IInv, TypeOK, ConnType, HandlerType
<1>6. Made'
  <2>1. \A u \in Conn : conn'[u].cont = conn[u].cont /\ conn'[u].pid = conn[u].pid
    BY <1>2
  <2>2. \A c \in Containers : connections[c] # None => connections[c] \in Conn
    BY DEF IInv, TypeOK
  <2> QED BY <1>1, <1>2, <1>4, <2>1, <2>2 DEF IInv, Made, Blank
<1>7. Added'
  <2>1. \A q \in Reqs : req'[q].act = "addConn" =>
          /\ \A c \in Containers : connections'[c] # req'[q].con
          /\ \A p \in Reqs \ {q} : req'[p].con # req'[q].con
          /\ req'[q].pc = "send" => ~conn'[req'[q].con].port /\ conn'[req'[q].con].ip = 0
    BY <1>1, <1>2, <1>4, OthersAdded
  <2> QED BY <1>2, <1>3, <2>1 DEF Added, InMap, Blank
<1>8. Removed'
  BY SMTT(30), <1>3 DEF Removed
<1>9. Connected'
  <2> SUFFICES ASSUME ~unmarked', ~stale'
               PROVE  /\ \A u \in Conn : InMap(u)' => Addressed(u)'
                      /\ \A u \in Conn : Addressed(u)' =>
                           /\ conn'[u].ip - 1 \in marked'
                           /\ \A v \in Conn \ {u} : conn'[v].port => conn'[v].ip # conn'[u].ip
    BY Zenon DEF Connected
  <2>1. /\ ~unmarked /\ ~stale /\ conn'[o].ip - 1 \notin marked
        /\ marked' = marked \cup {conn'[o].ip - 1}
    BY <1>1, <1>2
  <2>2. /\ \A u \in Conn : InMap(u) => Addressed(u)
        /\ \A u \in Conn : Addressed(u) =>
             /\ conn[u].ip - 1 \in marked
             /\ \A v \in Conn \ {u} : conn[v].port => conn[v].ip # conn[u].ip
    BY <1>1, <2>1 DEF IInv, Connected, Deleting
  <2>3. \A u \in Conn : InMap(u)' => InMap(u) /\ u # o
    BY <1>1, <1>4 DEF InMap
  <2>4. \A u \in Conn \ {o} : Addressed(u)' <=> Addressed(u)
    BY Zenon, <1>2 DEF Addressed
  <2>5. \A u \in Conn : Addressed(u)' => conn'[u].ip - 1 \in marked'
    BY <1>2, <2>1, <2>2, <2>4
  <2>6. \A u \in Conn \ {o} : conn'[u].port => conn'[u].ip # conn'[o].ip
    <3> SUFFICES ASSUME NEW u \in Conn \ {o}, conn'[u].port
                 PROVE  conn'[u].ip # conn'[o].ip
      OBVIOUS
    <3>1. CASE conn[u].ip = 0
      BY <1>2, <3>1
    <3>2. CASE conn[u].ip # 0
      <4>1. Addressed(u) /\ conn'[u] = conn[u]
        BY <1>2, <3>2 DEF Addressed, None
      <4> QED BY <2>1, <2>2, <4>1
    <3> QED BY <3>1, <3>2
  <2> QED BY <1>2, <1>4, <2>2, <2>3, <2>4, <2>5, <2>6
<1>10. NothingLost'
  <2> SUFFICES ASSUME ~unmarked', ~stale', ~orphaned'
               PROVE  /\ \A u \in Conn : conn'[u].port => InMap(u)' \/ u = o
                      /\ \A b \in marked' \ {0} : \E u \in Conn :
                           conn'[u].ip = b + 1 /\ (InMap(u)' \/ u = o)
    BY <1>3 DEF NothingLost
  <2>1. /\ ~unmarked /\ ~stale /\ ~orphaned
        /\ marked' = marked \cup {conn'[o].ip - 1}
    BY <1>1, <1>2
  <2>2. /\ \A u \in Conn : conn[u].port => InMap(u) \/ u = o
        /\ \A b \in marked \ {0} : \E u \in Conn :
             conn[u].ip = b + 1 /\ (InMap(u) \/ u = o)
    BY <2>1 DEF IInv, NothingLost
  <2>3. \A u \in Conn : InMap(u)' <=> InMap(u)
    BY <1>1 DEF InMap
  <2>4. \A b \in marked : b \in Int /\ b + 1 # 0
    BY DEF IInv, TypeOK
  <2>5. conn'[o].ip \in Int
    BY <1>2, <1>4, ConnectionsAssumption DEF ConnType
  <2>6. \A b \in marked' \ {0} : \E u \in Conn :
          conn'[u].ip = b + 1 /\ (InMap(u)' \/ u = o)
    <3> SUFFICES ASSUME NEW b \in marked' \ {0}
                 PROVE  \E u \in Conn : conn'[u].ip = b + 1 /\ (InMap(u)' \/ u = o)
      OBVIOUS
    <3>1. CASE b \in marked
      <4>1. PICK u \in Conn : conn[u].ip = b + 1 /\ (InMap(u) \/ u = o)
        BY <2>2, <3>1
      <4>2. u # o
        BY <1>4, <2>4, <3>1, <4>1
      <4> QED BY <1>2, <2>3, <4>1, <4>2
    <3>2. CASE b = conn'[o].ip - 1
      BY <1>4, <2>5, <3>2
    <3> QED BY <2>1, <3>1, <3>2
  <2> QED BY <1>2, <2>2, <2>3, <2>6
<1> QED BY <1>3, <1>5, <1>6, <1>7, <1>8, <1>9, <1>10 DEF IInv

(* addConnection goes on only with a port; on an error its port and its    *)
(* address have lost their Connection.                                     *)
LEMMA AttachIInv ==
  ASSUME IInv, Attach
  PROVE  IInv'
<1> DEFINE o == handler.con
<1>1. /\ handler.pc = "attach" /\ handler.pc # "recv" /\ netns' = netns \cup {Id(o)}
      /\ UNCHANGED <<connections, conn, monitor, pid, marked, made, dels, starts,
                     crashed, unmarked, stale>>
      /\ faults' = faults \/ (mayFail /\ faults' = faults + 1)
  BY DEF Attach, Fault
<1>2. faults' \in 0 .. MaxFaults
  BY <1>1, FaultType
<1>3. netns' \subseteq Containers \X (1 .. MaxPid)
  <2>1. Id(o) \in Containers \X (1 .. MaxPid)
    BY <1>1, HandlerProps DEF Id
  <2>2. netns \subseteq Containers \X (1 .. MaxPid)
    BY DEF IInv, TypeOK
  <2> QED BY <1>1, <2>1, <2>2
<1>4. \/ /\ req' = req /\ handler' = [handler EXCEPT !.pc = "set"]
         /\ orphaned' = orphaned /\ conn[o].port
      \/ Reply /\ orphaned' = TRUE
  BY Zenon DEF Attach
<1>5. /\ req' \in [Reqs -> ReqType] /\ handler' \in HandlerType /\ Served'
      /\ \A q \in Reqs : req'[q] = req[q] \/ req'[q] = NoReq
      /\ \/ /\ handler'.pc = "set" /\ handler'.con = o /\ conn[o].port
            /\ orphaned' = orphaned
         \/ handler'.pc = "recv" /\ orphaned' = TRUE
  <2>1. CASE /\ req' = req /\ handler' = [handler EXCEPT !.pc = "set"]
             /\ orphaned' = orphaned /\ conn[o].port
    BY <1>1, <2>1, HandlerMoves, Types DEF IInv, AddPcs
  <2>2. CASE Reply /\ orphaned' = TRUE
    <3>1. /\ req' \in [Reqs -> ReqType] /\ handler' \in HandlerType /\ Served'
          /\ \A q \in Reqs : req'[q] = req[q] \/ req'[q] = NoReq
          /\ handler' = Waiting
      BY <1>1, <2>2, ReplyProps
    <3>2. handler'.pc = "recv"
      BY SMTT(30), <3>1 DEF Waiting
    <3> QED BY ZenonT(30), <2>2, <3>1, <3>2
  <2> QED BY Zenon, <1>4, <2>1, <2>2
<1>6. TypeOK'
  <2>1. orphaned' \in BOOLEAN
    <3>1. orphaned \in BOOLEAN
      BY DEF IInv, TypeOK
    <3>2. orphaned' = orphaned \/ orphaned' = TRUE
      BY Zenon, <1>5
    <3> QED BY Zenon, <3>1, <3>2
  <2>2. {crashed', unmarked', stale', orphaned'} \subseteq BOOLEAN
    BY <1>1, <2>1 DEF IInv, TypeOK
  <2> QED BY <1>1, <1>2, <1>3, <1>5, <2>2 DEF IInv, TypeOK, ReqType, HandlerType
<1>7. Made'
  <2>1. connections' = connections /\ conn' = conn /\ made' = made /\ Made
    BY Zenon, <1>1 DEF IInv
  <2> QED BY <2>1, MadeStays
<1>8. Added'
  <2>1. connections' = connections /\ conn' = conn /\ handler.pc # "recv"
    BY <1>1
  <2>2. \A q \in Reqs : req'[q].act = "addConn" =>
          /\ \A c \in Containers : connections'[c] # req'[q].con
          /\ \A p \in Reqs \ {q} : req'[p].con # req'[q].con
          /\ req'[q].pc = "send" => ~conn'[req'[q].con].port /\ conn'[req'[q].con].ip = 0
    BY <1>5, <2>1, OthersAdded
  <2>3. /\ handler'.pc \notin {"getNetwork", "createPort", "requestIP", "attach"}
        /\ handler'.pc = "set" => conn'[handler'.con].port /\ conn'[handler'.con].ip # 0
    <3>1. conn[o].ip # 0
      BY <1>1 DEF IInv, Added
    <3> QED BY <1>5, <2>1, <3>1
  <2> QED BY Zenon, <2>2, <2>3 DEF Added, InMap, Blank
<1>9. Removed'
  BY Zenon, <1>5 DEF Removed
<1>10. Connected'
  BY <1>1, <1>5 DEF IInv, Connected, Addressed, InMap, Deleting
<1>11. NothingLost'
  <2>1. CASE orphaned'
    BY SMTT(30), <2>1 DEF NothingLost
  <2>2. CASE ~orphaned' /\ handler'.con = o /\ orphaned' = orphaned
    BY <1>1, <2>2 DEF IInv, NothingLost, InMap
  <2> QED BY <1>5, <2>1, <2>2
<1> QED BY <1>5, <1>6, <1>7, <1>8, <1>9, <1>10, <1>11 DEF IInv

(* The Connection is set, with its port; nothing else leaves               *)
(* d.connections unless that is recorded.                                  *)
LEMMA SetConnectionIInv ==
  ASSUME IInv, SetConnection
  PROVE  IInv'
<1> DEFINE o == handler.con
           c == conn[o].cont
<1>1. /\ handler.pc = "set" /\ handler.pc # "recv" /\ Reply
      /\ connections' = [connections EXCEPT ![c] = o]
      /\ monitor' = [monitor EXCEPT ![o] = "read"]
      /\ UNCHANGED <<conn, pid, netns, marked, made, dels, faults, starts, crashed,
                     unmarked, stale>>
  BY DEF SetConnection
<1>2. orphaned' \in BOOLEAN /\ (~orphaned' => ~orphaned /\ connections[c] = None)
  BY Zenon DEF SetConnection
<1>3. o \in Conn /\ o <= made /\ c \in Containers /\ conn[o].port /\ conn[o].ip # 0
  BY <1>1, HandlerProps DEF IInv, Added
<1>4. /\ req' \in [Reqs -> ReqType] /\ handler' \in HandlerType /\ Served'
      /\ \A q \in Reqs : req'[q] = req[q] \/ req'[q] = NoReq
      /\ handler'.pc = "recv" /\ handler'.con = None
      /\ \A q \in Reqs : req'[q].act = "addConn" => q # handler.req
  BY <1>1, ReplyProps DEF Waiting
<1>5. /\ connections' \in [Containers -> Conn \cup {None}] /\ connections'[c] = o
      /\ \A d \in Containers \ {c} : connections'[d] = connections[d]
  BY SMTT(30), <1>1, <1>3 DEF IInv, TypeOK
<1>6. TypeOK'
  <2>1. {crashed', unmarked', stale', orphaned'} \subseteq BOOLEAN
    BY <1>1, <1>2 DEF IInv, TypeOK
  <2>2. monitor' \in [Conn -> {"none", "read", "check", "done"}]
    BY ZenonT(30), <1>1 DEF IInv, TypeOK
  <2> QED BY <1>1, <1>4, <1>5, <2>1, <2>2 DEF IInv, TypeOK, ReqType, HandlerType
<1>7. Made'
  BY SMTT(30), <1>1, <1>3, <1>5 DEF IInv, Made, Blank
<1>8. Added'
  <2>1. \A q \in Reqs : req'[q].act = "addConn" =>
          /\ \A d \in Containers : connections'[d] # req'[q].con
          /\ \A p \in Reqs \ {q} : req'[p].con # req'[q].con
          /\ req'[q].pc = "send" => ~conn'[req'[q].con].port /\ conn'[req'[q].con].ip = 0
    BY SMTT(30), <1>1, <1>4, <1>5, HandlerProps, OthersAdded
  <2> QED BY SMTT(30), <1>1, <1>4, <2>1 DEF Added, InMap, Blank
<1>9. Removed'
  BY <1>4 DEF Removed
<1>10. \A u \in Conn : InMap(u)' => InMap(u) \/ u = o
  BY SMTT(30), <1>5 DEF InMap
<1>11. Connected'
  BY SMTT(30), <1>1, <1>3, <1>4, <1>10 DEF IInv, Connected, Addressed, Deleting, None
<1>12. NothingLost'
  <2>1. ~orphaned' => \A u \in Conn : InMap(u) \/ u = o => InMap(u)'
    BY <1>2, <1>3, <1>5 DEF InMap, None, Conn
  <2> QED BY Zenon, <1>1, <1>2, <2>1 DEF IInv, NothingLost
<1> QED BY <1>4, <1>6, <1>7, <1>8, <1>9, <1>11, <1>12 DEF IInv

-----------------------------------------------------------------------------
(* deleteConnection. *)

(* The port of a Connection in d.connections goes: until then nobody else  *)
(* had its address.                                                        *)
LEMMA DeletePortIInv ==
  ASSUME IInv, DeletePort
  PROVE  IInv'
<1> DEFINE o == handler.con
           c == conn[o].cont
<1>1. /\ handler.pc = "deletePort" /\ handler.pc # "recv"
      /\ handler' = [handler EXCEPT !.pc = "releaseIP"]
      /\ UNCHANGED <<connections, monitor, req, pid, netns, marked, made, dels, starts,
                     crashed, unmarked, orphaned>>
      /\ faults' = faults \/ (mayFail /\ faults' = faults + 1)
  BY DEF DeletePort, Fault
<1>2. faults' \in 0 .. MaxFaults
  BY <1>1, FaultType
<1>3. o \in Conn /\ o <= made /\ c \in Containers /\ conn \in [Conn -> ConnType]
  BY <1>1, HandlerProps, Types DEF IInv
<1>4. /\ Served' /\ handler' \in HandlerType
      /\ handler'.pc = "releaseIP" /\ handler'.con = o
  BY <1>1, HandlerMoves DEF AddPcs
<1>5. stale' \in BOOLEAN
  BY Zenon DEF DeletePort
<1>6. /\ conn' \in [Conn -> ConnType]
      /\ \A u \in Conn \ {o} : conn'[u] = conn[u]
      /\ conn'[o].cont = c /\ conn'[o].pid = conn[o].pid /\ conn'[o].ip = conn[o].ip
      /\ ~stale' => ~stale /\ connections[c] = o /\ ~conn'[o].port
      /\ conn'[o].port => conn[o].port
  <2>1. CASE /\ conn' = [conn EXCEPT ![o].port = FALSE]
             /\ stale' = (stale \/ connections[c] # o)
    <3>1. conn'[o] = [conn[o] EXCEPT !.port = FALSE] /\ conn[o] \in ConnType
      BY Zenon, <1>3, <2>1
    <3>2. conn'[o] \in ConnType /\ conn'[o].port = FALSE
      BY <3>1, Zenon DEF ConnType
    <3>3. conn'[o].cont = c /\ conn'[o].pid = conn[o].pid /\ conn'[o].ip = conn[o].ip
      BY <3>1 DEF ConnType
    <3>4. /\ conn' \in [Conn -> ConnType]
          /\ \A u \in Conn \ {o} : conn'[u] = conn[u]
      BY <1>3, <2>1, <3>1, <3>2
    <3>5. /\ ~stale' => ~stale /\ connections[c] = o /\ ~conn'[o].port
          /\ conn'[o].port => conn[o].port
      BY <2>1, <3>2, Zenon
    <3> QED BY <3>3, <3>4, <3>5
  <2>2. CASE stale' = TRUE /\ conn' = conn
    BY <1>3, <2>2
  <2> QED BY Zenon, <2>1, <2>2 DEF DeletePort
<1>7. TypeOK'
  <2>1. {crashed', unmarked', stale', orphaned'} \subseteq BOOLEAN
    BY <1>1, <1>5 DEF IInv, TypeOK
  <2> QED BY <1>1, <1>2, <1>4, <1>6, <2>1 DEF IInv, TypeOK, ConnType, HandlerType
<1>8. Made'
  <2>1. \A u \in Conn : /\ conn'[u].cont = conn[u].cont /\ conn'[u].pid = conn[u].pid
                        /\ conn'[u].ip = conn[u].ip /\ (conn'[u].port => conn[u].port)
    BY SMTT(30), <1>6
  <2>2. \A d \in Containers : connections[d] # None => connections[d] \in Conn
    BY DEF IInv, TypeOK
  <2> QED BY <1>1, <2>1, <2>2 DEF IInv, Made, Blank
<1>9. Added'
  <2>1. \A q \in Reqs : req'[q].act = "addConn" =>
          /\ \A d \in Containers : connections'[d] # req'[q].con
          /\ \A p \in Reqs \ {q} : req'[p].con # req'[q].con
          /\ req'[q].pc = "send" => ~conn'[req'[q].con].port /\ conn'[req'[q].con].ip = 0
    BY SMTT(30), <1>1, <1>6, OthersAdded
  <2> QED BY <1>4, <2>1 DEF Added, InMap, Blank
<1>10. ~stale' /\ ~unmarked =>
         /\ conn[o].port
         /\ \A u \in Conn \ {o} : conn[u].port => conn[u].ip # conn[o].ip
  <2>1. ~stale' => InMap(o) /\ ~Deleting(o)
    BY <1>1, <1>3, <1>6 DEF InMap, Deleting
  <2> QED BY Zenon, <1>3, <1>6, <2>1 DEF IInv, Connected, Addressed
<1>11. Removed'
  <2>1. ~stale' /\ ~unmarked => \A u \in Conn : conn'[u].port => conn'[u].ip # conn'[o].ip
    BY <1>6, <1>10
  <2> QED BY SMTT(30), <1>1, <1>4, <1>6, <2>1 DEF Removed
<1>12. Connected'
  <2>1. \A u \in Conn : (InMap(u)' <=> InMap(u)) /\ (Deleting(u)' <=> u = o) /\ ~Deleting(u)
    BY <1>1, <1>4 DEF InMap, Deleting
  <2> QED BY <1>1, <1>6, <2>1 DEF IInv, Connected, Addressed
<1>13. NothingLost'
  BY <1>1, <1>4, <1>6 DEF IInv, NothingLost, InMap
<1> QED BY <1>4, <1>7, <1>8, <1>9, <1>11, <1>12, <1>13 DEF IInv

(* The address is released: no port has it. *)
LEMMA ReleaseIPIInv ==
  ASSUME IInv, ReleaseIP
  PROVE  IInv'
<1> DEFINE o == handler.con
<1>1. /\ handler.pc = "releaseIP" /\ handler.pc # "recv"
      /\ handler' = [handler EXCEPT !.pc = "unset"]
      /\ UNCHANGED <<connections, conn, monitor, req, pid, netns, made, dels, starts,
                     crashed, unmarked, stale>>
      /\ faults' = faults \/ (mayFail /\ faults' = faults + 1)
  BY DEF ReleaseIP, Fault
<1>2. faults' \in 0 .. MaxFaults
  BY <1>1, FaultType
<1>3. o \in Conn /\ conn \in [Conn -> ConnType]
  BY <1>1, HandlerProps, Types DEF IInv
<1>4. /\ Served' /\ handler' \in HandlerType
      /\ handler'.pc = "unset" /\ handler'.con = o
  BY <1>1, HandlerMoves DEF AddPcs
<1>5. \/ marked' = marked \ {conn[o].ip - 1} /\ orphaned' = orphaned
      \/ marked' = marked /\ orphaned' = TRUE
  BY Zenon DEF ReleaseIP, Clear
<1>6. TypeOK'
  <2>1. orphaned' \in BOOLEAN
    BY <1>5, Zenon DEF IInv, TypeOK
  <2>2. {crashed', unmarked', stale', orphaned'} \subseteq BOOLEAN
    BY <1>1, <2>1 DEF IInv, TypeOK
  <2>3. marked' \subseteq 0 .. Hosts - 1
    BY Zenon, <1>5 DEF IInv, TypeOK
  <2> QED BY <1>1, <1>2, <1>4, <2>2, <2>3 DEF IInv, TypeOK, HandlerType
<1>7. Made'
  BY <1>1 DEF IInv, Made, Blank
<1>8. Added'
  BY <1>1, <1>4 DEF IInv, Added, InMap, Blank
<1>9. Removed'
  BY <1>1, <1>4, <1>5 DEF IInv, Removed
<1>10. Connected'
  <2>1. \A u \in Conn : (InMap(u)' <=> InMap(u)) /\ (Deleting(u)' <=> Deleting(u))
    BY <1>1, <1>4 DEF InMap, Deleting
  <2>2. ~stale /\ ~unmarked =>
          \A u \in Conn : conn[u].port => conn[u].ip - 1 # conn[o].ip - 1
    <3>1. \A u \in Conn : conn[u].ip \in Int
      BY <1>3, ConnectionsAssumption DEF ConnType
    <3>2. ~stale /\ ~unmarked => \A u \in Conn : conn[u].port => conn[u].ip # conn[o].ip
      BY <1>1 DEF IInv, Removed
    <3> QED BY <1>3, <3>1, <3>2
  <2> QED BY <1>1, <1>5, <2>1, <2>2 DEF IInv, Connected, Addressed
<1>11. NothingLost'
  BY <1>1, <1>4, <1>5 DEF IInv, NothingLost, InMap
<1> QED BY <1>4, <1>6, <1>7, <1>8, <1>9, <1>10, <1>11 DEF IInv

(* The Connection leaves d.connections without port and without mark, and  *)
(* no other one leaves with it.                                            *)
LEMMA DeleteConnectionIInv ==
  ASSUME IInv, DeleteConnection
  PROVE  IInv'
<1> DEFINE o == handler.con
           c == conn[o].cont
<1>1. /\ handler.pc = "unset" /\ handler.pc # "recv" /\ Reply
      /\ connections' = [connections EXCEPT ![c] = None]
      /\ UNCHANGED <<conn, monitor, pid, netns, marked, made, dels, faults, starts,
                     crashed, unmarked, stale, orphaned>>
  BY DEF DeleteConnection, history
<1>2. o \in Conn /\ c \in Containers
  BY <1>1, HandlerProps
<1>3. /\ req' \in [Reqs -> ReqType] /\ handler' \in HandlerType /\ Served'
      /\ \A q \in Reqs : req'[q] = req[q] \/ req'[q] = NoReq
      /\ handler'.pc = "recv" /\ handler'.con = None
  BY <1>1, ReplyProps DEF Waiting
<1>4. /\ connections' \in [Containers -> Conn \cup {None}] /\ connections'[c] = None
      /\ \A d \in Containers \ {c} : connections'[d] = connections[d]
  BY SMTT(30), <1>1, <1>2 DEF IInv, TypeOK
<1>5. TypeOK'
  BY SMTT(30), <1>1, <1>3, <1>4 DEF IInv, TypeOK, ReqType, HandlerType
<1>6. Made'
  BY <1>1, <1>4 DEF IInv, Made, Blank
<1>7. Added'
  <2>1. \A q \in Reqs : req'[q].act = "addConn" =>
          /\ \A d \in Containers : connections'[d] # req'[q].con
          /\ \A p \in Reqs \ {q} : req'[p].con # req'[q].con
          /\ req'[q].pc = "send" => ~conn'[req'[q].con].port /\ conn'[req'[q].con].ip = 0
    <3>1. \A d \in Containers : /\ connections'[d] \in {connections[d], None}
                                /\ connections'[d] # o \/ connections[d] = o
      BY SMTT(30), <1>2, <1>4 DEF None, Conn
    <3> QED BY <1>1, <1>3, <3>1, OthersAdded
  <2> QED BY SMTT(30), <1>3, <2>1 DEF Added, InMap, Blank
<1>8. Removed'
  BY <1>3 DEF Removed
<1>9. \A u \in Conn : InMap(u)' => InMap(u) /\ u # o
  <2> SUFFICES ASSUME NEW u \in Conn, NEW d \in Containers, connections'[d] = u
               PROVE  InMap(u) /\ u # o
    BY SMTT(30) DEF InMap
  <2>1. d # c /\ connections[d] = u /\ u # None
    BY <1>4 DEF None, Conn
  <2>2. conn[u].cont = d
    BY SMTT(30), <2>1 DEF IInv, Made
  <2> QED BY <2>1, <2>2 DEF InMap
<1>10. Connected'
  BY SMTT(30), <1>1, <1>3, <1>9 DEF IInv, Connected, Addressed, Deleting
<1>11. NothingLost'
  <2>1. ~stale /\ ~orphaned => /\ connections[c] = o /\ ~conn[o].port
                               /\ conn[o].ip - 1 \notin marked
    BY <1>1 DEF IInv, Removed
  <2>2. ~stale /\ ~orphaned => \A u \in Conn \ {o} : InMap(u) => InMap(u)'
    BY <1>4, <2>1 DEF InMap
  <2>3. \A b \in marked : b = (b + 1) - 1
    BY DEF IInv, TypeOK
  <2>4. ~stale /\ ~orphaned => \A b \in marked : conn[o].ip # b + 1
    BY <2>1, <2>3
  <2> QED BY SMTT(30), <1>1, <2>1, <2>2, <2>4 DEF IInv, NothingLost
<1> QED BY <1>3, <1>5, <1>6, <1>7, <1>8, <1>10, <1>11 DEF IInv

-----------------------------------------------------------------------------
(* The daemon is started again: ports and marks may stay, and then that is *)
(* recorded; ports only disappear.                                         *)
LEMMA StartIInv ==
  ASSUME IInv, NEW clean \in BOOLEAN, Start(clean)
  PROVE  IInv'
<1>1. /\ starts < MaxStarts /\ starts' = starts + 1
      /\ connections' = [c \in Containers |-> None]
      /\ monitor' = [o \in Conn |-> "none"] /\ req' = [q \in Reqs |-> NoReq]
      /\ handler' = Waiting
      /\ UNCHANGED <<pid, netns, marked, made, dels, faults, unmarked, stale>>
  BY DEF Start
<1>2. NoReq \in ReqType /\ NoReq.pc = "idle" /\ NoReq.act = "none" /\ NoReq.con = None
  BY DEF NoReq, ReqType
<1>3. Waiting \in HandlerType /\ Waiting.pc = "recv" /\ Waiting.con = None
  BY DEF Waiting, HandlerType
<1>4. crashed' \in BOOLEAN /\ orphaned' \in BOOLEAN
      /\ (~orphaned' => marked = {0} /\ \A o \in Conn : ~conn[o].port)
  BY Zenon DEF Start
<1>5. /\ conn' \in [Conn -> ConnType]
      /\ \A o \in Conn : /\ conn'[o].cont = conn[o].cont /\ conn'[o].pid = conn[o].pid
                         /\ conn'[o].ip = conn[o].ip /\ (conn'[o].port => conn[o].port)
  <2>1. conn' = [o \in Conn |-> [conn[o] EXCEPT !.port = @ /\ ~clean]]
    BY DEF Start
  <2>2. \A o \in Conn : conn[o] \in ConnType
    BY Types DEF IInv
  <2>3. ASSUME NEW o \in Conn
        PROVE  /\ conn'[o] \in ConnType
               /\ conn'[o].cont = conn[o].cont /\ conn'[o].pid = conn[o].pid
               /\ conn'[o].ip = conn[o].ip /\ (conn'[o].port => conn[o].port)
    <3> DEFINE b == conn[o].port /\ ~clean
    <3>1. conn'[o] = [conn[o] EXCEPT !.port = b] /\ conn[o] \in ConnType
      BY <2>1, <2>2
    <3>2. b \in BOOLEAN /\ (b => conn[o].port)
      BY Zenon
    <3> HIDE DEF b
    <3>3. conn'[o] \in ConnType /\ conn'[o].port = b
      BY <3>1, <3>2, Zenon DEF ConnType
    <3>4. conn'[o].cont = conn[o].cont /\ conn'[o].pid = conn[o].pid
          /\ conn'[o].ip = conn[o].ip
      BY SMTT(30), <3>1 DEF ConnType
    <3> QED BY <3>2, <3>3, <3>4
  <2> QED BY <2>1, <2>3
<1>6. TypeOK'
  <2>1. {crashed', unmarked', stale', orphaned'} \subseteq BOOLEAN
    BY <1>1, <1>4 DEF IInv, TypeOK
  <2>2. starts' \in 0 .. MaxStarts
    BY <1>1, ConnectionsAssumption DEF IInv, TypeOK
  <2>3. /\ connections' \in [Containers -> Conn \cup {None}]
        /\ monitor' \in [Conn -> {"none", "read", "check", "done"}]
        /\ req' \in [Reqs -> ReqType] /\ handler' \in HandlerType
    BY SMTT(30), <1>1, <1>2, <1>3
  <2> QED BY SMTT(30), <1>1, <1>5, <2>1, <2>2, <2>3 DEF IInv, TypeOK, ConnType, ReqType, HandlerType
<1>7. Made'
  BY SMTT(30), <1>1, <1>5 DEF IInv, Made, Blank
<1>8. Served' /\ Added' /\ Removed'
  BY <1>1, <1>2, <1>3 DEF Served, Added, Removed
<1>9. \A o \in Conn : ~InMap(o)'
  BY SMTT(30), <1>1 DEF InMap, Conn, None
<1>10. Connected'
  <2>1. \A o \in Conn : Addressed(o)' => Addressed(o)
    BY Zenon, <1>5 DEF Addressed
  <2>2. Connected /\ UNCHANGED <<marked, unmarked, stale>>
    BY Zenon, <1>1 DEF IInv
  <2> QED BY ZenonT(30), <1>5, <1>9, <2>1, <2>2 DEF Connected
<1>11. NothingLost'
  BY Zenon, <1>1, <1>4, <1>5 DEF NothingLost
<1> QED BY <1>6, <1>7, <1>8, <1>10, <1>11 DEF IInv

LEMMA NextIInv ==
  ASSUME IInv, [Next]_vars
  PROVE  IInv'
<1>1. ASSUME NEW q \in Reqs, createConn(q) PROVE IInv'
  BY <1>1, createConnIInv
<1>2. ASSUME NEW q \in Reqs, delConn(q) PROVE IInv'
  BY <1>2, delConnIInv
<1>3. ASSUME NEW q \in Reqs, Receive(q) PROVE IInv'
  BY <1>3, ReceiveIInv
<1>4. ASSUME NEW c \in Containers, Restart(c) PROVE IInv'
  BY <1>4, RestartIInv
<1>5. CASE connHandler
  BY <1>5, GetNetworkIInv, createOvsInternalPortIInv, RequestIPIInv, AttachIInv, SetConnectionIInv, DeletePortIInv,
     ReleaseIPIInv, DeleteConnectionIInv DEF connHandler
<1>6. ASSUME NEW o \in Conn, getInterfaceInfo(o) PROVE IInv'
  BY <1>6, getInterfaceInfoIInv
<1>7. ASSUME NEW clean \in BOOLEAN, Start(clean) PROVE IInv'
  BY <1>7, StartIInv
<1>8. CASE UNCHANGED vars
  <2>1. UNCHANGED <<connections, conn, monitor, req, handler, pid, netns, marked, made,
                     dels, starts, faults, crashed, unmarked, stale, orphaned>>
    BY SMTT(30), <1>8 DEF vars
  <2>2. TypeOK'
    BY SMTT(30), <2>1 DEF IInv, TypeOK
  <2>3. Made' /\ Served'
    BY SMTT(30), <2>1 DEF IInv, Made, Blank, Served
  <2>4. Added'
    BY ZenonT(30), <2>1 DEF IInv, Added, Blank, InMap
  <2>5. Removed'
    BY SMTT(30), <2>1 DEF IInv, Removed
  <2>6. Connected'
    BY SMTT(30), <2>1 DEF IInv, Connected, Addressed, InMap, Deleting
  <2>7. NothingLost'
    BY Zenon, <2>1 DEF IInv, NothingLost, InMap
  <2> QED BY <2>2, <2>3, <2>4, <2>5, <2>6, <2>7 DEF IInv
<1> QED BY <1>1, <1>2, <1>3, <1>4, <1>5, <1>6, <1>7, <1>8 DEF Next

LEMMA SpecIInv == Spec => []IInv
  BY InitIInv, NextIInv, PTL DEF Spec

-----------------------------------------------------------------------------
(* The Connections, the requests, the handler, the bitmap and the links    *)
(* keep their types: an address stays within the subnet and its neighbour, *)
(* and a link is of a process a container has had.                         *)
THEOREM TypeCorrect == Spec => []TypeOK
<1>1. IInv => TypeOK
  BY DEF IInv
<1> QED BY <1>1, SpecIInv, PTL

(* As long as addresses were free when they were handed out and no         *)
(* Connection was deleted that was not in d.connections, a Connection in   *)
(* d.connections has its port and an address until deleteConnection takes  *)
(* them, and the address a port was given is marked and no other port's,   *)
(* before or after the daemon is started again, also when it crashed       *)
(* between creating a port and requesting its address (connection.go:      *)
(* addConnection, deleteConnection).                                       *)
THEOREM PortsHaveTheirOwnAddress == Spec => []Connected
<1>1. IInv => Connected
  BY DEF IInv
<1> QED BY <1>1, SpecIInv, PTL

(* Unless one of the exceptions of NothingLost has happened, every port    *)
(* and every mark belongs to a Connection that d.connections or            *)
(* connHandler knows: addConnection and deleteConnection leak nothing on   *)
(* their own, however the requests interleave.                             *)
THEOREM NoPortOrAddressLeaks == Spec => []NothingLost
<1>1. IInv => NothingLost
  BY DEF IInv
<1> QED BY <1>1, SpecIInv, PTL
-----------------------------------------------------------------------------
(* The rendezvous of the requests with connHandler. *)

LEMMA ReplyServed ==
  ASSUME req \in [Reqs -> ReqType], WaitingIsServed, handler.pc # "recv", Reply
  PROVE  WaitingIsServed'
<1>1. req' = [req EXCEPT ![handler.req] = NoReq] /\ handler'.pc = "recv"
  BY Zenon DEF Reply, Waiting
<1>2. NoReq.pc # "wait"
  BY SMT DEF NoReq
<1>3. \A q \in Reqs : req'[q].pc # "wait"
  <2> SUFFICES ASSUME NEW q \in Reqs PROVE req'[q].pc # "wait"
    OBVIOUS
  <2>1. CASE q = handler.req
    BY <2>1, <1>1, <1>2, Zenon
  <2>2. CASE q # handler.req
    BY <2>2, <1>1, Zenon DEF WaitingIsServed
  <2> QED
    BY <2>1, <2>2
<1> QED
  BY <1>1, <1>3, Zenon DEF WaitingIsServed

LEMMA MoveServed ==
  ASSUME handler \in HandlerType, WaitingIsServed, handler.pc # "recv", req' = req,
         NEW label \in {"createPort", "requestIP", "attach", "set", "releaseIP", "unset"},
         handler' = [handler EXCEPT !.pc = label]
  PROVE  WaitingIsServed'
<1>1. handler'.pc # "recv" /\ handler'.req = handler.req
  BY SMT DEF HandlerType
<1> QED
  BY <1>1, Zenon DEF WaitingIsServed

LEMMA RequestServed ==
  ASSUME req \in [Reqs -> ReqType], WaitingIsServed, handler' = handler,
         NEW q \in Reqs, req[q].pc # "wait", NEW r, r.pc # "wait",
         req' = [req EXCEPT ![q] = r]
  PROVE  WaitingIsServed'
<1>1. req'[q] = r /\ \A p \in Reqs : p # q => req'[p] = req[p]
  BY Zenon
<1> QED
  BY <1>1, Zenon DEF WaitingIsServed

LEMMA ReceiveServed ==
  ASSUME req \in [Reqs -> ReqType], WaitingIsServed, NEW q \in Reqs, Receive(q)
  PROVE  WaitingIsServed'
<1>1. req' = [req EXCEPT ![q].pc = "wait"] /\ handler.pc = "recv"
  BY Zenon DEF Receive
<1>2. handler'.pc # "recv" /\ handler'.req = q
  BY SMT DEF Receive
<1>3. req'[q].pc = "wait" /\ \A p \in Reqs : p # q => req'[p] = req[p]
  BY <1>1, SMT DEF ReqType
<1>4. \A p \in Reqs : req[p].pc # "wait"
  BY <1>1, Zenon DEF WaitingIsServed
<1> QED
  BY <1>2, <1>3, <1>4, Zenon DEF WaitingIsServed

LEMMA HandlerServed ==
  ASSUME handler \in HandlerType, req \in [Reqs -> ReqType], WaitingIsServed, connHandler
  PROVE  WaitingIsServed'
<1>1. CASE GetNetwork
  <2>1. /\ handler.pc = "getNetwork"
        /\ (handler' = [handler EXCEPT !.pc = "createPort"] /\ req' = req) \/ Reply
    BY <1>1, Zenon DEF GetNetwork
  <2> QED
    BY <2>1, MoveServed, ReplyServed, SMT
<1>2. CASE createOvsInternalPort
  <2>1. /\ handler.pc = "createPort" /\ req' = req
        /\ handler' = [handler EXCEPT !.pc = "requestIP"]
    BY <1>2, Zenon DEF createOvsInternalPort
  <2> QED
    BY <2>1, MoveServed, SMT
<1>3. CASE RequestIP
  <2>1. /\ handler.pc = "requestIP" /\ req' = req
        /\ handler' = [handler EXCEPT !.pc = "attach"]
    BY <1>3, Zenon DEF RequestIP
  <2> QED
    BY <2>1, MoveServed, SMT
<1>4. CASE Attach
  <2>1. /\ handler.pc = "attach"
        /\ (handler' = [handler EXCEPT !.pc = "set"] /\ req' = req) \/ Reply
    BY <1>4, Zenon DEF Attach
  <2> QED
    BY <2>1, MoveServed, ReplyServed, SMT
<1>5. CASE SetConnection \/ DeleteConnection
  <2>1. handler.pc \in {"set", "unset"} /\ Reply
    BY <1>5, Zenon DEF SetConnection, DeleteConnection
  <2> QED
    BY <2>1, ReplyServed, SMT
<1>6. CASE DeletePort
  <2>1. /\ handler.pc = "deletePort" /\ req' = req
        /\ handler' = [handler EXCEPT !.pc = "releaseIP"]
    BY <1>6, Zenon DEF DeletePort
  <2> QED
    BY <2>1, MoveServed, SMT
<1>7. CASE ReleaseIP
  <2>1. /\ handler.pc = "releaseIP" /\ req' = req
        /\ handler' = [handler EXCEPT !.pc = "unset"]
    BY <1>7, Zenon DEF ReleaseIP
  <2> QED
    BY <2>1, MoveServed, SMT
<1> QED
  BY <1>1, <1>2, <1>3, <1>4, <1>5, <1>6, <1>7, Zenon DEF connHandler

(* addConnection, deleteConnection and their error paths send exactly one  *)
(* result, to the goroutine that waits for it: a goroutine waits only      *)
(* while connHandler works on its request, and connHandler never works for *)
(* one that does not wait (connection.go:133), for any number of requests, *)
(* restarts and failures.                                                  *)
THEOREM OneResultPerRequest == Spec => []WaitingIsServed
<1>1. Init => WaitingIsServed
  BY SMT DEF Init, WaitingIsServed, NoReq, Waiting
<1>2. TypeOK /\ WaitingIsServed /\ [Next]_vars => WaitingIsServed'
  <2> SUFFICES ASSUME TypeOK, WaitingIsServed, [Next]_vars
               PROVE  WaitingIsServed'
    OBVIOUS
  <2>0. handler \in HandlerType /\ req \in [Reqs -> ReqType]
    BY Types
  <2>1. ASSUME NEW q \in Reqs, createConn(q) \/ delConn(q)
        PROVE  WaitingIsServed'
    <3>0. req[q].pc = "idle" /\ handler' = handler
      BY <2>1, Zenon DEF createConn, delConn, Unused
    <3>1. req[q].pc # "wait"
      BY <3>0, SMT
    <3>2. \E act, o : req' = [req EXCEPT ![q] = [pc |-> "send", act |-> act, con |-> o]]
      BY <2>1, Zenon DEF createConn, delConn
    <3>3. PICK act, o : req' = [req EXCEPT ![q] = [pc |-> "send", act |-> act, con |-> o]]
      BY <3>2
    <3>4. [pc |-> "send", act |-> act, con |-> o].pc # "wait"
      BY SMT
    <3> QED
      BY <2>0, <3>0, <3>1, <3>3, <3>4, RequestServed, Zenon
  <2>2. ASSUME NEW q \in Reqs, Receive(q) PROVE WaitingIsServed'
    BY <2>0, <2>2, ReceiveServed, Zenon
  <2>3. CASE connHandler
    BY <2>0, <2>3, HandlerServed, Zenon
  <2>4. CASE \/ \E c \in Containers : Restart(c)
             \/ \E o \in Conn : getInterfaceInfo(o)
             \/ UNCHANGED vars
    <3>1. req' = req /\ handler' = handler
      BY <2>4, Zenon DEF Restart, getInterfaceInfo, ReadCounters, CheckDeleted, vars
    <3> QED
      BY <3>1, Zenon DEF WaitingIsServed
  <2>5. CASE \E clean \in BOOLEAN : Start(clean)
    <3>1. req' = [q \in Reqs |-> NoReq] /\ handler' = Waiting
      BY <2>5, Zenon DEF Start
    <3> QED
      BY <3>1, SMT DEF WaitingIsServed, NoReq, Waiting
  <2> QED
    BY <2>1, <2>2, <2>3, <2>4, <2>5, Zenon DEF Next
<1> QED
  BY <1>1, <1>2, TypeCorrect, PTL DEF Spec
=============================================================================
