-------------------------- MODULE IsolationProofs ---------------------------
(***************************************************************************)
(* Proofs about Isolation, for any number of networks, of requests that    *)
(* run at the same time, of changes by other nodes and of failed steps.    *)
(***************************************************************************)
EXTENDS Isolation, FiniteSets, FiniteSetTheorems, TLAPS

(* The local variables of a request or of the loop, when s networks have   *)
(* been stored.  Outside the loop over the rules the list is empty, and    *)
(* the network itself is never on it.                                      *)
Locals(s) ==
  [pc : {"idle", "poll", "add", "getNetwork", "getDeleted", "iface",
         "put", "cas", "list", "rules", "delete", "deletePort"},
   name : Names \cup {NoName}, snap : SUBSET Names,
   todo : SUBSET Names, seen : SUBSET Names, of : 0 .. s]

Good(s) ==
  {x \in Locals(s) : /\ x.pc \notin {"idle", "poll", "add"} => x.name \in Names
                     /\ x.pc # "rules" => x.seen = {} /\ x.of = 0
                     /\ x.name \notin x.seen}

LocalInv == proc \in [Procs -> Good(stored)]

(* The requests that have still to store their network: each stores one,   *)
(* so that as many networks are stored as requests were made.              *)
Storing == {p \in Procs : proc[p].pc \in {"getNetwork", "iface", "put", "cas"}}
CountInv == IsFiniteSet(Storing) /\ stored + Cardinality(Storing) <= made

(* Somebody has listed the networks for the stored network a, and only the *)
(* rules to S are still to be installed.                                   *)
Covers(a, S) ==
  /\ nets[a] # 0
  /\ \/ done[a] = nets[a] /\ S = {}
     \/ \E p \in Procs : /\ proc[p].pc = "rules" /\ proc[p].name = a
                         /\ proc[p].of = nets[a] /\ proc[p].seen = S

(* Of two networks for which the list was read, one was read after the     *)
(* other network was stored: the rule is there or still to be installed.   *)
RuleInv ==
  \A a, b \in Names : \A S, T \in SUBSET Names :
    a # b /\ Covers(a, S) /\ Covers(b, T)
    => b \in S \/ a \in T \/ {<<a, b>>, <<b, a>>} \cap rules # {}

IInv == TypeOK /\ LocalInv /\ CountInv /\ RuleInv

(* Nothing is stored, nobody has listed anything. *)
LEMMA InitIInv == Init => IInv
<1> SUFFICES ASSUME Init PROVE IInv
  OBVIOUS
<1> USE IsolationAssumption DEF Init
<1>1. NoProc \in Good(0) /\ Loop \in Good(0)
  BY DEF Good, Locals, NoProc, Loop
<1>2. LocalInv
  BY <1>1 DEF LocalInv
<1>3. TypeOK
  BY <1>2 DEF TypeOK, LocalInv, Good, Locals
<1>4. CountInv
  <2>1. Storing = {}
    BY DEF Storing, NoProc, Loop
  <2> QED BY <2>1, FS_EmptySet DEF CountInv
<1>5. RuleInv
  BY DEF RuleInv, Covers
<1> QED BY <1>2, <1>3, <1>4, <1>5 DEF IInv

-----------------------------------------------------------------------------
(* Facts that the steps share. *)

(* Only one request or loop moves, to local variables that are in order. *)
LEMMA OneMoves ==
  ASSUME NEW p \in Procs, NEW s, NEW t, proc \in [Procs -> Good(s)],
         Good(s) \subseteq Good(t), proc'[p] \in Good(t), proc' = [proc EXCEPT ![p] = proc'[p]]
  PROVE  /\ proc' \in [Procs -> Good(t)]
         /\ \A r \in Procs \ {p} : proc'[r] = proc[r]
  OBVIOUS

LEMMA GoodGrows ==
  ASSUME NEW s \in Nat, NEW t \in Nat, s <= t
  PROVE  Good(s) \subseteq Good(t)
<1>1. 0 .. s \subseteq 0 .. t
  OBVIOUS
<1>2. Locals(s) \subseteq Locals(t)
  BY <1>1 DEF Locals
<1> QED BY <1>2 DEF Good

(* No request starts to store: the count holds. *)
LEMMA FewerStore ==
  ASSUME CountInv, Storing' \subseteq Storing, made \in Nat, stored \in Nat,
         made' \in Nat, stored' \in Nat, stored' - stored <= made' - made
  PROVE  CountInv'
<1>1. IsFiniteSet(Storing) /\ Cardinality(Storing) \in Nat
  BY FS_CardinalityType DEF CountInv
<1>2. IsFiniteSet(Storing') /\ Cardinality(Storing') <= Cardinality(Storing)
  BY <1>1, FS_Subset
<1>3. Cardinality(Storing') \in Nat
  BY <1>2, FS_CardinalityType
<1>4. stored + Cardinality(Storing) <= made
  BY DEF CountInv
<1>5. stored' + Cardinality(Storing') <= made'
  <2>1. \A s, t, m, n, c, d \in Nat :
          s + c <= m /\ t - s <= n - m /\ d <= c => t + d <= n
    OBVIOUS
  <2> QED BY <1>1, <1>2, <1>3, <1>4, <2>1
<1> QED BY <1>2, <1>5 DEF CountInv

(* Nobody has listed the networks anew, and no rule goes. *)
LEMMA NothingListed ==
  ASSUME RuleInv, rules \subseteq rules',
         \A a \in Names, S \in SUBSET Names : Covers(a, S)' => Covers(a, S)
  PROVE  RuleInv'
  BY DEF RuleInv

(* A network that is stored anew has not been listed for; what is deleted  *)
(* counts no more.                                                         *)
LEMMA NoNewCover ==
  ASSUME IInv, NEW p \in Procs,
         \A r \in Procs \ {p} : proc'[r] = proc[r],
         proc'[p] = proc[p] \/ proc'[p].pc # "rules" \/ proc'[p].of = 0,
         \A a \in Names : nets'[a] \in {nets[a], 0, stored + 1},
         \A a \in Names : done'[a] \in {done[a], 0}
  PROVE  \A a \in Names, S \in SUBSET Names : Covers(a, S)' => Covers(a, S)
<1> SUFFICES ASSUME NEW a \in Names, NEW S \in SUBSET Names, Covers(a, S)'
             PROVE  Covers(a, S)
  OBVIOUS
<1>1. /\ stored \in Nat /\ done[a] \in 0 .. stored
      /\ \A r \in Procs : proc[r].of \in 0 .. stored
  BY IsolationAssumption DEF IInv, TypeOK
<1>2. nets'[a] # 0
  BY DEF Covers
<1>3. CASE done'[a] = nets'[a] /\ S = {}
  BY <1>1, <1>2, <1>3 DEF Covers
<1>4. ASSUME NEW r \in Procs, proc'[r].pc = "rules", proc'[r].name = a,
             proc'[r].of = nets'[a], proc'[r].seen = S
      PROVE  Covers(a, S)
  <2>1. proc'[r] = proc[r]
    BY <1>2, <1>4
  <2>2. nets'[a] = nets[a]
    BY <1>1, <1>2, <1>4, <2>1
  <2> QED BY <1>2, <1>4, <2>1, <2>2 DEF Covers
<1> QED BY <1>3, <1>4 DEF Covers

(* A step of p that neither stores nor lists a network. *)
LEMMA MoveIInv ==
  ASSUME IInv, NEW p \in Procs,
         proc' = [proc EXCEPT ![p] = proc'[p]], proc'[p] \in Good(stored),
         proc'[p].pc # "rules" \/ proc'[p].of = 0,
         proc'[p].pc \in {"getNetwork", "iface", "put", "cas"}
           => proc[p].pc \in {"getNetwork", "iface", "put", "cas"},
         \A a \in Names : nets'[a] \in {nets[a], 0}, nets' \in [Names -> 0 .. stored],
         \A a \in Names : done'[a] \in {done[a], 0}, done' \in [Names -> 0 .. stored],
         iface' \in [Names -> {"none", "half", "up"}], Gateways' \subseteq Names,
         spoiled' \subseteq Names, faults' \in 0 .. MaxFaults,
         UNCHANGED <<rules, made, stored>>
  PROVE  IInv'
<1>1. /\ proc' \in [Procs -> Good(stored)]
      /\ \A r \in Procs \ {p} : proc'[r] = proc[r]
  BY OneMoves DEF IInv, LocalInv
<1>2. LocalInv' /\ TypeOK'
  BY <1>1 DEF IInv, LocalInv, TypeOK, Good, Locals
<1>3. CountInv'
  <2>1. Storing' \subseteq Storing
    BY <1>1 DEF Storing
  <2>2. made \in Nat /\ stored \in Nat
    BY IsolationAssumption DEF IInv, TypeOK
  <2> QED BY <2>1, <2>2, FewerStore DEF IInv
<1>4. RuleInv'
  BY <1>1, NoNewCover, NothingListed DEF IInv
<1> QED BY <1>2, <1>3, <1>4 DEF IInv

LEMMA ProcGood ==
  ASSUME IInv, NEW p \in Procs
  PROVE  proc[p] \in Good(stored) /\ proc \in [Procs -> Good(stored)]
  BY DEF IInv, LocalInv

LEMMA ContinueGood ==
  ASSUME IInv, NEW p \in Procs, Continue(p)
  PROVE  /\ proc' = [proc EXCEPT ![p] = proc'[p]] /\ proc'[p] \in Good(stored)
         /\ proc'[p].pc \in {"add", "idle"}
<1>1. proc[p] \in Good(stored) /\ proc \in [Procs -> Good(stored)] /\ stored \in Nat
  BY ProcGood, IsolationAssumption DEF IInv, TypeOK
<1>2. CASE p = Sync
  <2> DEFINE x == [proc[p] EXCEPT !.pc = "add", !.name = NoName, !.seen = {}, !.of = 0]
  <2>1. proc[p] \in Locals(stored)
    BY <1>1 DEF Good
  <2>2. x \in Locals(stored) /\ x.pc = "add" /\ x.seen = {} /\ x.of = 0
    <3>1. 0 \in 0 .. stored
      BY <1>1
    <3>2. x.pc = "add" /\ x.seen = {} /\ x.of = 0 /\ x.name = NoName
      BY <2>1 DEF Locals
    <3>3. x \in Locals(stored)
      BY <2>1, <3>1 DEF Locals
    <3> QED BY <3>2, <3>3
  <2>3. x \in Good(stored)
    BY <2>2 DEF Good
  <2>4. proc' = [proc EXCEPT ![p] = x]
    BY <1>2 DEF Continue
  <2> QED BY <1>1, <2>2, <2>3, <2>4
<1>3. CASE p # Sync
  <2>1. NoProc \in Good(stored) /\ NoProc.pc = "idle"
    BY <1>1, IsolationAssumption DEF Good, Locals, NoProc
  <2>2. proc' = [proc EXCEPT ![p] = NoProc]
    BY <1>3 DEF Continue
  <2> QED BY <1>1, <2>1, <2>2
<1> QED BY <1>2, <1>3

LEMMA GotoGood ==
  ASSUME IInv, NEW p \in Procs,
         NEW label \in {"getNetwork", "iface", "put", "cas", "list", "rules", "delete",
                        "deletePort"},
         proc[p].pc \notin {"idle", "poll", "add", "rules"}, Goto(p, label)
  PROVE  /\ proc' = [proc EXCEPT ![p] = proc'[p]] /\ proc'[p] \in Good(stored)
         /\ proc'[p].pc = label /\ proc'[p].of = 0
<1>1. proc[p] \in Good(stored) /\ proc \in [Procs -> Good(stored)]
  BY ProcGood
<1> DEFINE x == [proc[p] EXCEPT !.pc = label]
<1>2. x \in Good(stored) /\ x.pc = label /\ x.of = 0
  BY <1>1 DEF Good, Locals
<1>3. proc' = [proc EXCEPT ![p] = x]
  BY DEF Goto
<1> QED BY <1>1, <1>2, <1>3

(* What a step that touches only the local variables of p leaves alone. *)
LEMMA QuietIInv ==
  ASSUME IInv, NEW p \in Procs,
         proc' = [proc EXCEPT ![p] = proc'[p]], proc'[p] \in Good(stored),
         proc'[p].pc # "rules" \/ proc'[p].of = 0,
         proc'[p].pc \in {"getNetwork", "iface", "put", "cas"}
           => proc[p].pc \in {"getNetwork", "iface", "put", "cas"},
         iface' \in [Names -> {"none", "half", "up"}], Gateways' \subseteq Names,
         spoiled' \subseteq Names, faults' \in 0 .. MaxFaults,
         UNCHANGED <<nets, rules, made, stored, done>>
  PROVE  IInv'
<1>1. nets \in [Names -> 0 .. stored] /\ done \in [Names -> 0 .. stored]
  BY DEF IInv, TypeOK
<1> QED BY <1>1, MoveIInv

-----------------------------------------------------------------------------
(* The steps of a request. *)

LEMMA GetNetworkIInv ==
  ASSUME IInv, NEW r \in Procs, GetNetwork(r)
  PROVE  IInv'
<1>1. /\ proc[r].pc \in {"getNetwork", "getDeleted"}
      /\ UNCHANGED <<nets, iface, Gateways, rules, made, stored, done, spoiled>>
  BY DEF GetNetwork
<1>2. faults' \in 0 .. MaxFaults
  <2>1. faults' = faults \/ (mayFail /\ faults' = faults + 1)
    BY Zenon DEF GetNetwork, Fault
  <2> QED BY <2>1, IsolationAssumption DEF IInv, TypeOK, mayFail
<1>3. \/ proc[r].pc = "getDeleted" /\ Goto(r, "delete")
      \/ proc[r].pc = "getNetwork" /\ Goto(r, "iface")
      \/ Continue(r)
  BY Zenon DEF GetNetwork
<1>4. /\ iface \in [Names -> {"none", "half", "up"}] /\ Gateways \subseteq Names
      /\ spoiled \subseteq Names
  BY DEF IInv, TypeOK
<1>5. CASE proc[r].pc = "getDeleted" /\ Goto(r, "delete")
  <2>1. /\ proc' = [proc EXCEPT ![r] = proc'[r]] /\ proc'[r] \in Good(stored)
        /\ proc'[r].pc = "delete"
    BY <1>5, GotoGood
  <2> QED BY <1>1, <1>2, <1>4, <2>1, QuietIInv
<1>6. CASE proc[r].pc = "getNetwork" /\ Goto(r, "iface")
  <2>1. /\ proc' = [proc EXCEPT ![r] = proc'[r]] /\ proc'[r] \in Good(stored)
        /\ proc'[r].pc = "iface"
    BY <1>6, GotoGood
  <2> QED BY <1>1, <1>2, <1>4, <1>6, <2>1, QuietIInv
<1>7. CASE Continue(r)
  BY <1>1, <1>2, <1>4, <1>7, ContinueGood, QuietIInv
<1> QED BY <1>3, <1>5, <1>6, <1>7

(* The interface of a network may be made, taken over or left half done. *)
LEMMA CreateInterfaceIInv ==
  ASSUME IInv, NEW r \in Procs, CreateInterface(r)
  PROVE  IInv'
<1>1. /\ proc[r].pc = "iface" /\ UNCHANGED <<nets, Gateways, rules, made, stored, done>>
      /\ Goto(r, "put") \/ Continue(r)
  BY DEF CreateInterface
<1>2. proc[r].name \in Names
  BY <1>1, ProcGood DEF Good
<1>3. faults' \in 0 .. MaxFaults /\ spoiled' \subseteq Names
  BY <1>2, IsolationAssumption DEF IInv, TypeOK, CreateInterface, Fault, mayFail, Spoil
<1>4. iface' \in [Names -> {"none", "half", "up"}] /\ Gateways' \subseteq Names
  <2>1. \/ iface' = iface
        \/ \E i \in {"half", "up"} : iface' = [iface EXCEPT ![proc[r].name] = i]
    BY Zenon DEF CreateInterface
  <2>2. \A i \in {"half", "up"} :
          [iface EXCEPT ![proc[r].name] = i] \in [Names -> {"none", "half", "up"}]
    BY <1>2 DEF IInv, TypeOK
  <2> QED BY <1>1, <2>1, <2>2 DEF IInv, TypeOK
<1>5. CASE Goto(r, "put")
  <2>1. /\ proc' = [proc EXCEPT ![r] = proc'[r]] /\ proc'[r] \in Good(stored)
        /\ proc'[r].pc = "put"
    BY <1>1, <1>5, GotoGood
  <2> QED BY <1>1, <1>3, <1>4, <2>1, QuietIInv
<1>6. CASE Continue(r)
  BY <1>1, <1>3, <1>4, <1>6, ContinueGood, QuietIInv
<1> QED BY <1>1, <1>5, <1>6

LEMMA PutGetIInv ==
  ASSUME IInv, NEW r \in Procs, PutGet(r)
  PROVE  IInv'
<1>1. /\ proc[r].pc = "put" /\ UNCHANGED <<nets, iface, Gateways, rules, made, stored, done>>
      /\ Goto(r, "cas") \/ Goto(r, "getNetwork")
  BY DEF PutGet
<1>2. proc[r].name \in Names
  BY <1>1, ProcGood DEF Good
<1>3. faults' \in 0 .. MaxFaults /\ spoiled' \subseteq Names
  BY <1>2, IsolationAssumption DEF IInv, TypeOK, PutGet, Fault, mayFail, Spoil
<1>4. iface' \in [Names -> {"none", "half", "up"}] /\ Gateways' \subseteq Names
  BY <1>1 DEF IInv, TypeOK
<1>5. /\ proc' = [proc EXCEPT ![r] = proc'[r]] /\ proc'[r] \in Good(stored)
      /\ proc'[r].pc \in {"cas", "getNetwork"}
  BY <1>1, GotoGood
<1> QED BY <1>1, <1>3, <1>4, <1>5, QuietIInv

(* A network that is deleted is not stored: nothing is owed to it. *)
LEMMA DeleteNetIInv ==
  ASSUME IInv, NEW r \in Procs, DeleteNet(r)
  PROVE  IInv'
<1> DEFINE deleted == [nets EXCEPT ![proc[r].name] = 0]
<1>1. /\ proc[r].pc = "delete" /\ nets' \in {nets, deleted}
      /\ UNCHANGED <<iface, Gateways, rules, made, stored, done, spoiled>>
      /\ Goto(r, "deletePort") \/ Continue(r)
      /\ faults' = faults \/ (mayFail /\ faults' = faults + 1)
  BY DEF DeleteNet, Fault
<1>2. faults' \in 0 .. MaxFaults
  BY <1>1, IsolationAssumption DEF IInv, TypeOK, mayFail
<1>3. /\ iface \in [Names -> {"none", "half", "up"}] /\ Gateways \subseteq Names
      /\ spoiled \subseteq Names /\ done \in [Names -> 0 .. stored]
  BY DEF IInv, TypeOK
<1>4. nets' \in [Names -> 0 .. stored] /\ \A a \in Names : nets'[a] \in {nets[a], 0}
  BY <1>1, IsolationAssumption DEF IInv, TypeOK
<1>5. /\ proc' = [proc EXCEPT ![r] = proc'[r]] /\ proc'[r] \in Good(stored)
      /\ proc'[r].pc \in {"deletePort", "add", "idle"}
  BY <1>1, GotoGood, ContinueGood
<1> QED BY <1>1, <1>2, <1>3, <1>4, <1>5, MoveIInv

(* An interface that is deleted is not set up any more. *)
LEMMA deletePortsProps ==
  ASSUME IInv, NEW A \in SUBSET Names, deletePorts(A)
  PROVE  /\ iface' \in [Names -> {"none", "half", "up"}] /\ spoiled' \subseteq Names
         /\ done' \in [Names -> 0 .. stored] /\ \A a \in Names : done'[a] \in {done[a], 0}
  BY IsolationAssumption DEF IInv, TypeOK, deletePorts

LEMMA DeleteInterfaceIInv ==
  ASSUME IInv, NEW r \in Procs, DeleteInterface(r)
  PROVE  IInv'
<1>1. /\ proc[r].pc = "deletePort" /\ deletePorts({proc[r].name}) /\ Continue(r)
      /\ UNCHANGED <<nets, Gateways, rules, made, stored, faults>>
  BY DEF DeleteInterface
<1>2. proc[r].name \in Names
  BY <1>1, ProcGood DEF Good
<1>3. /\ nets \in [Names -> 0 .. stored] /\ Gateways \subseteq Names
      /\ faults \in 0 .. MaxFaults
  BY DEF IInv, TypeOK
<1>4. /\ iface' \in [Names -> {"none", "half", "up"}] /\ spoiled' \subseteq Names
      /\ done' \in [Names -> 0 .. stored] /\ \A a \in Names : done'[a] \in {done[a], 0}
  BY <1>1, <1>2, deletePortsProps
<1>5. /\ proc' = [proc EXCEPT ![r] = proc'[r]] /\ proc'[r] \in Good(stored)
      /\ proc'[r].pc \in {"add", "idle"}
  BY <1>1, ContinueGood
<1> QED BY <1>1, <1>3, <1>4, <1>5, MoveIInv

(* A request that starts is one more that may store a network. *)
LEMMA BeginIInv ==
  ASSUME IInv, NEW r \in Procs, NEW label \in {"getNetwork", "getDeleted"}, Begin(r, label)
  PROVE  IInv'
<1>1. /\ proc[r].pc = "idle" /\ made < MaxReqs /\ made' = made + 1
      /\ UNCHANGED <<nets, iface, Gateways, rules, stored, faults, done, spoiled>>
  BY DEF Begin
<1>2. PICK a \in Names :
        proc' = [proc EXCEPT ![r] = [NoProc EXCEPT !.pc = label, !.name = a]]
  BY DEF Begin
<1> DEFINE x == [NoProc EXCEPT !.pc = label, !.name = a]
<1>3. made \in Nat /\ stored \in Nat /\ made' \in 0 .. MaxReqs
  BY <1>1, IsolationAssumption DEF IInv, TypeOK
<1>4. x \in Good(stored) /\ x.pc = label
  <2>1. x.pc = label /\ x.name = a /\ x.seen = {} /\ x.of = 0
    BY DEF NoProc
  <2>2. NoProc \in Locals(stored)
    BY <1>3 DEF Locals, NoProc
  <2>3. x \in Locals(stored)
    BY <2>2 DEF Locals
  <2> QED BY <2>1, <2>3 DEF Good
<1>5. /\ proc' \in [Procs -> Good(stored)] /\ proc'[r].pc = label
      /\ \A p \in Procs \ {r} : proc'[p] = proc[p]
  BY <1>2, <1>4, ProcGood
<1>6. LocalInv' /\ TypeOK'
  BY <1>1, <1>3, <1>5 DEF IInv, LocalInv, TypeOK, Good, Locals
<1>7. CountInv'
  <2>1. Storing' \in SUBSET (Storing \cup {r})
    BY <1>5 DEF Storing
  <2>2. IsFiniteSet(Storing) /\ stored + Cardinality(Storing) <= made
    BY DEF IInv, CountInv
  <2>3. Cardinality(Storing) \in Nat
    BY <2>2, FS_CardinalityType
  <2>4. /\ IsFiniteSet(Storing \cup {r})
        /\ Cardinality(Storing \cup {r}) <= Cardinality(Storing) + 1
    BY <2>2, <2>3, FS_AddElement
  <2>5. Cardinality(Storing \cup {r}) \in Nat
    BY <2>4, FS_CardinalityType
  <2>6. IsFiniteSet(Storing') /\ Cardinality(Storing') <= Cardinality(Storing \cup {r})
    BY <2>1, <2>4, FS_Subset
  <2>7. Cardinality(Storing') \in Nat
    BY <2>6, FS_CardinalityType
  <2>8. stored' + Cardinality(Storing') <= made'
    <3>1. \A s, m, c, d, e \in Nat : s + c <= m /\ d <= c + 1 /\ e <= d => s + e <= m + 1
      OBVIOUS
    <3> QED BY <1>1, <1>3, <2>2, <2>3, <2>4, <2>5, <2>6, <2>7, <3>1
  <2> QED BY <2>6, <2>8 DEF CountInv
<1>8. RuleInv'
  <2>1. /\ \A c \in Names : nets'[c] \in {nets[c], 0, stored + 1}
        /\ \A c \in Names : done'[c] \in {done[c], 0}
    BY <1>1
  <2> QED BY <1>1, <1>5, <2>1, NoNewCover, NothingListed DEF IInv
<1> QED BY <1>6, <1>7, <1>8 DEF IInv

(* A network is stored, or not: its number is new. *)
LEMMA StoreGrows ==
  ASSUME IInv, NEW a \in Names, stored' \in Nat,
         \/ nets' = nets /\ stored' = stored
         \/ nets' = [nets EXCEPT ![a] = stored + 1] /\ stored' = stored + 1,
         done' = done
  PROVE  /\ nets' \in [Names -> 0 .. stored'] /\ done' \in [Names -> 0 .. stored']
         /\ Good(stored) \subseteq Good(stored')
         /\ \A c \in Names : nets'[c] \in {nets[c], 0, stored + 1}
         /\ \A c \in Names : done'[c] \in {done[c], 0}
<1>1. stored \in Nat /\ stored <= stored' /\ 0 .. stored \subseteq 0 .. stored'
  BY IsolationAssumption DEF IInv, TypeOK
<1>2. nets \in [Names -> 0 .. stored'] /\ done \in [Names -> 0 .. stored']
  BY <1>1 DEF IInv, TypeOK
<1>3. Good(stored) \subseteq Good(stored')
  BY <1>1, GoodGrows
<1>4. nets' \in [Names -> 0 .. stored'] /\ \A c \in Names : nets'[c] \in {nets[c], 0, stored + 1}
  BY <1>1, <1>2
<1> QED BY <1>2, <1>3, <1>4

LEMMA PutCasIInv ==
  ASSUME IInv, NEW r \in Procs, PutCas(r)
  PROVE  IInv'
<1>1. /\ proc[r].pc = "cas" /\ Goto(r, "list")
      /\ UNCHANGED <<iface, Gateways, rules, made, done, spoiled>>
      /\ \/ nets' = nets /\ stored' = stored
         \/ nets' = [nets EXCEPT ![proc[r].name] = stored + 1] /\ stored' = stored + 1
      /\ faults' = faults \/ (mayFail /\ faults' = faults + 1)
  BY DEF PutCas, Fault
<1>2. /\ proc' = [proc EXCEPT ![r] = proc'[r]] /\ proc'[r] \in Good(stored)
      /\ proc'[r].pc = "list"
  BY <1>1, GotoGood
<1>3. /\ proc[r].name \in Names /\ made \in 0 .. MaxReqs /\ MaxReqs \in Nat
      /\ stored \in Nat /\ stored' \in Nat
  <2>1. made \in 0 .. MaxReqs /\ MaxReqs \in Nat /\ stored \in Nat
    BY IsolationAssumption DEF IInv, TypeOK
  <2>2. stored' \in Nat
    BY <1>1, <2>1
  <2> QED BY <1>1, <2>1, <2>2, ProcGood DEF Good
<1>4. /\ nets' \in [Names -> 0 .. stored'] /\ done' \in [Names -> 0 .. stored']
      /\ Good(stored) \subseteq Good(stored')
      /\ \A c \in Names : nets'[c] \in {nets[c], 0, stored + 1}
      /\ \A c \in Names : done'[c] \in {done[c], 0}
  BY <1>1, <1>3, StoreGrows
<1>5. /\ proc' \in [Procs -> Good(stored')]
      /\ \A p \in Procs \ {r} : proc'[p] = proc[p]
  BY <1>2, <1>4, ProcGood
<1>6. CountInv' /\ stored' \in 0 .. MaxReqs
  <2>1. Storing' = Storing \ {r} /\ r \in Storing
    BY <1>1, <1>2, <1>5 DEF Storing
  <2>2. IsFiniteSet(Storing) /\ stored + Cardinality(Storing) <= made
    BY DEF IInv, CountInv
  <2>3. Cardinality(Storing) \in Nat
    BY <2>2, FS_CardinalityType
  <2>4. IsFiniteSet(Storing') /\ Cardinality(Storing') = Cardinality(Storing) - 1
    BY <2>1, <2>2, FS_RemoveElement
  <2>5. Cardinality(Storing') \in Nat
    BY <2>4, FS_CardinalityType
  <2>6. stored' + Cardinality(Storing') <= made' /\ stored' <= made'
    <3>1. \A s, t, m, c, d \in Nat :
            s + c <= m /\ d = c - 1 /\ t \in {s, s + 1} => t + d <= m /\ t <= m
      OBVIOUS
    <3>2. stored' \in {stored, stored + 1} /\ made' = made /\ made \in Nat
      BY <1>1, <1>3
    <3> QED BY <1>3, <2>2, <2>3, <2>4, <2>5, <3>1, <3>2
  <2>7. stored' \in 0 .. MaxReqs
    BY <1>1, <1>3, <2>6
  <2> QED BY <2>4, <2>6, <2>7 DEF CountInv
<1>7. LocalInv' /\ TypeOK'
  <2>1. faults' \in 0 .. MaxFaults
    BY <1>1, IsolationAssumption DEF IInv, TypeOK, mayFail
  <2> QED BY <1>1, <1>4, <1>5, <1>6, <2>1 DEF IInv, LocalInv, TypeOK, Good, Locals
<1>8. RuleInv'
  BY <1>1, <1>2, <1>4, <1>5, NoNewCover, NothingListed DEF IInv
<1> QED BY <1>6, <1>7, <1>8 DEF IInv

LEMMA ElsewhereIInv ==
  ASSUME IInv, Elsewhere
  PROVE  IInv'
<1>1. /\ made < MaxReqs /\ made' = made + 1
      /\ UNCHANGED <<iface, Gateways, rules, proc, faults, done>>
      /\ spoiled' \subseteq Names
  BY DEF Elsewhere, IInv, TypeOK
<1>2. PICK a \in Names :
        \/ nets' = [nets EXCEPT ![a] = 0] /\ stored' = stored
        \/ nets' = [nets EXCEPT ![a] = stored + 1] /\ stored' = stored + 1
  BY DEF Elsewhere
<1>3. /\ made \in Nat /\ MaxReqs \in Nat /\ stored \in Nat
      /\ Cardinality(Storing) \in Nat /\ stored + Cardinality(Storing) <= made
  BY FS_CardinalityType, IsolationAssumption DEF IInv, TypeOK, CountInv
<1>4. stored <= made
  BY <1>3
<1>5. stored' \in Nat /\ stored' \in 0 .. MaxReqs /\ made' \in 0 .. MaxReqs
  BY <1>1, <1>2, <1>3, <1>4
<1>6. /\ nets' \in [Names -> 0 .. stored'] /\ done' \in [Names -> 0 .. stored']
      /\ Good(stored) \subseteq Good(stored')
      /\ \A c \in Names : nets'[c] \in {nets[c], 0, stored + 1}
      /\ \A c \in Names : done'[c] \in {done[c], 0}
  <2>1. CASE nets' = [nets EXCEPT ![a] = 0] /\ stored' = stored
    BY <1>1, <1>3, <2>1 DEF IInv, TypeOK
  <2>2. CASE nets' = [nets EXCEPT ![a] = stored + 1] /\ stored' = stored + 1
    BY <1>1, <1>5, <2>2, StoreGrows
  <2> QED BY <1>2, <2>1, <2>2
<1>7. LocalInv'
  BY <1>1, <1>6 DEF IInv, LocalInv
<1>8. TypeOK'
  BY <1>1, <1>5, <1>6, <1>7 DEF IInv, LocalInv, TypeOK, Good, Locals
<1>9. CountInv'
  <2>1. Storing' \subseteq Storing /\ stored' - stored <= made' - made
    BY <1>1, <1>2, <1>3 DEF Storing
  <2>2. made' \in Nat
    BY <1>1, <1>3
  <2> QED BY <1>3, <1>5, <2>1, <2>2, FewerStore DEF IInv
<1>10. RuleInv'
  <2>1. Sync \in Procs
    BY DEF Procs
  <2> QED BY <1>1, <1>6, <2>1, NoNewCover, NothingListed DEF IInv
<1> QED BY <1>7, <1>8, <1>9, <1>10 DEF IInv

-----------------------------------------------------------------------------
(* setupIPTables and the loop. *)

(* An error: the rest of the rules is left out. *)
LEMMA FailedIInv ==
  ASSUME IInv, NEW p \in Procs, proc[p].pc \in {"list", "rules"}, mayFail, Failed(p),
         UNCHANGED <<nets, iface, Gateways, rules, made, stored, done>>
  PROVE  IInv'
<1>1. proc[p].name \in Names
  BY ProcGood DEF Good
<1>2. /\ iface' \in [Names -> {"none", "half", "up"}] /\ Gateways' \subseteq Names
      /\ spoiled' \subseteq Names /\ faults' \in 0 .. MaxFaults
  BY <1>1, IsolationAssumption DEF IInv, TypeOK, Failed, Fault, Spoil, mayFail
<1>3. /\ proc' = [proc EXCEPT ![p] = proc'[p]] /\ proc'[p] \in Good(stored)
      /\ proc'[p].pc \in {"add", "idle"}
  BY ContinueGood DEF Failed
<1> QED BY <1>2, <1>3, QuietIInv

(* The networks are listed for the network a, which is stored: any other   *)
(* that is stored is on the list.                                          *)
LEMMA ListedIInv ==
  ASSUME IInv, NEW p \in Procs, proc[p].pc = "list",
         proc' = [proc EXCEPT ![p].pc = "rules", ![p].seen = Stored \ {proc[p].name},
                              ![p].of = nets[proc[p].name]],
         UNCHANGED <<nets, iface, Gateways, rules, made, stored, faults, done, spoiled>>
  PROVE  IInv'
<1> DEFINE a == proc[p].name
           x == [proc[p] EXCEPT !.pc = "rules", !.seen = Stored \ {a}, !.of = nets[a]]
<1>1. proc[p] \in Good(stored) /\ proc \in [Procs -> Good(stored)] /\ a \in Names
  BY ProcGood DEF Good
<1>2. Stored \in SUBSET Names /\ nets[a] \in 0 .. stored
  BY <1>1 DEF IInv, TypeOK, Stored
<1>3. x \in Good(stored) /\ x.pc = "rules" /\ x.name = a /\ x.seen = Stored \ {a}
  <2>1. proc[p] \in Locals(stored)
    BY <1>1 DEF Good
  <2>2. x.pc = "rules" /\ x.name = a /\ x.seen = Stored \ {a} /\ x.of = nets[a]
    BY <2>1 DEF Locals
  <2>3. x \in Locals(stored)
    BY <1>2, <2>1 DEF Locals
  <2> QED BY <1>1, <2>2, <2>3 DEF Good
<1>4. proc'[p] = x /\ \A r \in Procs \ {p} : proc'[r] = proc[r]
  BY <1>1
<1>5. LocalInv' /\ TypeOK'
  <2>1. proc' \in [Procs -> Good(stored)]
    BY <1>1, <1>3, <1>4
  <2> QED BY <2>1 DEF IInv, LocalInv, TypeOK, Good, Locals
<1>6. CountInv'
  <2>1. Storing' \subseteq Storing
    BY <1>3, <1>4 DEF Storing
  <2>2. made \in Nat /\ stored \in Nat
    BY IsolationAssumption DEF IInv, TypeOK
  <2> QED BY <2>1, <2>2, FewerStore DEF IInv
<1>7. RuleInv'
  <2>1. \A c \in Names, S \in SUBSET Names :
          Covers(c, S)' => c \in Stored /\ (Covers(c, S) \/ (c = a /\ S = Stored \ {a}))
    <3> SUFFICES ASSUME NEW c \in Names, NEW S \in SUBSET Names, Covers(c, S)'
                 PROVE  c \in Stored /\ (Covers(c, S) \/ (c = a /\ S = Stored \ {a}))
      OBVIOUS
    <3>1. nets' = nets /\ nets[c] # 0 /\ c \in Stored
      BY Zenon DEF Covers, Stored
    <3>2. CASE done[c] = nets[c] /\ S = {}
      BY <3>1, <3>2 DEF Covers, Stored
    <3>3. ASSUME NEW r \in Procs, proc'[r].pc = "rules", proc'[r].name = c,
                 proc'[r].of = nets[c], proc'[r].seen = S
          PROVE  Covers(c, S) \/ (c = a /\ S = Stored \ {a})
      <4>1. CASE r = p
        BY <1>3, <1>4, <3>3, <4>1
      <4>2. CASE r # p
        <5>1. proc'[r] = proc[r]
          BY <1>4, <4>2
        <5> QED BY <3>1, <3>3, <5>1, Zenon DEF Covers
      <4> QED BY <4>1, <4>2
    <3> QED BY <3>1, <3>2, <3>3 DEF Covers
  <2> QED BY <2>1 DEF IInv, RuleInv
<1> QED BY <1>5, <1>6, <1>7 DEF IInv

LEMMA ListNetworksIInv ==
  ASSUME IInv, NEW p \in Procs, ListNetworks(p)
  PROVE  IInv'
<1>1. /\ proc[p].pc = "list"
      /\ UNCHANGED <<nets, iface, Gateways, rules, made, stored, done>>
  BY DEF ListNetworks
<1>2. CASE /\ proc' = [proc EXCEPT ![p].pc = "rules", ![p].seen = Stored \ {proc[p].name},
                                   ![p].of = nets[proc[p].name]]
           /\ UNCHANGED <<faults, spoiled>>
  BY <1>1, <1>2, ListedIInv
<1>3. CASE mayFail /\ Failed(p)
  BY <1>1, <1>3, FailedIInv
<1>4. CASE mayFail /\ Fault(TRUE) /\ Spoil(proc[p].name) /\ Goto(p, "rules")
  <2>1. proc[p].name \in Names
    BY <1>1, ProcGood DEF Good
  <2>2. /\ iface' \in [Names -> {"none", "half", "up"}] /\ Gateways' \subseteq Names
        /\ spoiled' \subseteq Names /\ faults' \in 0 .. MaxFaults
    BY <1>1, <1>4, <2>1, IsolationAssumption DEF IInv, TypeOK, Fault, Spoil, mayFail
  <2>3. /\ proc' = [proc EXCEPT ![p] = proc'[p]] /\ proc'[p] \in Good(stored)
        /\ proc'[p].pc = "rules" /\ proc'[p].of = 0
    BY <1>1, <1>4, GotoGood
  <2> QED BY <1>1, <2>2, <2>3, QuietIInv
<1> QED BY <1>2, <1>3, <1>4, Zenon DEF ListNetworks

(* A rule is installed: what it was to cut off is cut off. *)
LEMMA InstallRuleIInv ==
  ASSUME IInv, NEW p \in Procs, InstallRule(p)
  PROVE  IInv'
<1>1. /\ proc[p].pc = "rules" /\ UNCHANGED <<nets, iface, Gateways, made, stored, done>>
  BY DEF InstallRule
<1>2. CASE mayFail /\ Failed(p) /\ UNCHANGED rules
  BY <1>1, <1>2, FailedIInv
<1>3. ASSUME NEW b \in proc[p].seen, rules' = rules \cup {<<proc[p].name, b>>},
             proc' = [proc EXCEPT ![p].seen = @ \ {b}], UNCHANGED <<faults, spoiled>>
      PROVE  IInv'
  <2> DEFINE a == proc[p].name
             x == [proc[p] EXCEPT !.seen = @ \ {b}]
  <2>1. proc[p] \in Good(stored) /\ proc \in [Procs -> Good(stored)]
    BY ProcGood
  <2>2. a \in Names /\ b \in Names /\ a # b /\ proc[p].seen \in SUBSET Names
    BY <1>1, <2>1 DEF Good, Locals
  <2>3. /\ x \in Good(stored) /\ x.pc = "rules" /\ x.name = a /\ x.of = proc[p].of
        /\ x.seen = proc[p].seen \ {b}
    <3>1. proc[p] \in Locals(stored)
      BY <2>1 DEF Good
    <3>2. /\ x.pc = "rules" /\ x.name = a /\ x.of = proc[p].of
          /\ x.seen = proc[p].seen \ {b}
      BY <1>1, <3>1 DEF Locals
    <3>3. x \in Locals(stored)
      BY <3>1 DEF Locals
    <3> QED BY <2>1, <2>2, <3>2, <3>3 DEF Good
  <2>4. proc'[p] = x /\ \A r \in Procs \ {p} : proc'[r] = proc[r]
    BY <1>3, <2>1
  <2>5. LocalInv' /\ TypeOK'
    <3>1. proc' \in [Procs -> Good(stored)]
      BY <1>3, <2>1, <2>3, <2>4
    <3>2. rules' \subseteq {e \in Names \X Names : e[1] # e[2]}
      BY <1>3, <2>2 DEF IInv, TypeOK
    <3> QED BY <1>1, <1>3, <3>1, <3>2 DEF IInv, LocalInv, TypeOK, Good, Locals
  <2>6. CountInv'
    <3>1. Storing' \subseteq Storing
      BY <2>3, <2>4 DEF Storing
    <3>2. made \in Nat /\ stored \in Nat
      BY IsolationAssumption DEF IInv, TypeOK
    <3> QED BY <1>1, <3>1, <3>2, FewerStore DEF IInv
  <2>7. \A c \in Names, S \in SUBSET Names : Covers(c, S)' =>
          \E T \in SUBSET Names : Covers(c, T) /\ \A d \in T : d \in S \/ <<c, d>> \in rules'
    <3> SUFFICES ASSUME NEW c \in Names, NEW S \in SUBSET Names, Covers(c, S)'
                 PROVE  \E T \in SUBSET Names :
                          Covers(c, T) /\ \A d \in T : d \in S \/ <<c, d>> \in rules'
      OBVIOUS
    <3>1. CASE Covers(c, S)
      BY <3>1
    <3>2. CASE /\ nets[c] # 0 /\ proc'[p].name = c /\ proc'[p].of = nets[c]
               /\ proc'[p].seen = S
      <4>1. Covers(c, proc[p].seen)
        BY <1>1, <2>3, <2>4, <3>2 DEF Covers
      <4> QED BY <1>3, <2>2, <2>3, <2>4, <3>2, <4>1
    <3> QED BY <1>1, <2>4, <3>1, <3>2 DEF Covers
  <2>8. RuleInv'
    <3> SUFFICES ASSUME NEW c \in Names, NEW d \in Names, NEW S \in SUBSET Names,
                        NEW T \in SUBSET Names, c # d, Covers(c, S)', Covers(d, T)'
                 PROVE  d \in S \/ c \in T \/ {<<c, d>>, <<d, c>>} \cap rules' # {}
      BY DEF RuleInv
    <3>1. PICK U \in SUBSET Names : Covers(c, U) /\ \A e \in U : e \in S \/ <<c, e>> \in rules'
      BY <2>7
    <3>2. PICK V \in SUBSET Names : Covers(d, V) /\ \A e \in V : e \in T \/ <<d, e>> \in rules'
      BY <2>7
    <3>3. d \in U \/ c \in V \/ {<<c, d>>, <<d, c>>} \cap rules # {}
      BY <3>1, <3>2 DEF IInv, RuleInv
    <3> QED BY <1>3, <3>1, <3>2, <3>3
  <2> QED BY <2>5, <2>6, <2>8 DEF IInv
<1> QED BY <1>2, <1>3 DEF InstallRule

(* The list is done with. *)
LEMMA SetUpIInv ==
  ASSUME IInv, NEW p \in Procs, SetUp(p)
  PROVE  IInv'
<1> DEFINE a == proc[p].name
<1>1. /\ proc[p].pc = "rules" /\ proc[p].seen = {} /\ Continue(p)
      /\ done' = [done EXCEPT ![a] = IF proc[p].of > @ THEN proc[p].of ELSE @]
      /\ UNCHANGED <<nets, iface, Gateways, rules, made, stored, faults, spoiled>>
  BY DEF SetUp
<1>2. proc[p] \in Good(stored) /\ a \in Names /\ proc[p].of \in 0 .. stored
  BY <1>1, ProcGood DEF Good, Locals
<1>3. /\ proc' \in [Procs -> Good(stored)] /\ proc'[p].pc \in {"add", "idle"}
      /\ \A r \in Procs \ {p} : proc'[r] = proc[r]
  BY <1>1, ContinueGood, ProcGood
<1>4. /\ done' \in [Names -> 0 .. stored] /\ done'[a] \in {done[a], proc[p].of}
      /\ \A c \in Names \ {a} : done'[c] = done[c]
  BY <1>1, <1>2 DEF IInv, TypeOK
<1>5. LocalInv' /\ TypeOK'
  BY <1>1, <1>3, <1>4 DEF IInv, LocalInv, TypeOK, Good, Locals
<1>6. CountInv'
  <2>1. Storing' \subseteq Storing
    BY <1>3 DEF Storing
  <2>2. made \in Nat /\ stored \in Nat
    BY IsolationAssumption DEF IInv, TypeOK
  <2> QED BY <1>1, <2>1, <2>2, FewerStore DEF IInv
<1>7. \A c \in Names, S \in SUBSET Names : Covers(c, S)' => Covers(c, S)
  <2> SUFFICES ASSUME NEW c \in Names, NEW S \in SUBSET Names, Covers(c, S)'
               PROVE  Covers(c, S)
    OBVIOUS
  <2>1. nets'[c] = nets[c] /\ nets[c] # 0
    BY <1>1 DEF Covers
  <2>2. CASE done'[c] = nets[c] /\ S = {}
    <3>1. CASE done'[c] = done[c]
      BY <2>1, <2>2, <3>1 DEF Covers
    <3>2. CASE c = a /\ proc[p].of = nets[c]
      BY <1>1, <2>1, <2>2, <3>2 DEF Covers
    <3> QED BY <1>4, <2>2, <3>1, <3>2
  <2>3. ASSUME NEW r \in Procs, proc'[r].pc = "rules", proc'[r].name = c,
               proc'[r].of = nets[c], proc'[r].seen = S
        PROVE  Covers(c, S)
    <3>1. proc'[r] = proc[r]
      BY <1>3, <2>3
    <3> QED BY <2>1, <2>3, <3>1 DEF Covers
  <2> QED BY <2>1, <2>2, <2>3 DEF Covers
<1> QED BY <1>1, <1>5, <1>6, <1>7, NothingListed DEF IInv

(* The loop of the node reads the list ... *)
LEMMA PollIInv ==
  ASSUME IInv, Poll
  PROVE  IInv'
<1>1. /\ proc[Sync].pc = "poll" /\ Sync \in Procs
      /\ UNCHANGED <<nets, iface, Gateways, rules, made, stored, done, spoiled>>
  BY DEF Poll, Procs
<1>2. PICK snap \in SUBSET Names :
        /\ proc' = [proc EXCEPT ![Sync] =
             [NoProc EXCEPT !.pc = "add", !.snap = snap, !.todo = snap]]
        /\ Fault(snap # Stored) /\ (snap = Stored \/ mayFail)
  BY DEF Poll, Stored
<1> DEFINE x == [NoProc EXCEPT !.pc = "add", !.snap = snap, !.todo = snap]
<1>3. x \in Good(stored) /\ x.pc = "add"
  <2>1. NoProc \in Locals(stored)
    BY IsolationAssumption DEF IInv, TypeOK, Locals, NoProc
  <2>2. x.pc = "add" /\ x.seen = {} /\ x.of = 0
    BY DEF NoProc
  <2>3. x \in Locals(stored)
    BY <2>1 DEF Locals
  <2> QED BY <2>2, <2>3 DEF Good
<1>4. /\ proc' = [proc EXCEPT ![Sync] = proc'[Sync]] /\ proc'[Sync] \in Good(stored)
      /\ proc'[Sync].pc = "add"
  BY <1>1, <1>2, <1>3, ProcGood
<1>5. faults' \in 0 .. MaxFaults
  BY <1>2, IsolationAssumption DEF IInv, TypeOK, Fault, mayFail
<1>6. /\ iface \in [Names -> {"none", "half", "up"}] /\ Gateways \subseteq Names
      /\ spoiled \subseteq Names
  BY DEF IInv, TypeOK
<1> QED BY <1>1, <1>4, <1>5, <1>6, QuietIInv

(* ... makes the interfaces that are not there ... *)
LEMMA SyncAddIInv ==
  ASSUME IInv, SyncAdd
  PROVE  IInv'
<1>1. /\ proc[Sync].pc = "add" /\ Sync \in Procs
      /\ UNCHANGED <<nets, rules, made, stored, done>>
  BY DEF SyncAdd, Procs
<1>2. proc[Sync] \in Good(stored) /\ proc \in [Procs -> Good(stored)]
  BY <1>1, ProcGood
<1>3. proc[Sync] \in Locals(stored) /\ proc[Sync].todo \in SUBSET Names
  BY <1>2 DEF Good, Locals
<1>4. PICK a \in proc[Sync].todo :
        LET rest == [proc[Sync] EXCEPT !.todo = @ \ {a}]
        IN  /\ \/ proc' = [proc EXCEPT ![Sync] = [rest EXCEPT !.pc = "list", !.name = a]]
               \/ proc' = [proc EXCEPT ![Sync] = rest]
            /\ iface' = iface \/ \E i \in {"half", "up"} : iface' = [iface EXCEPT ![a] = i]
            /\ Gateways' = Gateways \/ Gateways' = Gateways \cup {a}
            /\ spoiled' = spoiled \/ spoiled' = spoiled \cup {a}
            /\ faults' = faults \/ (mayFail /\ faults' = faults + 1)
  BY Zenon DEF SyncAdd, Fault, Spoil
<1> DEFINE rest == [proc[Sync] EXCEPT !.todo = @ \ {a}]
           x == [rest EXCEPT !.pc = "list", !.name = a]
<1>5. a \in Names
  BY <1>3
<1>6. rest \in Good(stored) /\ rest.pc = "add"
  <2>1. rest.pc = "add" /\ rest.seen = {} /\ rest.of = 0
    BY <1>1, <1>2, <1>3 DEF Good, Locals
  <2>2. rest \in Locals(stored)
    BY <1>3 DEF Locals
  <2> QED BY <2>1, <2>2 DEF Good
<1>7. x \in Good(stored) /\ x.pc = "list"
  <2> HIDE DEF rest
  <2>1. rest \in Locals(stored) /\ rest.seen = {} /\ rest.of = 0
    BY <1>6 DEF Good
  <2>2. x.pc = "list" /\ x.seen = {} /\ x.of = 0 /\ x.name = a
    BY <2>1 DEF Locals
  <2>3. x \in Locals(stored)
    BY <1>5, <2>1 DEF Locals
  <2> QED BY <1>5, <2>2, <2>3 DEF Good
<1>8. /\ proc' = [proc EXCEPT ![Sync] = proc'[Sync]] /\ proc'[Sync] \in Good(stored)
      /\ proc'[Sync].pc \in {"add", "list"}
  <2>1. proc' = [proc EXCEPT ![Sync] = x] \/ proc' = [proc EXCEPT ![Sync] = rest]
    BY <1>4
  <2> HIDE DEF rest, x
  <2> QED BY <1>1, <1>2, <1>6, <1>7, <2>1
<1>9. /\ iface' \in [Names -> {"none", "half", "up"}] /\ Gateways' \subseteq Names
      /\ spoiled' \subseteq Names /\ faults' \in 0 .. MaxFaults
  BY <1>4, <1>5, IsolationAssumption DEF IInv, TypeOK, mayFail
<1> QED BY <1>1, <1>8, <1>9, QuietIInv

(* ... and deletes those it made that are not on the list. *)
LEMMA SyncPruneIInv ==
  ASSUME IInv, SyncPrune
  PROVE  IInv'
<1>1. /\ Sync \in Procs /\ deletePorts(Gateways \ proc[Sync].snap)
      /\ Gateways' \subseteq Gateways /\ proc' = [proc EXCEPT ![Sync] = Loop]
      /\ UNCHANGED <<nets, rules, made, stored, faults>>
  BY DEF SyncPrune, Procs
<1>2. Loop \in Good(stored) /\ Loop.pc = "poll"
  <2>1. NoProc \in Locals(stored)
    BY IsolationAssumption DEF IInv, TypeOK, Locals, NoProc
  <2>2. Loop.pc = "poll" /\ Loop.seen = {} /\ Loop.of = 0
    BY DEF NoProc, Loop
  <2>3. Loop \in Locals(stored)
    BY <2>1 DEF Locals, Loop
  <2> QED BY <2>2, <2>3 DEF Good
<1>3. /\ proc' = [proc EXCEPT ![Sync] = proc'[Sync]] /\ proc'[Sync] \in Good(stored)
      /\ proc'[Sync].pc = "poll"
  BY <1>1, <1>2, ProcGood
<1>4. /\ nets \in [Names -> 0 .. stored] /\ Gateways \subseteq Names
      /\ faults \in 0 .. MaxFaults
  BY DEF IInv, TypeOK
<1>5. /\ iface' \in [Names -> {"none", "half", "up"}] /\ spoiled' \subseteq Names
      /\ done' \in [Names -> 0 .. stored] /\ \A a \in Names : done'[a] \in {done[a], 0}
  BY <1>1, <1>4, deletePortsProps
<1> QED BY <1>1, <1>3, <1>4, <1>5, MoveIInv

-----------------------------------------------------------------------------
LEMMA NextIInv == IInv /\ [Next]_vars => IInv'
<1> SUFFICES ASSUME IInv, [Next]_vars PROVE IInv'
  OBVIOUS
<1>1. CASE UNCHANGED vars
  <2>1. TypeOK' /\ LocalInv' /\ Storing' = Storing /\ RuleInv'
    BY <1>1 DEF vars, IInv, TypeOK, LocalInv, Storing, RuleInv, Covers
  <2>2. CountInv'
    BY <1>1, <2>1, FewerStore, IsolationAssumption DEF vars, IInv, TypeOK
  <2> QED BY <2>1, <2>2 DEF IInv
<1>2. ASSUME NEW p \in Procs, setupIPTables(p)
      PROVE  IInv'
  BY <1>2, ListNetworksIInv, InstallRuleIInv, SetUpIInv DEF setupIPTables
<1>3. ASSUME NEW r \in Reqs, CreateNetwork(r) \/ DeleteNetwork(r) \/ Step(r)
      PROVE  IInv'
  <2>1. r \in Procs
    BY DEF Procs
  <2>2. CASE CreateNetwork(r) \/ DeleteNetwork(r)
    BY <2>1, <2>2, BeginIInv DEF CreateNetwork, DeleteNetwork
  <2>3. CASE Step(r)
    BY <1>2, <2>1, <2>3, GetNetworkIInv, CreateInterfaceIInv, PutGetIInv, PutCasIInv,
       DeleteNetIInv, DeleteInterfaceIInv DEF Step
  <2> QED BY <1>3, <2>2, <2>3
<1>4. CASE syncNetwork
  <2>1. Sync \in Procs
    BY DEF Procs
  <2> QED BY <1>2, <1>4, <2>1, PollIInv, SyncAddIInv, SyncPruneIInv DEF syncNetwork
<1> QED BY <1>1, <1>3, <1>4, ElsewhereIInv DEF Next

LEMMA SpecIInv == Spec => []IInv
  BY InitIInv, NextIInv, PTL DEF Spec

(* Every variable of Isolation keeps its type; no rule cuts an interface   *)
(* off from itself, and no more networks are stored than requests made.    *)
THEOREM TypeCorrect == Spec => []TypeOK
<1>1. IInv => TypeOK
  BY DEF IInv
<1> QED BY <1>1, SpecIInv, PTL

(* "disable outgoing connections on other vlan gateway"                    *)
(* (connection.go:366): whatever requests, loops and other nodes do, of    *)
(* two stored networks that the node has set up one is cut off from the    *)
(* other.                                                                  *)
THEOREM SetUpNetworksAreIsolated == Spec => []Isolated
<1>1. ASSUME IInv
      PROVE  Isolated
  <2> SUFFICES ASSUME NEW a \in Names, NEW b \in Names, a # b, IsSetUp(a), IsSetUp(b)
               PROVE  {<<a, b>>, <<b, a>>} \cap rules # {}
    BY DEF Isolated
  <2>1. Covers(a, {}) /\ Covers(b, {})
    BY DEF Covers, IsSetUp, Stored
  <2> QED BY <1>1, <2>1 DEF IInv, RuleInv
<1> QED BY <1>1, SpecIInv, PTL
=============================================================================
