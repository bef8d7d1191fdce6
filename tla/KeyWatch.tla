------------------------------ MODULE KeyWatch ------------------------------
(***************************************************************************)
(* Listeners of one key of the store (netAgent/netAgent.go):               *)
(* RegisterForKeyUpdates enters a listener in the map watches and, for the *)
(* first one of the key, runs a consul watch whose handler,                *)
(* updateKeyListeners, notifies all of them.  Callers run it in goroutines *)
(* of their own, and watches has no lock: what one call reads may have     *)
(* changed when it writes.                                                 *)
(*                                                                         *)
(* An entry of the store has the indices of its creation and of its last   *)
(* change, which stand for its value; an absent one has the index of its   *)
(* deletion.                                                               *)
(***************************************************************************)
EXTENDS Integers, Sequences, FiniteSets, Functions

CONSTANTS
  Listeners,  \* the listeners
  Calls,      \* calls of RegisterForKeyUpdates
  NoListener, \* none
  MaxWrites,  \* bound: writes and deletions of the key
  MaxOthers   \* bound: writes of other keys

ASSUME KeyWatchAssumption ==
  IsFiniteSet(Calls) /\ MaxWrites \in Nat /\ MaxOthers \in Nat

VARIABLES
  kv,         \* the entry of the key
  idx,        \* the index of the last write of any key
  listeners,  \* watches[WATCH_TYPE_KEY].listeners[key]
  call,       \* the calls: step, listener, the list they read, and the index
              \* at which the listener was entered
  plan,       \* the watch that a call runs
  told,       \* the last notification of each listener
  raced,      \* history: two calls entered their listeners at once
  writes, others   \* counters

vars == <<kv, idx, listeners, call, plan, told, raced, writes, others>>

NoCall == [pc |-> "new", listener |-> NoListener, list |-> <<>>, since |-> 0]
Nil == [create |-> 0, modify |-> 0]
NoPlan == [lastIndex |-> 0, lastResult |-> Nil, pending |-> FALSE]
Silent == [type |-> "none", index |-> 0, create |-> 0]

Init ==
  /\ kv = Nil /\ idx = 1
  /\ listeners = <<>>
  /\ call = [c \in Calls |-> NoCall] /\ plan = [c \in Calls |-> NoPlan]
  /\ told = [l \in Listeners |-> Silent]
  /\ raced = FALSE /\ writes = 0 /\ others = 0

-----------------------------------------------------------------------------
(* The store. *)
Put ==
  /\ writes < MaxWrites /\ writes' = writes + 1
  /\ idx' = idx + 1
  /\ kv' = [create |-> IF kv.create = 0 THEN idx + 1 ELSE kv.create,
            modify |-> idx + 1]
  /\ UNCHANGED <<listeners, call, plan, told, raced, others>>

Delete ==
  /\ kv.create # 0
  /\ writes < MaxWrites /\ writes' = writes + 1
  /\ idx' = idx + 1
  /\ kv' = [create |-> 0, modify |-> idx + 1]
  /\ UNCHANGED <<listeners, call, plan, told, raced, others>>

OtherKey ==
  /\ others < MaxOthers /\ others' = others + 1
  /\ idx' = idx + 1
  /\ UNCHANGED <<kv, listeners, call, plan, told, raced, writes>>

-----------------------------------------------------------------------------
(* contains is asked about the listeners of nodes, which have the key "":  *)
(* it never finds a listener of this key.                                  *)
contains(l) == l \in Range(<<>>)

(* addListener reads the list ... *)
RegisterForKeyUpdates(c, l) ==
  /\ call[c].pc = "new" /\ ~contains(l)
  /\ call' = [call EXCEPT ![c] = [pc |-> "append", listener |-> l,
                                  list |-> listeners, since |-> 0]]
  /\ UNCHANGED <<kv, idx, listeners, plan, told, raced, writes, others>>

(* Mutants of extended: the others are lost; the listener is entered twice. *)
extendedAlone(list, l) == <<l>>
extendedTwice(list, l) == list \o <<l, l>>

extended(list, l) == Append(list, l)

(* ... and writes it back with the listener; if there was none, the call   *)
(* goes on to run a watch.                                                 *)
addListener(c) ==
  /\ call[c].pc = "append"
  /\ listeners' = extended(call[c].list, call[c].listener)
  /\ raced' = (raced \/ listeners # call[c].list)
  /\ call' = [call EXCEPT ![c] =
                [@ EXCEPT !.pc = IF call[c].list = <<>> THEN "run" ELSE "done",
                          !.since = idx]]
  /\ UNCHANGED <<kv, idx, plan, told, writes, others>>

-----------------------------------------------------------------------------
(* The answer of consul: an absent key has the index of the whole table.   *)
Index == IF kv.create = 0 THEN idx ELSE kv.modify
Result == IF kv.create = 0 THEN Nil ELSE kv

(* One turn of the loop of a watch plan: the query blocks until the index  *)
(* changes, and is repeated when it fails; a result equal to the last one  *)
(* is not handled.                                                         *)
Run(c) ==
  LET same == plan[c].lastIndex # 0 /\ plan[c].lastResult = Result
  IN  /\ call[c].pc = "run" /\ ~plan[c].pending /\ Index # plan[c].lastIndex
      /\ plan' = [plan EXCEPT ![c] = [lastIndex |-> Index, lastResult |-> Result,
                                      pending |-> ~same]]
      /\ UNCHANGED <<kv, idx, listeners, call, told, raced, writes, others>>

(* Mutant of updateType: an entry with a CreateIndex is new. *)
updateTypeNew(index, entry) == IF entry = Nil THEN "DELETE" ELSE "ADD"

(* A key that is absent is deleted, even if it never existed; one that     *)
(* changed since it was created is modified, even if nobody was told of    *)
(* its creation.                                                           *)
updateType(index, entry) ==
  IF entry = Nil THEN "DELETE" ELSE IF index = entry.create THEN "ADD" ELSE "MODIFY"

(* The handler of the watch: every listener of the key is notified. *)
updateKeyListeners(c) ==
  LET index == plan[c].lastIndex
      entry == plan[c].lastResult
      notice == [type |-> updateType(index, entry), index |-> index,
                 create |-> entry.create]
  IN  /\ plan[c].pending
      /\ plan' = [plan EXCEPT ![c].pending = FALSE]
      /\ told' = [l \in Listeners |->
                    IF l \in Range(listeners) THEN notice ELSE told[l]]
      /\ UNCHANGED <<kv, idx, listeners, call, raced, writes, others>>

registerForKeyUpdates(c) == Run(c) \/ updateKeyListeners(c)

Next ==
  \/ Put \/ Delete \/ OtherKey
  \/ \E c \in Calls :
       \/ \E l \in Listeners : RegisterForKeyUpdates(c, l)
       \/ addListener(c)
       \/ registerForKeyUpdates(c)

Spec == Init /\ [][Next]_vars

(* The goroutines of the calls run; the store is written at any time. *)
FairSpec ==
  /\ Spec
  /\ \A c \in Calls : WF_vars(addListener(c)) /\ WF_vars(registerForKeyUpdates(c))

-----------------------------------------------------------------------------
TypeOK ==
  /\ kv \in [create : 0 .. idx, modify : 0 .. idx] /\ idx \in Nat
  /\ Len(listeners) <= Cardinality(Calls) /\ Range(listeners) \subseteq Listeners
  /\ \A c \in Calls :
       /\ call[c].pc \in {"new", "append", "run", "done"}
       /\ call[c].listener \in Listeners \cup {NoListener}
       /\ plan[c].lastIndex \in 0 .. idx /\ plan[c].pending \in BOOLEAN
  /\ told \in [Listeners -> [type : {"none", "ADD", "MODIFY", "DELETE"},
                            index : 0 .. idx, create : 0 .. idx]]
  /\ raced \in BOOLEAN /\ writes \in 0 .. MaxWrites /\ others \in 0 .. MaxOthers

(* updateKeyListeners (netAgent.go:473): a listener is told of the changes *)
(* in their order, and of the creation of an entry at most once and before *)
(* its modifications, unless two calls entered listeners at the same time, *)
(* after which two watches may run.                                        *)
ToldInOrder ==
  [][\A l \in Listeners :
       told'[l] # told[l] /\ ~raced =>
         /\ told'[l].index > told[l].index
         /\ told'[l].type = "ADD" => told'[l].create # told[l].create]_vars

(* The listener of c is entered; it was told what has become of the key.  *)
Entered(c) == call[c].pc \in {"run", "done"}
Informed(c) ==
  LET last == told[call[c].listener]
  IN  IF kv.create = 0 THEN last.type \in {"none", "DELETE"}
      ELSE last.index = kv.modify /\ last.type # "DELETE"

(* updateKeyListeners (netAgent.go:473): when a watch has seen the last    *)
(* index and its handler has returned, every listener that was registered  *)
(* before the last change of the key has been told of it, by this watch,   *)
(* the one that the first of them started: nobody is left out who was      *)
(* entered while the handler or the query was under way.                   *)
CaughtUp ==
  ~raced =>
    \A w \in Calls :
      call[w].pc = "run" /\ ~plan[w].pending /\ plan[w].lastIndex = Index =>
        \A c \in Calls : Entered(c) /\ kv.modify > call[c].since => Informed(c)

(* Whoever is registered when the key changes is told in the end what has  *)
(* become of it, though changes in between may be skipped, unless the      *)
(* listener was lost to a call that entered another one at the same time   *)
(* (netAgent.go:377).                                                      *)
ToldLatest ==
  \A c \in Calls :
    <>[](Entered(c) /\ kv.modify > call[c].since /\ ~raced => Informed(c))
=============================================================================
