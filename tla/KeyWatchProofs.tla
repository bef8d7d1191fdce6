--------------------------- MODULE KeyWatchProofs ---------------------------
(***************************************************************************)
(* Proofs about KeyWatch.  Until two calls race, one watch runs for the    *)
(* key, its index only grows, and it tells every listener that was entered *)
(* of what it has seen.                                                    *)
(***************************************************************************)
EXTENDS KeyWatch, FiniteSetTheorems, TLAPS

Entry == [create : Nat, modify : Nat]
Call == [pc : {"new", "append", "run", "done"},
         listener : Listeners \cup {NoListener}, list : Seq(Listeners), since : Nat]
Plan == [lastIndex : Nat, lastResult : Entry, pending : BOOLEAN]
Notice == [type : {"none", "ADD", "MODIFY", "DELETE"}, index : Nat, create : Nat]

Types ==
  /\ kv \in Entry /\ idx \in Nat /\ listeners \in Seq(Listeners)
  /\ call \in [Calls -> Call] /\ plan \in [Calls -> Plan]
  /\ told \in [Listeners -> Notice]
  /\ raced \in BOOLEAN /\ writes \in 0 .. MaxWrites /\ others \in 0 .. MaxOthers

StoreInv == 1 <= idx /\ kv.create <= kv.modify /\ kv.modify <= idx

(* What a watch has seen is a state of the store, not later than now. *)
Seen(p) ==
  /\ p.lastIndex <= Index
  /\ p.lastIndex = Index => p.lastResult = Result
  /\ p.lastResult.create = 0 => p.lastResult = Nil
  /\ p.lastResult.create # 0 =>
       p.lastResult.create <= p.lastIndex /\ p.lastResult.modify = p.lastIndex
PlanInv == \A c \in Calls : Seen(plan[c]) /\ (call[c].pc # "run" => plan[c] = NoPlan)

(* A list is no longer than the calls that wrote one. *)
Wrote == {c \in Calls : Entered(c)}
ListInv ==
  /\ Len(listeners) <= Cardinality(Wrote)
  /\ \A c \in Calls :
       /\ call[c].pc = "append" => Len(call[c].list) <= Cardinality(Wrote)
       /\ call[c].pc # "new" => call[c].listener \in Listeners
       /\ Entered(c) => listeners # <<>>

ToldInv ==
  \A l \in Listeners :
    /\ told[l].create <= told[l].index /\ told[l].index <= idx
    /\ told[l] # Silent => \E w \in Calls : call[w].pc = "run"

(* Without a race: one watch, all the listeners of calls are in the list,  *)
(* and nobody else was ever told anything.                                 *)
OneWatch == \A c, d \in Calls : call[c].pc = "run" /\ call[d].pc = "run" => c = d
Kept ==
  /\ \A c \in Calls : Entered(c) => call[c].listener \in Range(listeners)
  /\ \A l \in Listeners : l \notin Range(listeners) => told[l] = Silent

(* The watch of w is ahead of its listeners while its handler is pending,  *)
(* and has told them what it saw when it is not.                           *)
Behind(w) ==
  \A l \in Listeners :
    /\ told[l].index <= plan[w].lastIndex
    /\ plan[w].pending => told[l].index < plan[w].lastIndex
Told(w) ==
  /\ plan[w].lastResult.create = 0 =>
       \A l \in Listeners : told[l].type \in {"none", "DELETE"}
  /\ plan[w].lastResult.create # 0 =>
       \A c \in Calls :
         Entered(c) /\ plan[w].lastResult.modify > call[c].since =>
           /\ told[call[c].listener].index = plan[w].lastIndex
           /\ told[call[c].listener].type # "DELETE"
WatchInv ==
  \A w \in Calls :
    call[w].pc = "run" => Behind(w) /\ (~plan[w].pending => Told(w))

RaceInv == ~raced => OneWatch /\ Kept /\ WatchInv

IInv == Types /\ StoreInv /\ PlanInv /\ ListInv /\ ToldInv /\ RaceInv

-----------------------------------------------------------------------------
(* The index of the answer is one of the store. *)
LEMMA IndexBounds ==
  ASSUME kv \in Entry, idx \in Nat, StoreInv
  PROVE  Index \in Nat /\ 1 <= Index /\ Index <= idx
BY SMT DEF Entry, StoreInv, Index

(* The answer is nothing, or an entry last changed at its index. *)
LEMMA ResultProps ==
  ASSUME kv \in Entry, StoreInv
  PROVE  /\ Result \in Entry
         /\ Result.create = 0 => Result = Nil
         /\ Result.create # 0 => Result.create <= Index /\ Result.modify = Index
BY SMT DEF Entry, StoreInv, Index, Result, Nil

LEMMA InitInv == Init => IInv
<1> SUFFICES ASSUME Init PROVE IInv
  OBVIOUS
<1>0. Nil \in Entry /\ NoPlan \in Plan /\ NoCall \in Call /\ Silent \in Notice
  BY SMT DEF Nil, Entry, NoPlan, Plan, NoCall, Call, Silent, Notice
<1>1. Types
  <2>1. kv \in Entry /\ raced \in BOOLEAN /\ call \in [Calls -> Call]
    BY <1>0, Zenon DEF Init
  <2>2. plan \in [Calls -> Plan] /\ told \in [Listeners -> Notice]
    BY <1>0, Zenon DEF Init
  <2>3. idx \in Nat /\ listeners \in Seq(Listeners)
    BY SMT DEF Init
  <2>4. writes \in 0 .. MaxWrites /\ others \in 0 .. MaxOthers
    BY KeyWatchAssumption, SMT DEF Init
  <2> QED
    BY <2>1, <2>2, <2>3, <2>4, Zenon DEF Types
<1>2. StoreInv
  BY SMT DEF Init, StoreInv, Nil
<1>3. \A c \in Calls : call[c].pc = "new" /\ plan[c] = NoPlan
  BY SMT DEF Init, NoCall
<1>4. PlanInv
  <2>1. Index = 1
    BY SMT DEF Init, Index, Nil
  <2>2. Seen(NoPlan)
    BY <2>1, SMT DEF Seen, NoPlan, Nil
  <2> QED
    BY <1>3, <2>2, Zenon DEF PlanInv
<1>5. ListInv
  <2>1. Wrote = {}
    BY <1>3, Zenon DEF Wrote, Entered
  <2>2. Len(listeners) <= Cardinality(Wrote)
    BY <2>1, FS_EmptySet, SMT DEF Init
  <2> QED
    BY <1>3, <2>2, Zenon DEF ListInv, Entered
<1>6. ToldInv
  BY SMT DEF Init, ToldInv, Silent
<1>7. RaceInv
  BY <1>3, Zenon DEF RaceInv, OneWatch, Kept, WatchInv, Entered, Init
<1> QED
  BY <1>1, <1>2, <1>4, <1>5, <1>6, <1>7 DEF IInv

-----------------------------------------------------------------------------
(* A write of the store only moves the answer to a later index, or leaves  *)
(* it as it is: what the watches have seen stays true.                     *)
LEMMA StoreStep ==
  ASSUME IInv, kv' \in Entry, idx' = idx + 1, StoreInv',
         Index' = idx + 1 \/ (Index' = Index /\ Result' = Result),
         writes' \in 0 .. MaxWrites, others' \in 0 .. MaxOthers,
         UNCHANGED <<listeners, call, plan, told, raced>>
  PROVE  IInv'
<1>1. Types'
  BY SMT DEF IInv, Types
<1>2. PlanInv'
  <2> SUFFICES ASSUME NEW c \in Calls
               PROVE  Seen(plan[c])'
    BY Zenon DEF IInv, PlanInv
  <2>1. Seen(plan[c]) /\ plan[c] \in Plan
    BY Zenon DEF IInv, PlanInv, Types
  <2>2. Index <= idx /\ Index \in Nat /\ idx \in Nat
    BY IndexBounds DEF IInv, Types
  <2>3. plan[c].lastIndex \in Nat
    BY <2>1, SMT DEF Plan
  <2> QED
    BY <2>1, <2>2, <2>3, SMT DEF Seen
<1>3. ListInv'
  BY Zenon DEF IInv, ListInv, Wrote, Entered
<1>4. ToldInv'
  <2>1. \A l \in Listeners : told[l].index \in Nat
    BY SMT DEF IInv, Types, Notice
  <2>2. \A l \in Listeners : told[l].index <= idx => told[l].index <= idx'
    BY <2>1, SMT DEF IInv, Types
  <2> QED
    BY <2>2, Zenon DEF IInv, ToldInv
<1>5. RaceInv'
  BY Zenon DEF IInv, RaceInv, OneWatch, Kept, WatchInv, Behind, Told, Entered
<1> QED
  BY <1>1, <1>2, <1>3, <1>4, <1>5, Zenon DEF IInv

LEMMA PutInv == IInv /\ Put => IInv'
<1> SUFFICES ASSUME IInv, Put PROVE IInv'
  OBVIOUS
<1>1. kv' \in Entry /\ idx' = idx + 1 /\ StoreInv' /\ Index' = idx + 1
  BY SMT DEF IInv, Types, Put, Entry, StoreInv, Index
<1>2. writes' \in 0 .. MaxWrites /\ others' \in 0 .. MaxOthers
  BY KeyWatchAssumption, SMT DEF IInv, Types, Put
<1> QED
  BY <1>1, <1>2, StoreStep DEF Put

LEMMA DeleteInv == IInv /\ Delete => IInv'
<1> SUFFICES ASSUME IInv, Delete PROVE IInv'
  OBVIOUS
<1>1. kv' \in Entry /\ idx' = idx + 1 /\ StoreInv' /\ Index' = idx + 1
  BY SMT DEF IInv, Types, Delete, Entry, StoreInv, Index
<1>2. writes' \in 0 .. MaxWrites /\ others' \in 0 .. MaxOthers
  BY KeyWatchAssumption, SMT DEF IInv, Types, Delete
<1> QED
  BY <1>1, <1>2, StoreStep DEF Delete

LEMMA OtherKeyInv == IInv /\ OtherKey => IInv'
<1> SUFFICES ASSUME IInv, OtherKey PROVE IInv'
  OBVIOUS
<1>1. kv' \in Entry /\ idx' = idx + 1 /\ StoreInv'
  BY SMT DEF IInv, Types, OtherKey, Entry, StoreInv
<1>2. Index' = idx + 1 \/ (Index' = Index /\ Result' = Result)
  BY SMT DEF IInv, Types, OtherKey, Index, Result
<1>3. writes' \in 0 .. MaxWrites /\ others' \in 0 .. MaxOthers
  BY KeyWatchAssumption, SMT DEF IInv, Types, OtherKey
<1> QED
  BY <1>1, <1>2, <1>3, StoreStep DEF OtherKey

-----------------------------------------------------------------------------
(* A call that has read the list is not entered yet, and knows the list    *)
(* that was there.                                                         *)
LEMMA RegisterInv ==
  ASSUME IInv, NEW c \in Calls, NEW l \in Listeners, RegisterForKeyUpdates(c, l)
  PROVE  IInv'
<1>0. call[c].pc = "new"
  BY Zenon DEF RegisterForKeyUpdates
<1>1. Types'
  <2>1. [pc |-> "append", listener |-> l, list |-> listeners, since |-> 0] \in Call
    BY SMT DEF IInv, Types, Call
  <2>2. call' \in [Calls -> Call]
    BY <2>1, Zenon DEF IInv, Types, RegisterForKeyUpdates
  <2> QED
    BY <2>2, Zenon DEF IInv, Types, RegisterForKeyUpdates
<1>2. /\ call'[c].pc = "append" /\ call'[c].listener = l
      /\ call'[c].list = listeners
      /\ \A d \in Calls : d # c => call'[d] = call[d]
  BY SMT DEF IInv, Types, RegisterForKeyUpdates
<1>3. /\ \A d \in Calls : (Entered(d)' <=> Entered(d)) /\ (Entered(d) => d # c)
      /\ \A d \in Calls : call'[d].pc = "run" <=> call[d].pc = "run"
  BY <1>0, <1>2, SMT DEF Entered
<1>4. StoreInv'
  BY Zenon DEF IInv, StoreInv, RegisterForKeyUpdates
<1>5. PlanInv'
  BY <1>3, Zenon DEF IInv, PlanInv, Seen, Index, Result, RegisterForKeyUpdates
<1>6. ListInv'
  <2>1. Wrote' = Wrote
    BY <1>3, Zenon DEF Wrote
  <2>2. UNCHANGED listeners
    BY Zenon DEF RegisterForKeyUpdates
  <2>3. ASSUME NEW d \in Calls
        PROVE  /\ call'[d].pc = "append" => Len(call'[d].list) <= Cardinality(Wrote)
               /\ call'[d].pc # "new" => call'[d].listener \in Listeners
               /\ Entered(d)' => listeners # <<>>
    <3>1. CASE d = c
      BY <3>1, <1>2, <1>3, Zenon DEF IInv, ListInv
    <3>2. CASE d # c
      BY <3>2, <1>2, <1>3, Zenon DEF IInv, ListInv
    <3> QED
      BY <3>1, <3>2
  <2> QED
    BY <2>1, <2>2, <2>3, Zenon DEF IInv, ListInv
<1>7. ToldInv'
  BY <1>3, Zenon DEF IInv, ToldInv, RegisterForKeyUpdates
<1>8. RaceInv'
  <2> SUFFICES ASSUME ~raced PROVE (OneWatch /\ Kept /\ WatchInv)'
    BY Zenon DEF RaceInv, RegisterForKeyUpdates
  <2>0. OneWatch /\ Kept /\ WatchInv
    BY Zenon DEF IInv, RaceInv
  <2>1. OneWatch'
    BY <2>0, <1>3, Zenon DEF OneWatch
  <2>2. Kept'
    BY <2>0, <1>2, <1>3, Zenon DEF Kept, RegisterForKeyUpdates
  <2>3. ASSUME NEW w \in Calls, call'[w].pc = "run"
        PROVE  (Behind(w) /\ (~plan[w].pending => Told(w)))'
    <3>1. Behind(w) /\ (~plan[w].pending => Told(w))
      BY <2>0, <2>3, <1>3, Zenon DEF WatchInv
    <3>2. UNCHANGED <<plan, told>>
      BY Zenon DEF RegisterForKeyUpdates
    <3>3. Behind(w)'
      BY <3>1, <3>2, Zenon DEF Behind
    <3>4. \A d \in Calls : Entered(d)' => Entered(d) /\ call'[d] = call[d]
      BY <1>2, <1>3, Zenon
    <3>5. Told(w) => Told(w)'
      BY <3>2, <3>4, Zenon DEF Told
    <3> QED
      BY <3>1, <3>2, <3>3, <3>5, Zenon
  <2> QED
    BY <2>1, <2>2, <2>3, Zenon DEF WatchInv
<1> QED
  BY <1>1, <1>4, <1>5, <1>6, <1>7, <1>8, Zenon DEF IInv

(* What Append does to a list. *)
LEMMA Extended ==
  ASSUME NEW s \in Seq(Listeners), NEW l \in Listeners
  PROVE  /\ extended(s, l) \in Seq(Listeners)
         /\ extended(s, l) # <<>> /\ Len(extended(s, l)) = Len(s) + 1
         /\ Range(extended(s, l)) = Range(s) \cup {l}
<1>1. extended(s, l) \in Seq(Listeners) /\ Len(extended(s, l)) = Len(s) + 1
  BY SMT DEF extended
<1>2. DOMAIN s = 1 .. Len(s) /\ DOMAIN extended(s, l) = 1 .. (Len(s) + 1)
  BY SMT DEF extended
<1>3. \A i \in 1 .. (Len(s) + 1) :
         extended(s, l)[i] = IF i <= Len(s) THEN s[i] ELSE l
  BY SMT DEF extended
<1>4. Len(s) \in Nat
  BY SMT
<1>5. Range(extended(s, l)) = Range(s) \cup {l}
  BY <1>2, <1>3, <1>4, SMT DEF Range
<1>6. extended(s, l) # <<>>
  BY <1>1, <1>4, SMT
<1> QED
  BY <1>1, <1>5, <1>6, Zenon

(* A call writes the list it read with its listener, and counts from then  *)
(* on.  Unless the list had changed, nobody is lost, and the watch it may  *)
(* start is the first.                                                     *)
LEMMA AddListenerInv ==
  ASSUME IInv, NEW c \in Calls, addListener(c)
  PROVE  IInv'
<1> DEFINE L == call[c].list
           l == call[c].listener
<1>0. /\ call[c].pc = "append" /\ listeners' = extended(L, l)
      /\ UNCHANGED <<kv, idx, plan, told, writes, others>>
      /\ raced' = (raced \/ listeners # L)
  BY Zenon DEF addListener
<1>1. call[c] \in Call /\ L \in Seq(Listeners) /\ l \in Listeners
  <2>1. call[c] \in Call
    BY Zenon DEF IInv, Types
  <2>2. L \in Seq(Listeners)
    BY <2>1, SMT DEF Call
  <2>3. l \in Listeners
    BY <1>0, SMT DEF IInv, ListInv
  <2> QED
    BY <2>1, <2>2, <2>3
<1>2. /\ call'[c].pc = IF L = <<>> THEN "run" ELSE "done"
      /\ call'[c].listener = l /\ call'[c].since = idx /\ call'[c] \in Call
      /\ \A d \in Calls : d # c => call'[d] = call[d]
      /\ call' \in [Calls -> Call]
  <2> DEFINE r == [call[c] EXCEPT !.pc = IF L = <<>> THEN "run" ELSE "done",
                                  !.since = idx]
  <2>1. call' = [call EXCEPT ![c] = r]
    BY Zenon DEF addListener
  <2>2. call \in [Calls -> Call] /\ idx \in Nat
    BY Zenon DEF IInv, Types
  <2>3. r \in Call
    BY <2>2, <1>1, Zenon DEF Call
  <2>4. /\ r.pc = IF L = <<>> THEN "run" ELSE "done"
        /\ r.listener = l /\ r.since = idx
    BY <2>2, <1>1, SMT DEF Call
  <2> HIDE DEF r
  <2>5. call'[c] = r /\ \A d \in Calls : d # c => call'[d] = call[d]
    BY <2>1, <2>2, Zenon
  <2>6. call' \in [Calls -> Call]
    BY <2>1, <2>2, <2>3, Zenon
  <2> QED
    BY <2>3, <2>4, <2>5, <2>6, Zenon
<1>3. /\ listeners' \in Seq(Listeners)
      /\ listeners' # <<>> /\ Len(listeners') = Len(L) + 1
      /\ Range(listeners') = Range(L) \cup {l}
  BY <1>0, <1>1, Extended, Zenon
<1>4. Types'
  <2>1. raced' \in BOOLEAN
    BY <1>0, Zenon
  <2> QED
    BY <1>0, <1>2, <1>3, <2>1, Zenon DEF IInv, Types
<1>5. /\ Entered(c)' /\ ~Entered(c)
      /\ \A d \in Calls : d # c => (Entered(d)' <=> Entered(d))
  BY <1>0, <1>2, SMT DEF Entered
<1>6. StoreInv'
  BY <1>0, Zenon DEF IInv, StoreInv
<1>7. PlanInv'
  <2>1. plan[c] = NoPlan
    BY <1>0, SMT DEF IInv, PlanInv
  <2>2. \A d \in Calls : Seen(plan[d])'
    BY <1>0, Zenon DEF IInv, PlanInv, Seen, Index, Result
  <2>3. \A d \in Calls : call'[d].pc # "run" => plan'[d] = NoPlan
    BY <2>1, <1>0, <1>2, Zenon DEF IInv, PlanInv
  <2> QED
    BY <2>2, <2>3, Zenon DEF PlanInv
<1>8. ListInv'
  <2>1. Wrote' = Wrote \cup {c} /\ c \notin Wrote
    BY <1>5, Zenon DEF Wrote
  <2>2. IsFiniteSet(Wrote)
    BY KeyWatchAssumption, FS_Subset, Zenon DEF Wrote
  <2>3. Cardinality(Wrote') = Cardinality(Wrote) + 1 /\ Cardinality(Wrote) \in Nat
    BY <2>1, <2>2, FS_AddElement, FS_CardinalityType, Zenon
  <2>4. Len(L) <= Cardinality(Wrote) /\ Len(L) \in Nat
    <3>1. Len(L) <= Cardinality(Wrote)
      BY <1>0, Zenon DEF IInv, ListInv
    <3> QED
      BY <3>1, <1>1, SMT
  <2>5. Len(listeners') <= Cardinality(Wrote')
    BY <2>3, <2>4, <1>3, SMT
  <2>6. ASSUME NEW d \in Calls, call'[d].pc = "append"
        PROVE  Len(call'[d].list) <= Cardinality(Wrote')
    <3>1. d # c
      BY <2>6, <1>2, SMT
    <3>2. Len(call'[d].list) <= Cardinality(Wrote)
      BY <2>6, <3>1, <1>2, Zenon DEF IInv, ListInv
    <3>3. Len(call'[d].list) \in Nat
      BY <1>2, SMT DEF Call
    <3> QED
      BY <3>2, <3>3, <2>3, SMT
  <2>7. \A d \in Calls : call'[d].pc # "new" => call'[d].listener \in Listeners
    BY <1>1, <1>2, Zenon DEF IInv, ListInv
  <2> QED
    BY <2>5, <2>6, <2>7, <1>3, Zenon DEF ListInv
<1>9. ToldInv'
  <2>1. \A w \in Calls : call[w].pc = "run" => call'[w].pc = "run"
    BY <1>0, <1>2, SMT
  <2> QED
    BY <2>1, <1>0, Zenon DEF IInv, ToldInv
<1>10. RaceInv'
  <2> SUFFICES ASSUME ~raced' PROVE (OneWatch /\ Kept /\ WatchInv)'
    BY Zenon DEF RaceInv
  <2>0. ~raced /\ listeners = L /\ OneWatch /\ Kept /\ WatchInv
    BY <1>0, Zenon DEF IInv, RaceInv
  <2>1. ASSUME L = <<>>
        PROVE  /\ \A d \in Calls : ~Entered(d) /\ call[d].pc # "run"
               /\ \A k \in Listeners : told[k] = Silent
    <3>1. \A d \in Calls : ~Entered(d)
      BY <2>0, <2>1, Zenon DEF IInv, ListInv
    <3> QED
      BY <3>1, Zenon DEF IInv, ToldInv, Entered
  <2>2. OneWatch'
    <3>1. CASE L = <<>>
      BY <3>1, <2>1, <1>2, Zenon DEF OneWatch
    <3>2. CASE L # <<>>
      <4>1. \A d \in Calls : call'[d].pc = "run" => call[d].pc = "run"
        BY <3>2, <1>2, SMT
      <4> QED
        BY <4>1, <2>0, Zenon DEF OneWatch
    <3> QED
      BY <3>1, <3>2
  <2>3. Kept'
    BY <2>0, <1>0, <1>2, <1>3, <1>5, Zenon DEF Kept
  <2>4. ASSUME NEW w \in Calls, call'[w].pc = "run"
        PROVE  (Behind(w) /\ (~plan[w].pending => Told(w)))'
    <3>1. CASE w = c
      <4>1. L = <<>> /\ plan'[c] = NoPlan
        BY <3>1, <2>4, <1>0, <1>2, SMT DEF IInv, PlanInv
      <4>2. \A k \in Listeners : told'[k] = Silent
        BY <4>1, <2>1, <1>0, Zenon
      <4> QED
        BY <3>1, <4>1, <4>2, SMT DEF Behind, Told, NoPlan, Nil, Silent
    <3>2. CASE w # c
      <4>1. call[w].pc = "run" /\ Behind(w) /\ (~plan[w].pending => Told(w))
        BY <3>2, <2>4, <2>0, <1>2, Zenon DEF WatchInv
      <4>2. Behind(w)'
        BY <4>1, <1>0, Zenon DEF Behind
      <4>3. ASSUME Told(w) PROVE Told(w)'
        <5>1. \A d \in Calls : Entered(d)' /\ d # c => Entered(d) /\ call'[d] = call[d]
          BY <1>2, <1>5, Zenon
        <5>2. plan[w].lastResult.create # 0 => ~(plan[w].lastResult.modify > idx)
          <6>1. plan[w] \in Plan /\ Seen(plan[w])
            BY Zenon DEF IInv, Types, PlanInv
          <6>2. Index \in Nat /\ Index <= idx /\ idx \in Nat
            BY IndexBounds DEF IInv, Types
          <6> QED
            BY <6>1, <6>2, SMT DEF Seen, Plan, Entry
        <5> QED
          BY <4>3, <5>1, <5>2, <1>0, <1>2, ZenonT(30) DEF Told
      <4> QED
        BY <4>1, <4>2, <4>3, <1>0, Zenon
    <3> QED
      BY <3>1, <3>2
  <2> QED
    BY <2>2, <2>3, <2>4, Zenon DEF WatchInv
<1> QED
  BY <1>4, <1>6, <1>7, <1>8, <1>9, <1>10, Zenon DEF IInv

-----------------------------------------------------------------------------
(* A turn of a watch takes it to an index that its listeners have not been *)
(* told; a result that it does not handle is one they know.                *)
LEMMA RunInv ==
  ASSUME IInv, NEW c \in Calls, Run(c)
  PROVE  IInv'
<1> DEFINE same == plan[c].lastIndex # 0 /\ plan[c].lastResult = Result
           p == [lastIndex |-> Index, lastResult |-> Result, pending |-> ~same]
<1>0. /\ call[c].pc = "run" /\ ~plan[c].pending /\ Index # plan[c].lastIndex
      /\ plan' = [plan EXCEPT ![c] = p]
      /\ UNCHANGED <<kv, idx, listeners, call, told, raced, writes, others>>
  BY Zenon DEF Run
<1>1. /\ Index \in Nat /\ 1 <= Index /\ Index <= idx
      /\ Result \in Entry
      /\ Result.create = 0 => Result = Nil
      /\ Result.create # 0 => Result.create <= Index /\ Result.modify = Index
      /\ UNCHANGED <<Index, Result>>
  <2>1. UNCHANGED <<Index, Result>>
    BY <1>0, Zenon DEF Index, Result
  <2> QED
    BY <2>1, IndexBounds, ResultProps, Zenon DEF IInv, Types
<1>2. /\ p \in Plan /\ p.lastIndex = Index /\ p.lastResult = Result
      /\ p.pending <=> ~same
  BY <1>1, Zenon DEF Plan
<1> HIDE DEF p, same
<1>3. /\ plan'[c] = p /\ plan' \in [Calls -> Plan]
      /\ \A d \in Calls : d # c => plan'[d] = plan[d]
  BY <1>0, <1>2, Zenon DEF IInv, Types
<1>4. Types'
  BY <1>0, <1>3, Zenon DEF IInv, Types
<1>5. StoreInv'
  BY <1>0, Zenon DEF IInv, StoreInv
<1>6. PlanInv'
  <2>1. Index <= Index
    BY <1>1, SMT
  <2>2. \A d \in Calls : d # c => Seen(plan[d])'
    BY <1>0, <1>1, <1>3, Zenon DEF IInv, PlanInv, Seen
  <2>3. Seen(plan[c])'
    BY <2>1, <1>1, <1>2, <1>3, Zenon DEF Seen
  <2> QED
    BY <2>2, <2>3, <1>0, <1>3, Zenon DEF IInv, PlanInv
<1>7. ListInv'
  BY <1>0, Zenon DEF IInv, ListInv, Wrote, Entered
<1>8. ToldInv'
  BY <1>0, Zenon DEF IInv, ToldInv
<1>9. RaceInv'
  <2> SUFFICES ASSUME ~raced PROVE (OneWatch /\ Kept /\ WatchInv)'
    BY <1>0, Zenon DEF RaceInv
  <2>0. OneWatch /\ Kept /\ WatchInv
    BY Zenon DEF IInv, RaceInv
  <2>1. OneWatch' /\ Kept'
    BY <2>0, <1>0, Zenon DEF OneWatch, Kept, Entered
  <2>2. Behind(c) /\ Told(c)
    BY <2>0, <1>0, Zenon DEF WatchInv
  <2>3. plan[c] \in Plan /\ Seen(plan[c])
    BY Zenon DEF IInv, Types, PlanInv
  <2>4. plan[c].lastIndex \in Nat /\ plan[c].lastIndex < Index
    BY <2>3, <1>0, <1>1, SMT DEF Plan, Seen
  <2>5. Behind(c)'
    <3>1. \A l \in Listeners : told[l].index \in Nat
      BY SMT DEF IInv, Types, Notice
    <3>2. \A l \in Listeners : told[l].index <= Index /\ told[l].index < Index
      BY <3>1, <2>2, <2>4, <1>1, SMT DEF Behind
    <3> QED
      BY <3>2, <1>0, <1>2, <1>3, Zenon DEF Behind
  <2>6. ASSUME same PROVE Told(c)'
    <3>1. plan[c].lastResult = Result
      BY <2>6, Zenon DEF same
    <3>2. Result.create = 0
      BY <3>1, <2>3, <2>4, <1>1, SMT DEF Seen
    <3> QED
      BY <3>1, <3>2, <2>2, <1>0, <1>2, <1>3, Zenon DEF Told
  <2>7. ASSUME NEW w \in Calls, call'[w].pc = "run"
        PROVE  (Behind(w) /\ (~plan[w].pending => Told(w)))'
    <3>1. w = c
      BY <2>7, <2>0, <1>0, Zenon DEF OneWatch
    <3> QED
      BY <3>1, <2>5, <2>6, <1>2, <1>3, Zenon
  <2> QED
    BY <2>1, <2>7, Zenon DEF WatchInv
<1> QED
  BY <1>4, <1>5, <1>6, <1>7, <1>8, <1>9, Zenon DEF IInv

(* The handler's notice is of the index and the entry that the watch saw,  *)
(* and everyone in the list gets it.                                       *)
LEMMA NoticeProps ==
  ASSUME NEW p \in Plan, Seen(p)
  PROVE  LET n == [type |-> updateType(p.lastIndex, p.lastResult),
                   index |-> p.lastIndex, create |-> p.lastResult.create]
         IN  /\ n \in Notice /\ n.index = p.lastIndex /\ n.create <= n.index
             /\ n.type = "ADD" => n.create = n.index
             /\ p.lastResult.create = 0 => n.type = "DELETE"
             /\ p.lastResult.create # 0 => n.type # "DELETE"
<1> DEFINE t == updateType(p.lastIndex, p.lastResult)
<1>1. p.lastIndex \in Nat /\ p.lastResult \in Entry /\ p.lastResult.create \in Nat
  BY SMT DEF Plan, Entry
<1>2. p.lastResult.create <= p.lastIndex
  BY <1>1, SMT DEF Seen, Nil
<1>3. p.lastResult = Nil <=> p.lastResult.create = 0
  BY SMT DEF Seen, Nil
<1>4. /\ t \in {"ADD", "MODIFY", "DELETE"}
      /\ t = "ADD" => p.lastResult.create = p.lastIndex
      /\ p.lastResult.create = 0 => t = "DELETE"
      /\ p.lastResult.create # 0 => t # "DELETE"
  BY <1>3, SMT DEF updateType
<1> HIDE DEF t
<1> QED
  BY <1>1, <1>2, <1>4, SMT DEF Notice, t

LEMMA HandlerInv ==
  ASSUME IInv, NEW c \in Calls, updateKeyListeners(c)
  PROVE  /\ IInv'
         /\ \A l \in Listeners :
              told'[l] # told[l] /\ ~raced =>
                /\ told'[l].index > told[l].index
                /\ told'[l].type = "ADD" => told'[l].create # told[l].create
<1> DEFINE p == plan[c]
           n == [type |-> updateType(p.lastIndex, p.lastResult),
                 index |-> p.lastIndex, create |-> p.lastResult.create]
<1>0. /\ p.pending
      /\ plan' = [plan EXCEPT ![c].pending = FALSE]
      /\ told' = [l \in Listeners |-> IF l \in Range(listeners) THEN n ELSE told[l]]
      /\ UNCHANGED <<kv, idx, listeners, call, raced, writes, others>>
  BY Zenon DEF updateKeyListeners
<1>1. p \in Plan /\ Seen(p) /\ plan \in [Calls -> Plan] /\ told \in [Listeners -> Notice]
  BY Zenon DEF IInv, Types, PlanInv
<1>2. /\ n \in Notice /\ n.index = p.lastIndex /\ n.create <= n.index
      /\ n.type = "ADD" => n.create = n.index
      /\ p.lastResult.create = 0 => n.type = "DELETE"
      /\ p.lastResult.create # 0 => n.type # "DELETE"
  BY <1>1, NoticeProps, Zenon
<1> HIDE DEF n
<1>3. /\ plan' \in [Calls -> Plan]
      /\ plan'[c].lastIndex = p.lastIndex /\ plan'[c].lastResult = p.lastResult
      /\ plan'[c].pending = FALSE
      /\ \A d \in Calls : d # c => plan'[d] = plan[d]
  <2>1. plan' = [plan EXCEPT ![c] = [p EXCEPT !.pending = FALSE]]
    BY <1>0, Zenon
  <2>2. [p EXCEPT !.pending = FALSE] \in Plan
    BY <1>1, Zenon DEF Plan
  <2>3. plan'[c] = [p EXCEPT !.pending = FALSE]
    BY <2>1, <1>1, Zenon
  <2>4. /\ plan'[c].lastIndex = p.lastIndex /\ plan'[c].lastResult = p.lastResult
        /\ plan'[c].pending = FALSE
    BY <2>3, <1>1, Zenon DEF Plan
  <2> QED
    BY <2>1, <2>2, <2>4, <1>1, Zenon
<1>4. /\ told' \in [Listeners -> Notice]
      /\ \A l \in Listeners : l \in Range(listeners) => told'[l] = n
      /\ \A l \in Listeners : l \notin Range(listeners) => told'[l] = told[l]
  BY <1>0, <1>1, <1>2, Zenon
<1>5. call[c].pc = "run"
  <2>1. NoPlan.pending = FALSE
    BY Zenon DEF NoPlan
  <2> QED
    BY <2>1, <1>0, Zenon DEF IInv, PlanInv
<1>6. Index \in Nat /\ Index <= idx /\ idx \in Nat /\ UNCHANGED <<Index, Result>>
  <2>1. UNCHANGED <<Index, Result>>
    BY <1>0, Zenon DEF Index, Result
  <2> QED
    BY <2>1, IndexBounds, Zenon DEF IInv, Types
<1>7. Types'
  BY <1>0, <1>3, <1>4, Zenon DEF IInv, Types
<1>8. StoreInv'
  BY <1>0, Zenon DEF IInv, StoreInv
<1>9. PlanInv'
  <2>1. \A d \in Calls : d # c => Seen(plan[d])'
    BY <1>3, <1>6, Zenon DEF IInv, PlanInv, Seen
  <2>2. Seen(plan[c])'
    BY <1>1, <1>3, <1>6, Zenon DEF Seen
  <2> QED
    BY <2>1, <2>2, <1>0, <1>3, <1>5, Zenon DEF IInv, PlanInv
<1>10. ListInv'
  BY <1>0, Zenon DEF IInv, ListInv, Wrote, Entered
<1>11. ToldInv'
  <2>1. n.index <= idx
    BY <1>1, <1>2, <1>6, SMT DEF Seen, Plan
  <2>2. \A l \in Listeners :
          told'[l].create <= told'[l].index /\ told'[l].index <= idx
    BY <2>1, <1>2, <1>4, Zenon DEF IInv, ToldInv
  <2> QED
    BY <2>2, <1>0, <1>5, Zenon DEF ToldInv
<1>12. ~raced => OneWatch /\ Kept /\ WatchInv
  BY Zenon DEF IInv, RaceInv
<1>13. RaceInv'
  <2> SUFFICES ASSUME ~raced PROVE (OneWatch /\ Kept /\ WatchInv)'
    BY <1>0, Zenon DEF RaceInv
  <2>1. OneWatch'
    BY <1>0, <1>12, Zenon DEF OneWatch
  <2>2. Kept'
    BY <1>0, <1>4, <1>12, Zenon DEF Kept, Entered
  <2>3. Behind(c)'
    <3>1. p.lastIndex <= p.lastIndex
      BY <1>1, SMT DEF Plan
    <3>2. \A l \in Listeners : told'[l].index <= p.lastIndex
      BY <3>1, <1>2, <1>4, <1>5, <1>12, Zenon DEF WatchInv, Behind
    <3> QED
      BY <3>2, <1>3, Zenon DEF Behind
  <2>4. Told(c)'
    <3>1. ASSUME p.lastResult.create = 0, NEW l \in Listeners
          PROVE  told'[l].type \in {"none", "DELETE"}
      <4>1. Silent.type = "none"
        BY Zenon DEF Silent
      <4> QED
        BY <3>1, <4>1, <1>2, <1>4, <1>12, Zenon DEF Kept
    <3>2. ASSUME p.lastResult.create # 0, NEW d \in Calls, Entered(d)
          PROVE  /\ told'[call[d].listener].index = p.lastIndex
                 /\ told'[call[d].listener].type # "DELETE"
      <4>1. call[d].listener \in Range(listeners)
        BY <3>2, <1>12, Zenon DEF Kept
      <4>2. call[d].listener \in Listeners
        BY <3>2, SMT DEF IInv, ListInv, Entered
      <4> QED
        BY <3>2, <4>1, <4>2, <1>2, <1>4, Zenon
    <3>3. call' = call /\ \A d \in Calls : Entered(d)' => Entered(d)
      BY <1>0, Zenon DEF Entered
    <3>4. \A d \in Calls :
             p.lastResult.create # 0 /\ Entered(d)' =>
               /\ told'[call'[d].listener].index = p.lastIndex
               /\ told'[call'[d].listener].type # "DELETE"
      BY <3>2, <3>3, Zenon
    <3> QED
      BY <3>1, <3>4, <1>3, Zenon DEF Told
  <2>5. \A w \in Calls : call'[w].pc = "run" => w = c
    BY <1>0, <1>5, <1>12, Zenon DEF OneWatch
  <2> QED
    BY <2>1, <2>2, <2>3, <2>4, <2>5, Zenon DEF WatchInv
<1>14. ASSUME NEW l \in Listeners, told'[l] # told[l], ~raced
       PROVE  /\ told'[l].index > told[l].index
              /\ told'[l].type = "ADD" => told'[l].create # told[l].create
  <2>1. told'[l] = n
    BY <1>14, <1>4, Zenon
  <2>2. told[l].index < n.index
    BY <1>14, <1>0, <1>2, <1>5, <1>12, Zenon DEF WatchInv, Behind
  <2>3. told[l].create <= told[l].index
    BY Zenon DEF IInv, ToldInv
  <2>4. told[l].create \in Nat /\ told[l].index \in Nat /\ n.index \in Nat
    BY <1>1, <1>2, SMT DEF Notice
  <2>5. n.index > told[l].index /\ n.index # told[l].create
    BY <2>2, <2>3, <2>4, SMT
  <2> QED
    BY <2>1, <2>5, <1>2, Zenon
<1> QED
  BY <1>7, <1>8, <1>9, <1>10, <1>11, <1>13, <1>14, Zenon DEF IInv

-----------------------------------------------------------------------------
LEMMA StutterInv == IInv /\ UNCHANGED vars => IInv'
<1> SUFFICES ASSUME IInv, UNCHANGED vars PROVE IInv'
  OBVIOUS
<1>1. UNCHANGED <<kv, idx, listeners, call, plan, told, raced, writes, others>>
  BY Zenon DEF vars
<1>2. Types' /\ StoreInv' /\ PlanInv'
  BY <1>1, Zenon DEF IInv, Types, StoreInv, PlanInv, Seen, Index, Result
<1>3. ListInv' /\ ToldInv'
  BY <1>1, Zenon DEF IInv, ListInv, ToldInv, Wrote, Entered
<1>4. RaceInv'
  BY <1>1, Zenon DEF IInv, RaceInv, OneWatch, Kept, WatchInv, Behind, Told, Entered
<1> QED
  BY <1>2, <1>3, <1>4, Zenon DEF IInv

(* What a listener is told changes in the handler only. *)
LEMMA NextInv ==
  ASSUME IInv, [Next]_vars
  PROVE  /\ IInv'
         /\ \A l \in Listeners :
              told'[l] # told[l] /\ ~raced =>
                /\ told'[l].index > told[l].index
                /\ told'[l].type = "ADD" => told'[l].create # told[l].create
<1>1. CASE Put \/ Delete \/ OtherKey
  <2>1. told' = told
    BY <1>1, Zenon DEF Put, Delete, OtherKey
  <2> QED
    BY <1>1, <2>1, PutInv, DeleteInv, OtherKeyInv, Zenon
<1>2. ASSUME NEW c \in Calls, NEW l \in Listeners, RegisterForKeyUpdates(c, l)
      PROVE  IInv' /\ told' = told
  BY <1>2, RegisterInv, Zenon DEF RegisterForKeyUpdates
<1>3. ASSUME NEW c \in Calls, addListener(c)
      PROVE  IInv' /\ told' = told
  BY <1>3, AddListenerInv, Zenon DEF addListener
<1>4. ASSUME NEW c \in Calls, Run(c)
      PROVE  IInv' /\ told' = told
  BY <1>4, RunInv, Zenon DEF Run
<1>5. CASE \E c \in Calls : updateKeyListeners(c)
  BY <1>5, HandlerInv, Zenon
<1>6. CASE UNCHANGED vars
  BY <1>6, StutterInv, Zenon DEF vars
<1> QED
  BY <1>1, <1>2, <1>3, <1>4, <1>5, <1>6, Zenon DEF Next, registerForKeyUpdates

LEMMA SpecIInv == Spec => []IInv
<1>1. IInv /\ [Next]_vars => IInv'
  BY NextInv, Zenon
<1> QED
  BY <1>1, InitInv, PTL DEF Spec

(* RegisterForKeyUpdates and the watches keep their tables well formed for *)
(* any listeners, calls and writes; a list has one entry per call at most. *)
THEOREM TypeCorrect == Spec => []TypeOK
<1>1. IInv => TypeOK
  <2> SUFFICES ASSUME IInv PROVE TypeOK
    OBVIOUS
  <2>1. Index \in Nat /\ Index <= idx /\ idx \in Nat
    BY IndexBounds, Zenon DEF IInv, Types
  <2>2. kv \in [create : 0 .. idx, modify : 0 .. idx]
    BY SMT DEF IInv, Types, StoreInv, Entry
  <2>3. Len(listeners) <= Cardinality(Calls)
    <3>1. Wrote \subseteq Calls
      BY Zenon DEF Wrote
    <3>2. /\ Cardinality(Wrote) <= Cardinality(Calls)
          /\ Cardinality(Wrote) \in Nat /\ Cardinality(Calls) \in Nat
      BY <3>1, KeyWatchAssumption, FS_Subset, FS_CardinalityType
    <3>3. Len(listeners) <= Cardinality(Wrote) /\ Len(listeners) \in Nat
      BY SMT DEF IInv, ListInv, Types
    <3> QED
      BY <3>2, <3>3, SMT
  <2>4. Range(listeners) \subseteq Listeners
    BY SMT DEF IInv, Types, Range
  <2>5. ASSUME NEW c \in Calls
        PROVE  /\ call[c].pc \in {"new", "append", "run", "done"}
               /\ call[c].listener \in Listeners \cup {NoListener}
               /\ plan[c].lastIndex \in 0 .. idx /\ plan[c].pending \in BOOLEAN
    <3>1. call[c] \in Call /\ plan[c] \in Plan /\ Seen(plan[c])
      BY Zenon DEF IInv, Types, PlanInv
    <3>2. /\ call[c].pc \in {"new", "append", "run", "done"}
          /\ call[c].listener \in Listeners \cup {NoListener}
          /\ plan[c].pending \in BOOLEAN
      BY <3>1, Zenon DEF Call, Plan
    <3>3. plan[c].lastIndex \in 0 .. idx
      BY <3>1, <2>1, SMT DEF Plan, Seen
    <3> QED
      BY <3>2, <3>3
  <2>6. told \in [Listeners -> [type : {"none", "ADD", "MODIFY", "DELETE"},
                                index : 0 .. idx, create : 0 .. idx]]
    BY <2>1, SMT DEF IInv, Types, ToldInv, Notice
  <2> QED
    BY <2>1, <2>2, <2>3, <2>4, <2>5, <2>6, Zenon DEF TypeOK, IInv, Types
<1> QED
  BY <1>1, SpecIInv, PTL

(* updateKeyListeners: until two calls race, a listener is told of the     *)
(* changes in their order, and of a creation once, for any number of       *)
(* listeners, calls and writes.                                            *)
THEOREM ListenersAreToldInOrder == Spec => ToldInOrder
<1> DEFINE A == \A l \in Listeners :
                  told'[l] # told[l] /\ ~raced =>
                    /\ told'[l].index > told[l].index
                    /\ told'[l].type = "ADD" => told'[l].create # told[l].create
<1>1. IInv /\ [Next]_vars => [A]_vars
  BY NextInv, Zenon
<1>2. Spec => [][A]_vars
  BY <1>1, SpecIInv, PTL DEF Spec
<1> QED
  BY <1>2 DEF ToldInOrder

(* updateKeyListeners: until two calls race, a watch that is up to date    *)
(* has told every listener registered before the last change of it.        *)
THEOREM WatchTellsAll == Spec => []CaughtUp
<1>1. IInv => CaughtUp
  <2> SUFFICES ASSUME IInv, ~raced, NEW w \in Calls, call[w].pc = "run",
                      ~plan[w].pending, plan[w].lastIndex = Index,
                      NEW c \in Calls, Entered(c), kv.modify > call[c].since
               PROVE  Informed(c)
    BY Zenon DEF CaughtUp
  <2>1. Told(w)
    BY Zenon DEF IInv, RaceInv, WatchInv
  <2>2. plan[w].lastResult = Result
    BY Zenon DEF IInv, PlanInv, Seen
  <2>3. call[c].listener \in Listeners
    BY SMT DEF IInv, ListInv, Entered
  <2>4. CASE kv.create = 0
    <3>1. plan[w].lastResult.create = 0
      BY <2>2, <2>4, SMT DEF Result, Nil
    <3> QED
      BY <3>1, <2>1, <2>3, <2>4, Zenon DEF Told, Informed
  <2>5. CASE kv.create # 0
    <3>1. plan[w].lastResult = kv /\ plan[w].lastIndex = kv.modify
      BY <2>2, <2>5, Zenon DEF Result, Index
    <3> QED
      BY <3>1, <2>1, <2>5, Zenon DEF Told, Informed
  <2> QED
    BY <2>4, <2>5
<1> QED
  BY <1>1, SpecIInv, PTL
=============================================================================
