-------------------------- MODULE LoggerSlots_proofs --------------------------
(***************************************************************************)
(* Proofs about LoggerSlots, for any set of threads and any number of      *)
(* slots. Everything follows from one inductive invariant: a number in     *)
(* used is the number of a slot that carries the id of the thread          *)
(* (UsedIsOwned), a slot about to be owned is taken by one thread only     *)
(* (OwnIsExclusive), and a thread that searches has not passed a slot of   *)
(* its own (SearchComplete).                                               *)
(***************************************************************************)
EXTENDS LoggerSlots, TLAPS

UsedIsOwned ==
    \A t \in Threads : \A s \in Slots : s \in used[t] => id[s] = t

IdHasFlag == \A s \in Slots : id[s] # NoThread => flag[s]

Owning(t, s) == pc[t] = "own" /\ at[t] = s

OwnIsExclusive ==
    /\ \A t \in Threads : pc[t] \in {"own", "compare"} => at[t] \in Slots
    /\ \A t \in Threads : \A s \in Slots :
          Owning(t, s) => flag[s] /\ id[s] = NoThread
    /\ \A t, u \in Threads : \A s \in Slots :
          Owning(t, s) /\ Owning(u, s) => t = u

\* A slot with its flag set belongs to a thread, or is about to.
FlagHasOwner ==
    \A s \in Slots :
        flag[s] => id[s] # NoThread \/ \E u \in Threads : Owning(u, s)

SearchComplete ==
    \A t \in Threads : \A s \in Slots :
        /\ id[s] = t => /\ pc[t] \notin {"occupy", "own"}
                        /\ pc[t] \in {"find", "compare"} => at[t] <= s
        /\ pc[t] = "occupy" /\ s < at[t] => flag[s]

IdUnique == \A r, s \in Slots : id[r] = id[s] /\ id[r] # NoThread => r = s

OverflowIsFinal ==
    \A t \in Threads : OVFL \in used[t] =>
        /\ pc[t] # "own"
        /\ \A s \in Slots : flag[s] /\ id[s] # t

IInv == /\ TypeOK
        /\ UsedIsOwned
        /\ IdHasFlag
        /\ OwnIsExclusive
        /\ FlagHasOwner
        /\ SearchComplete
        /\ IdUnique
        /\ OverflowIsFinal

----------------------------------------------------------------------------

\* All slots are free when the constructor is through.
LEMMA InitInv == Init => IInv
  BY SlotAssumption DEF SlotAssumption, Init, IInv, TypeOK, UsedIsOwned, IdHasFlag, OwnIsExclusive,
        FlagHasOwner, SearchComplete, IdUnique, OverflowIsFinal, Owning, Slots

\* A thread that goes on to a proper place, at a proper slot, keeps pc and at in
\* their types.
LEMMA GotoTypes ==
    ASSUME TypeOK, NEW t \in Threads,
           NEW l \in {"idle", "find", "compare", "occupy", "own"},
           NEW s \in 1 .. NofSlots + 1, Goto(t, l, s)
    PROVE  /\ pc' \in [Threads -> {"idle", "find", "compare", "occupy", "own"}]
           /\ at' \in [Threads -> 1 .. NofSlots + 1]
  BY DEF Goto, TypeOK

\* The same for a thread that writes a line with a proper prefix.
LEMMA WriteTypes ==
    ASSUME TypeOK, NEW t \in Threads, NEW s \in Slots \cup {OVFL}, Write(t, s)
    PROVE  /\ pc' \in [Threads -> {"idle", "find", "compare", "occupy", "own"}]
           /\ at' \in [Threads -> 1 .. NofSlots + 1]
           /\ used' \in [Threads -> SUBSET (Slots \cup {OVFL})]
<1>1. 1 \in 1 .. NofSlots + 1
  BY SlotAssumption DEF SlotAssumption
<1>2. Goto(t, "idle", 1)
  BY DEF Write
<1>3. used' = [used EXCEPT ![t] = @ \cup {s}]
  BY DEF Write
<1>4. used' \in [Threads -> SUBSET (Slots \cup {OVFL})]
  BY <1>3 DEF TypeOK
<1>5. QED BY <1>1, <1>2, <1>4, GotoTypes

\* Each step of getThreadId keeps the invariant.
LEMMA StepInv == IInv /\ [Next]_vars => IInv'
<1> SUFFICES ASSUME IInv, [Next]_vars
             PROVE  IInv'
  OBVIOUS
<1> USE SlotAssumption DEF IInv, SlotAssumption
<1>1. CASE UNCHANGED vars
  BY <1>1 DEF vars, TypeOK, UsedIsOwned, IdHasFlag, OwnIsExclusive,
        FlagHasOwner, SearchComplete, IdUnique, OverflowIsFinal, Owning
<1>2. ASSUME NEW t \in Threads, LogMessage(t)
      PROVE  IInv'
  <2> USE <1>2 DEF LogMessage, Goto
  <2>1. TypeOK'
    BY DEF TypeOK, Slots
  <2>2. UsedIsOwned' /\ IdHasFlag' /\ IdUnique'
    BY DEF UsedIsOwned, IdHasFlag, IdUnique
  <2>3. OwnIsExclusive' /\ FlagHasOwner'
    BY DEF TypeOK, OwnIsExclusive, FlagHasOwner, Owning
  <2>4. SearchComplete' /\ OverflowIsFinal'
    BY DEF TypeOK, SearchComplete, OverflowIsFinal, Slots
  <2>5. QED BY <2>1, <2>2, <2>3, <2>4
<1>3. ASSUME NEW t \in Threads, TestFlag(t)
      PROVE  IInv'
  <2>1. TypeOK'
    <3>1. \E l \in {"find", "compare", "occupy"}, s \in 1 .. NofSlots + 1 :
             Goto(t, l, s)
      BY <1>3 DEF TestFlag, Slots
    <3>2. UNCHANGED <<flag, id, used>>
      BY <1>3 DEF TestFlag
    <3>3. QED BY <3>1, <3>2, GotoTypes DEF TypeOK
  <2> USE <1>3 DEF TestFlag, Goto
  <2>2. UsedIsOwned' /\ IdHasFlag' /\ IdUnique'
    BY DEF UsedIsOwned, IdHasFlag, IdUnique
  <2>3. OwnIsExclusive' /\ FlagHasOwner'
    BY DEF TypeOK, OwnIsExclusive, FlagHasOwner, Owning
  <2>4. SearchComplete'
    BY DEF TypeOK, SearchComplete, IdHasFlag, Slots
  <2>5. OverflowIsFinal'
    BY DEF TypeOK, OverflowIsFinal
  <2>6. QED BY <2>1, <2>2, <2>3, <2>4, <2>5
<1>4. ASSUME NEW t \in Threads, CompareId(t)
      PROVE  IInv'
  <2>0. at[t] \in Slots
    BY <1>4 DEF CompareId, OwnIsExclusive
  <2>1. TypeOK'
    <3>1. CASE Write(t, at[t])
      BY <1>4, <2>0, <3>1, WriteTypes DEF CompareId, TypeOK
    <3>2. CASE Goto(t, "find", at[t] + 1) /\ UNCHANGED used
      <4>1. at[t] + 1 \in 1 .. NofSlots + 1
        BY <2>0 DEF Slots
      <4>2. QED BY <1>4, <3>2, <4>1, GotoTypes DEF CompareId, TypeOK
    <3>3. QED BY <1>4, <3>1, <3>2 DEF CompareId
  <2> USE <1>4 DEF CompareId, Write, Goto
  <2>2. UsedIsOwned' /\ IdHasFlag' /\ IdUnique'
    BY <2>0 DEF UsedIsOwned, IdHasFlag, IdUnique, TypeOK
  <2>3. OwnIsExclusive' /\ FlagHasOwner'
    BY DEF TypeOK, OwnIsExclusive, FlagHasOwner, Owning
  <2>4. SearchComplete'
    BY <2>0 DEF TypeOK, SearchComplete, IdUnique, Slots
  <2>5. OverflowIsFinal'
    <3>1. \A u \in Threads : OVFL \in used'[u] => OVFL \in used[u]
      BY <2>0 DEF TypeOK, OVFL, Slots
    <3>2. \A u \in Threads : pc'[u] = "own" => pc[u] = "own"
      BY DEF TypeOK
    <3>3. QED BY <3>1, <3>2 DEF OverflowIsFinal
  <2>6. QED BY <2>1, <2>2, <2>3, <2>4, <2>5
<1>5. ASSUME NEW t \in Threads, Occupy(t)
      PROVE  IInv'
  <2>0. at[t] \in 1 .. NofSlots + 1
    BY DEF TypeOK
  <2>1. TypeOK'
    <3>1. CASE Write(t, OVFL) /\ UNCHANGED flag
      BY <1>5, <3>1, WriteTypes DEF Occupy, OccupyUpTo, TypeOK
    <3>2. CASE /\ at[t] \in Slots /\ flag' = [flag EXCEPT ![at[t]] = TRUE]
               /\ Goto(t, "own", at[t]) /\ UNCHANGED used
      <4>1. flag' \in [Slots -> BOOLEAN]
        BY <3>2 DEF TypeOK
      <4>2. QED BY <1>5, <2>0, <3>2, <4>1, GotoTypes
                DEF Occupy, OccupyUpTo, TypeOK
    <3>3. CASE /\ at[t] <= NofSlots
               /\ Goto(t, "occupy", at[t] + 1) /\ UNCHANGED <<flag, used>>
      <4>1. at[t] + 1 \in 1 .. NofSlots + 1
        BY <2>0, <3>3
      <4>2. QED BY <1>5, <3>3, <4>1, GotoTypes DEF Occupy, OccupyUpTo, TypeOK
    <3>4. QED BY <1>5, <3>1, <3>2, <3>3 DEF Occupy, OccupyUpTo
  <2> USE <1>5 DEF Occupy, OccupyUpTo, Write, Goto
  <2>2. UsedIsOwned' /\ IdHasFlag' /\ IdUnique'
    <3>1. id' = id /\ \A s \in Slots : flag[s] => flag'[s]
      BY DEF TypeOK
    <3>2. \A u \in Threads : \A s \in Slots : s \in used'[u] => s \in used[u]
      <4>1. OVFL \notin Slots
        BY DEF OVFL, Slots
      <4>2. used' = used \/ used' = [used EXCEPT ![t] = @ \cup {OVFL}]
        OBVIOUS
      <4>3. QED BY <4>1, <4>2 DEF TypeOK
    <3>3. QED BY <3>1, <3>2 DEF UsedIsOwned, IdHasFlag, IdUnique
  <2>3. OwnIsExclusive'
    BY DEF TypeOK, OwnIsExclusive, IdHasFlag, Owning
  <2>4. FlagHasOwner'
    BY DEF TypeOK, FlagHasOwner, Owning
  <2>5. SearchComplete'
    BY DEF TypeOK, SearchComplete, Slots
  <2>6. OverflowIsFinal'
    BY DEF TypeOK, OverflowIsFinal, SearchComplete, OVFL, Slots
  <2>7. QED BY <2>1, <2>2, <2>3, <2>4, <2>5, <2>6
<1>6. ASSUME NEW t \in Threads, Own(t)
      PROVE  IInv'
  <2> USE <1>6 DEF Own, Write, Goto
  <2>0. /\ at[t] \in Slots /\ flag[at[t]] /\ id[at[t]] = NoThread
        /\ OVFL \notin used[t]
        /\ \A s \in Slots : id[s] # t
    BY DEF OwnIsExclusive, Owning, SearchComplete, OverflowIsFinal
  <2>1. TypeOK'
    BY <2>0 DEF TypeOK, Slots
  <2>2. UsedIsOwned' /\ IdHasFlag' /\ IdUnique'
    BY <2>0 DEF UsedIsOwned, IdHasFlag, IdUnique, TypeOK
  <2>3. OwnIsExclusive'
    BY <2>0 DEF TypeOK, OwnIsExclusive, Owning
  <2>4. FlagHasOwner'
    BY <2>0 DEF TypeOK, FlagHasOwner, OwnIsExclusive, Owning
  <2>5. SearchComplete'
    BY <2>0 DEF TypeOK, SearchComplete, Slots
  <2>6. OverflowIsFinal'
    BY <2>0 DEF TypeOK, OverflowIsFinal, OVFL, Slots
  <2>7. QED BY <2>1, <2>2, <2>3, <2>4, <2>5, <2>6
<1>7. QED BY <1>1, <1>2, <1>3, <1>4, <1>5, <1>6 DEF Next, Step

\* The inductive invariant holds in every state.
LEMMA InvHolds == Spec => []IInv
  BY InitInv, StepInv, PTL DEF Spec

\* What the slots hold is of the right kind; getThreadId never looks at a slot
\* after the last one.
THEOREM SlotTypes == Spec => []TypeOK
<1>1. IInv => TypeOK
  BY DEF IInv
<1>2. QED BY <1>1, InvHolds, PTL

\* Two threads never get the same slot from getThreadId.
THEOREM PrefixesSeparate == Spec => []SeparatePrefixes
<1>1. IInv => SeparatePrefixes
  BY DEF IInv, TypeOK, UsedIsOwned, SeparatePrefixes, OVFL, Slots
<1>2. QED BY <1>1, InvHolds, PTL

\* getThreadId returns the same prefix every time a thread calls it.
THEOREM PrefixIsOne == Spec => []OnePrefix
<1>1. IInv => OnePrefix
  <2> SUFFICES ASSUME IInv, NEW t \in Threads,
                      NEW a \in used[t], NEW b \in used[t]
               PROVE  a = b
    BY DEF OnePrefix
  <2>1. a \in Slots \cup {OVFL} /\ b \in Slots \cup {OVFL}
    BY DEF IInv, TypeOK
  <2>2. CASE a = OVFL \/ b = OVFL
    BY <2>1, <2>2 DEF IInv, UsedIsOwned, OverflowIsFinal
  <2>3. CASE a # OVFL /\ b # OVFL
    BY <2>1, <2>3, SlotAssumption DEF SlotAssumption, IInv, UsedIsOwned, IdUnique
  <2>4. QED BY <2>2, <2>3
<1>2. QED BY <1>1, InvHolds, PTL

\* getThreadId returns "OVFL" only when all slots are taken by other threads.
THEOREM OverflowOnlyWhenFull == Spec => []OverflowWhenFull
<1>1. IInv => OverflowWhenFull
  BY DEF IInv, OverflowIsFinal, FlagHasOwner, Owning, OverflowWhenFull
<1>2. QED BY <1>1, InvHolds, PTL
=============================================================================
