------------------------- MODULE IndexContexts_proofs -------------------------
(***************************************************************************)
(* Proofs about IndexContexts, for any threads, names, commands and faults. *)
(*                                                                         *)
(* A name that everybody locked because it had a context, and that got no *)
(* second one, is locked by whoever is inside it (InsideOwns), and a mutex *)
(* is owned by somebody inside (LocksGivenBack). That is mutual exclusion, *)
(* and with it a handle or a transaction is deleted behind the back of a   *)
(* thread only on a name in skipped or Doubled.                            *)
(***************************************************************************)
EXTENDS IndexContexts, TLAPS

\* Where the kinds of commands can be.
Places ==
    \A t \in Threads :
        /\ pc[t] \in {"lock two", "unlock two"} => Cmd(t) = "swap"
        /\ pc[t] = "create" => Cmd(t) = "create"
        /\ pc[t] = "close" => Cmd(t) \in OnTwoNames \cup {"delete"}
        /\ pc[t] = "act" => Cmd(t) \in OnTransactions
        /\ pc[t] \in {"unlock rollback", "drop"} => Cmd(t) = "rollback"
        /\ pc[t] \in {"use", "act"} => Acquire(One(t)) # {}
        /\ pc[t] = "idle" => stale[t] = {}

\* Who is inside a name has the lock of a context of it, unless a thread has
\* skipped the lock, or the name has got two contexts.
InsideOwns ==
    \A t \in Threads : \A n \in Inside(t) \ (skipped \cup Doubled) :
        HasLock(t, n)

\* A swap of a name with itself gets past its locks only without them, or with
\* those of two contexts.
SwapSelf ==
    \A t \in Threads :
        Cmd(t) = "swap" /\ One(t) = Two(t)
          /\ pc[t] \in {"close", "env", "new env", "use", "act", "unlock two"}
        => One(t) \in skipped \cup Doubled

\* A transaction that was rolled back is deleted by the rollback itself.
OverIsRolledBack ==
    \A c \in Contexts : trans[c] = "over" /\ index[c] \notin Doubled =>
        \E t \in Threads : pc[t] \in {"unlock rollback", "drop"}
                            /\ One(t) = index[c]

NothingStale ==
    \A t \in Threads :
        "aborted" \in stale[t] => One(t) \in skipped \cup Doubled

TInv == TypeOK /\ Places

LInv == TInv /\ InsideOwns /\ SwapSelf /\ LocksGivenBack

----------------------------------------------------------------------------
(* Types *)

\* Everything is in its type at the start, and nobody is inside a name.
LEMMA Start0 == Init => LInv /\ HandlesLive /\ NothingStale /\ OverIsRolledBack
<1> SUFFICES ASSUME Init
             PROVE  LInv /\ HandlesLive /\ NothingStale /\ OverIsRolledBack
  OBVIOUS
<1>1. TypeOK
  BY DEF Init, TypeOK, PCs, Operations
<1>2. \A t \in Threads : Inside(t) = {}
  BY DEF Init, Inside
<1>3. Places
  BY DEF Init, Places
<1>4. InsideOwns /\ SwapSelf
  BY <1>2 DEF Init, InsideOwns, SwapSelf
<1>5. LocksGivenBack
  BY IndexAssumption DEF Init, LocksGivenBack
<1>6. HandlesLive /\ NothingStale /\ OverIsRolledBack
  BY DEF Init, HandlesLive, NothingStale, OverIsRolledBack
<1> QED BY <1>1, <1>3, <1>4, <1>5, <1>6 DEF LInv, TInv

\* The places a step can go to.
LEMMA GotoTypes ==
    ASSUME TypeOK, NEW t \in Threads
    PROVE  /\ \A l \in PCs : Goto(t, l) => pc' \in [Threads -> PCs]
           /\ Finish(t) => /\ pc' \in [Threads -> PCs]
                           /\ pc' = [pc EXCEPT ![t] =
                                IF Cmd(t) = "swap" THEN "unlock two"
                                                   ELSE "unlock"]
           /\ Return(t) =>
                /\ pc' \in [Threads -> PCs]
                /\ op' \in [Threads -> Operations]
                /\ stale' \in [Threads -> SUBSET StaleKinds]
BY DEF TypeOK, Goto, Finish, Return, PCs, Operations

\* A thread that is not idle has a command and names.
LEMMA HasCommand ==
    ASSUME TypeOK, NEW t \in Threads, pc[t] # "idle"
    PROVE  Cmd(t) \in CommandKinds /\ One(t) \in Names /\ Two(t) \in Names
BY DEF TypeOK, Operations, Cmd, One, Two

\* A context that is in the map stays there under its name.
LEMMA NewContextTypes ==
    ASSUME TypeOK, NEW t \in Threads, One(t) \in Names, NEW f, NEW new,
           GetOrCreate(t, f, new)
    PROVE  /\ index' \in [Contexts -> Names \cup {NoName}]
           /\ \A c \in Contexts : index[c] # NoName => index'[c] = index[c]
           /\ \E c \in Contexts : index'[c] = One(t)
<1>1. CASE UNCHANGED index /\ Acquire(One(t)) # {}
  BY <1>1 DEF TypeOK, Acquire
<1>2. ASSUME NEW c \in Acquire(NoName), index' = [index EXCEPT ![c] = One(t)]
      PROVE  /\ index' \in [Contexts -> Names \cup {NoName}]
             /\ \A d \in Contexts : index[d] # NoName => index'[d] = index[d]
             /\ \E d \in Contexts : index'[d] = One(t)
  <2>1. c \in Contexts /\ index[c] = NoName BY DEF Acquire
  <2>2. index \in [Contexts -> Names \cup {NoName}] BY DEF TypeOK
  <2>3. index'[c] = One(t) BY <1>2, <2>1, <2>2
  <2> QED BY <1>2, <2>1, <2>2, <2>3
<1> QED BY <1>1, <1>2 DEF GetOrCreate

\* No step leaves the types.
LEMMA TypeStep == TInv /\ [Next]_vars => TypeOK'
<1> SUFFICES ASSUME TInv, [Next]_vars PROVE TypeOK'
  OBVIOUS
<1>0. TypeOK /\ Places
  BY DEF TInv
<1> DEFINE Effects ==
      /\ stale' \in [Threads -> SUBSET StaleKinds]
      /\ exists' \subseteq Names
      /\ index' \in [Contexts -> Names \cup {NoName}]
      /\ lock' \in [Contexts -> Threads \cup {NoThread, Lost}]
      /\ trans' \in [Contexts -> {"none", "open", "over"}]
      /\ skipped' \subseteq Names
      /\ \A c \in Contexts :
           index'[c] = NoName => lock'[c] = NoThread /\ trans'[c] = "none"
\* A thread keeps its command, or returns.
<1>1. ASSUME NEW t \in Threads, pc[t] # "idle", UNCHANGED op,
             NEW l \in PCs \ {"idle"}, Goto(t, l), Effects
      PROVE  TypeOK'
  BY <1>0, <1>1 DEF TypeOK, Goto
<1>2. ASSUME NEW t \in Threads, Effects, Goto(t, "idle"),
             op' = [op EXCEPT ![t] = NoCommand]
      PROVE  TypeOK'
  BY <1>0, <1>2 DEF TypeOK, Operations, Goto, PCs
<1>3. UNCHANGED <<stale, exists, index, lock, trans, skipped>> => Effects
  BY <1>0 DEF TypeOK
<1>4. ASSUME NEW n \in Names, NEW t \in Threads,
             LockIndex(t, n) \/ UnlockIndex(t, n)
      PROVE  /\ lock' \in [Contexts -> Threads \cup {NoThread, Lost}]
             /\ \A c \in Contexts : index[c] = NoName => lock'[c] = NoThread
  BY <1>0, <1>4, IndexAssumption
     DEF TypeOK, LockIndex, UnlockIndex, Acquire
<1>5. ASSUME NEW t \in Threads, ReturnLocked(t)
      PROVE  /\ lock' \in [Contexts -> Threads \cup {NoThread, Lost}]
             /\ \A c \in Contexts : index[c] = NoName => lock'[c] = NoThread
  BY <1>0, <1>5, IndexAssumption DEF TypeOK, ReturnLocked
<1>6. ASSUME NEW n \in Names, NEW t, CloseEnvironment(t, n)
      PROVE  /\ stale' \in [Threads -> SUBSET StaleKinds]
             /\ trans' \in [Contexts -> {"none", "open", "over"}]
             /\ \A c \in Contexts : index[c] = NoName => trans'[c] = "none"
  BY <1>0, <1>6
     DEF TypeOK, CloseEnvironment, Abort, Acquire, StaleKinds
<1>7. ASSUME NEW n \in Names, NEW c \in Acquire(n), DeleteTransaction(c)
      PROVE  /\ trans' \in [Contexts -> {"none", "open", "over"}]
             /\ \A d \in Contexts : index[d] = NoName => trans'[d] = "none"
  BY <1>0, <1>7 DEF TypeOK, DeleteTransaction, Acquire
<1>8. ASSUME NEW t \in Threads, Return(t)
      PROVE  /\ Goto(t, "idle") /\ op' = [op EXCEPT ![t] = NoCommand]
             /\ stale' \in [Threads -> SUBSET StaleKinds]
             /\ skipped' \subseteq Names
  BY <1>0, <1>8, GotoTypes DEF Return, Forget, TypeOK
<1>9. PCs \ {"idle"} = {"prelude", "new prelude", "create", "lock",
        "lock two", "close", "env", "new env", "use", "act", "unlock two",
        "unlock", "unlock rollback", "drop"}
  BY DEF PCs
<1>10. ASSUME NEW t \in Threads, Finish(t)
      PROVE  \E l \in PCs \ {"idle"} : Goto(t, l)
  BY <1>9, <1>10 DEF Finish
<1>11. /\ stale \in [Threads -> SUBSET StaleKinds]
       /\ exists \subseteq Names
       /\ index \in [Contexts -> Names \cup {NoName}]
       /\ lock \in [Contexts -> Threads \cup {NoThread, Lost}]
       /\ trans \in [Contexts -> {"none", "open", "over"}]
       /\ skipped \subseteq Names
       /\ \A c \in Contexts :
            index[c] = NoName => lock[c] = NoThread /\ trans[c] = "none"
  BY <1>0 DEF TypeOK
<1>12. ASSUME NEW t \in Threads, Start(t) PROVE TypeOK'
  <2>1. PICK c \in Commands, n \in Names :
          \E m \in (IF c \in OnTwoNames THEN Names ELSE {n}) :
            /\ op' = [op EXCEPT ![t] = [cmd |-> c, one |-> n, two |-> m]]
            /\ Goto(t, IF c \in OnTwoNames \cup {"create"} THEN "prelude"
                                                          ELSE "lock")
    BY <1>12 DEF Start
  <2>2. PICK m \in Names :
            /\ op' = [op EXCEPT ![t] = [cmd |-> c, one |-> n, two |-> m]]
            /\ Goto(t, IF c \in OnTwoNames \cup {"create"} THEN "prelude"
                                                          ELSE "lock")
    BY <2>1
  <2>3. c \in CommandKinds /\ c # "none"
    BY IndexAssumption DEF CommandKinds, OnTransactions, OnTwoNames
  <2>4. [cmd |-> c, one |-> n, two |-> m] # NoCommand
    <3>1. [cmd |-> c, one |-> n, two |-> m].cmd # NoCommand.cmd
      BY <2>3 DEF NoCommand
    <3> QED BY <3>1
  <2>5. PICK l \in {"prelude", "lock"} : Goto(t, l)
    BY <2>2
  <2>6. \A u \in Threads : pc'[u] = "idle" <=> op'[u] = NoCommand
    BY <1>0, <2>2, <2>4, <2>5 DEF TypeOK, Goto
  <2>7. pc' \in [Threads -> PCs] BY <1>0, <1>9, <2>5, GotoTypes
  <2>8. op' \in [Threads -> Operations]
    BY <1>0, <2>2, <2>3 DEF TypeOK, Operations
  <2> QED BY <1>11, <1>12, <2>6, <2>7, <2>8 DEF TypeOK, Start
<1>13. ASSUME NEW t \in Threads, Step(t), ~Start(t) PROVE TypeOK'
  <2>0. /\ pc[t] # "idle"
        /\ Cmd(t) \in CommandKinds /\ One(t) \in Names /\ Two(t) \in Names
    <3>1. pc[t] # "idle"
      BY <1>13 DEF Step, NewContext, Prelude, GetOrCreate, Create, Lock,
         LockTwo, UnlockTwo, Unlock, UnlockRollback, Env, EnvFails, Close,
         Read, ReadFails, Destroy, Rename, Swap, FindTransaction, Begin,
         Insert, Commit, Rollback, Drop, At
    <3> QED BY <1>0, <3>1, HasCommand
  <2>1. ASSUME UNCHANGED op, NEW l \in PCs \ {"idle"}, Goto(t, l), Effects
        PROVE  TypeOK'
    BY <1>1, <2>0, <2>1
  <2>2. ASSUME Effects, Return(t)
        PROVE  TypeOK'
    BY <1>2, <1>8, <2>2
  <2>3. CASE NewContext(t)
    <3>1. \E l \in PCs \ {"idle"} : Goto(t, l)
      BY <1>9, <2>3 DEF NewContext
    <3> QED BY <1>3, <2>1, <2>3, <3>1 DEF NewContext
  <2>30. ASSUME NEW f, NEW new, GetOrCreate(t, f, new)
        PROVE  /\ index' \in [Contexts -> Names \cup {NoName}]
               /\ \A c \in Contexts : index'[c] = NoName => index[c] = NoName
    <3>1. \A c \in Contexts : index[c] # NoName => index'[c] = index[c]
      BY <1>0, <2>0, <2>30, NewContextTypes
    <3> QED BY <1>0, <2>0, <2>30, <3>1, NewContextTypes
  <2>31. CASE Prelude(t)
    <3>1. \/ Return(t)
          \/ UNCHANGED <<op, stale, skipped>>
             /\ \E l \in PCs \ {"idle"} : Goto(t, l)
      BY <1>9, <2>31 DEF Prelude
    <3>2. stale' \in [Threads -> SUBSET StaleKinds] /\ skipped' \subseteq Names
      BY <1>8, <1>11, <3>1
    <3>3. Effects
      BY <1>11, <2>30, <2>31, <3>2 DEF Prelude
    <3> QED BY <2>1, <2>2, <3>1, <3>3
  <2>4. CASE Create(t)
    <3>1. Effects
      BY <1>8, <1>11, <2>0, <2>4 DEF Create
    <3> QED BY <2>2, <2>4, <3>1 DEF Create
  <2>5. CASE Lock(t) \/ LockTwo(t)
    <3>1. UNCHANGED op /\ \E l \in PCs \ {"idle"} : Goto(t, l)
      BY <1>9, <2>5 DEF Lock, LockTwo, AfterLocks
    <3>2. PICK n \in Names : LockIndex(t, n)
      BY <2>0, <2>5 DEF Lock, LockTwo
    <3>3. skipped' \subseteq Names
      BY <1>11, <3>2 DEF LockIndex
    <3>4. Effects
      BY <1>4, <1>11, <2>5, <3>2, <3>3 DEF Lock, LockTwo
    <3> QED BY <2>1, <3>1, <3>4
  <2>6. CASE UnlockTwo(t) \/ UnlockRollback(t)
    <3>1. UNCHANGED op /\ \E l \in PCs \ {"idle"} : Goto(t, l)
      BY <1>9, <2>6 DEF UnlockTwo, UnlockRollback
    <3>2. PICK n \in Names : UnlockIndex(t, n)
      BY <2>0, <2>6 DEF UnlockTwo, UnlockRollback
    <3>4. Effects
      BY <1>4, <1>11, <2>6, <3>2 DEF UnlockTwo, UnlockRollback
    <3> QED BY <2>1, <3>1, <3>4
  <2>7. CASE Unlock(t)
    <3>1. Effects
      BY <1>4, <1>8, <1>11, <2>0, <2>7 DEF Unlock
    <3> QED BY <2>2, <2>7, <3>1 DEF Unlock
  <2>8. CASE Env(t)
    <3>1. UNCHANGED op /\ \E l \in PCs \ {"idle"} : Goto(t, l)
      BY <1>9, <2>8 DEF Env
    <3>2. Effects BY <1>11, <2>30, <2>8 DEF Env
    <3> QED BY <2>1, <3>1, <3>2
  <2>9. CASE EnvFails(t)
    <3>0. /\ index' \in [Contexts -> Names \cup {NoName}]
          /\ \A c \in Contexts : index'[c] = NoName => index[c] = NoName
      BY <2>30, <2>9 DEF EnvFails
    <3>1. CASE ReturnLocked(t)
      <4>1. Return(t) BY <3>1 DEF ReturnLocked
      <4>2. Effects
        BY <1>5, <1>8, <1>11, <2>9, <3>0, <3>1, <4>1 DEF EnvFails
      <4> QED BY <2>2, <4>1, <4>2
    <3>2. CASE UNCHANGED <<op, stale, lock, skipped>> /\ Goto(t, "unlock")
      <4>1. Effects
        BY <1>11, <2>9, <3>0, <3>2 DEF EnvFails
      <4> QED BY <1>9, <2>1, <3>2, <4>1
    <3> QED BY <2>9, <3>1, <3>2 DEF EnvFails
  <2>10. CASE Close(t)
    <3>1. UNCHANGED op /\ \E l \in PCs \ {"idle"} : Goto(t, l)
      BY <1>9, <1>10, <2>10 DEF Close
    <3>2. Effects
      BY <1>6, <1>11, <2>0, <2>10 DEF Close
    <3> QED BY <2>1, <3>1, <3>2
  <2>11. CASE Read(t) \/ Insert(t)
    BY <1>3, <1>10, <2>1, <2>11 DEF Read, Insert
  <2>12. CASE ReadFails(t)
    <3>1. Return(t) BY <2>12 DEF ReadFails, ReturnLocked
    <3>2. Effects
      BY <1>5, <1>8, <1>11, <2>12, <3>1 DEF ReadFails
    <3> QED BY <2>2, <3>1, <3>2
  <2>13. CASE Destroy(t)
    <3>1. Effects BY <1>11, <2>13 DEF Destroy
    <3> QED BY <1>10, <2>1, <2>13, <3>1 DEF Destroy
  <2>14. CASE Rename(t)
    <3>1. CASE Two(t) \in exists
      <4>1. ReturnLocked(t) /\ Return(t)
        BY <2>14, <3>1 DEF Rename, ReturnLocked
      <4>2. Effects
        BY <1>5, <1>8, <1>11, <2>14, <3>1, <4>1 DEF Rename
      <4> QED BY <2>2, <4>1, <4>2
    <3>2. CASE Two(t) \notin exists
      <4>1. Finish(t) /\ UNCHANGED op BY <2>14, <3>2 DEF Rename
      <4>2. Effects
        BY <1>11, <2>0, <2>14, <3>2 DEF Rename
      <4> QED BY <1>10, <2>1, <4>1, <4>2
    <3> QED BY <3>1, <3>2
  <2>15. CASE Swap(t)
    <3>1. CASE Two(t) \notin exists
      <4>1. ReturnLocked(t) /\ Return(t)
        BY <2>15, <3>1 DEF Swap, ReturnLocked
      <4>2. Effects
        BY <1>5, <1>8, <1>11, <2>15, <3>1, <4>1 DEF Swap
      <4> QED BY <2>2, <4>1, <4>2
    <3>2. CASE Two(t) \in exists
      <4>1. Finish(t) /\ UNCHANGED op BY <2>15, <3>2 DEF Swap
      <4>2. Effects
        BY <1>6, <1>11, <2>0, <2>15, <3>2 DEF Swap
      <4> QED BY <1>10, <2>1, <4>1, <4>2
    <3> QED BY <3>1, <3>2
  <2>16. CASE FindTransaction(t)
    <3>1. CASE ReturnLocked(t)
      <4>1. Return(t) BY <3>1 DEF ReturnLocked
      <4>2. Effects
        BY <1>5, <1>8, <1>11, <2>16, <3>1, <4>1 DEF FindTransaction
      <4> QED BY <2>2, <4>1, <4>2
    <3>2. CASE /\ UNCHANGED <<op, stale, lock, skipped>>
               /\ \E l \in PCs \ {"idle"} : Goto(t, l)
      <4>1. Effects
        BY <1>3, <2>16, <3>2 DEF FindTransaction
      <4> QED BY <2>1, <3>2, <4>1
    <3> QED BY <1>9, <1>10, <2>16, <3>1, <3>2 DEF FindTransaction
  <2>17. CASE Begin(t) \/ Commit(t) \/ Rollback(t)
    <3>1. UNCHANGED op /\ \E l \in PCs \ {"idle"} : Goto(t, l)
      BY <1>9, <1>10, <2>17 DEF Begin, Commit, Rollback
    <3>2. \E c \in Acquire(One(t)), v \in {"none", "open", "over"} :
            trans' = [trans EXCEPT ![c] = v]
      BY <1>11, <2>0, <2>17 DEF Begin, Commit, Rollback, SetTransaction, Acquire
    <3>3. /\ trans' \in [Contexts -> {"none", "open", "over"}]
          /\ \A c \in Contexts : index[c] = NoName => trans'[c] = "none"
      BY <1>11, <2>0, <3>2, IndexAssumption DEF Acquire
    <3>4. Effects
      BY <1>11, <2>17, <3>3 DEF Begin, Commit, Rollback
    <3> QED BY <2>1, <3>1, <3>4
  <2>18. CASE Drop(t)
    <3>1. Effects
      BY <1>7, <1>8, <1>11, <2>0, <2>18 DEF Drop
    <3> QED BY <2>2, <2>18, <3>1 DEF Drop
  <2> QED
    BY <1>13, <2>3, <2>31, <2>4, <2>5, <2>6, <2>7, <2>8, <2>9, <2>10, <2>11,
       <2>12, <2>13, <2>14, <2>15, <2>16, <2>17, <2>18 DEF Step
<1>14. ASSUME NEW n \in Names, Timer(n) PROVE TypeOK'
  <2>1. /\ trans' \in [Contexts -> {"none", "open", "over"}]
        /\ \A c \in Contexts : index[c] = NoName => trans'[c] = "none"
    BY <1>7, <1>14 DEF Timer
  <2> QED BY <1>0, <1>14, <2>1 DEF TypeOK, Timer, threads
<1>15. CASE UNCHANGED vars
  BY <1>0, <1>15 DEF vars, threads, TypeOK
<1> QED BY <1>12, <1>13, <1>14, <1>15 DEF Next

\* A step of a thread leaves the places and commands of the others, a name that
\* was not locked stays noted while a command is on it, and what is in the map
\* stays there.
LEMMA OthersStay ==
    ASSUME TypeOK, NEW t \in Threads, Step(t)
    PROVE  /\ \A u \in Threads \ {t} : pc'[u] = pc[u] /\ op'[u] = op[u]
           /\ \A n \in skipped, u \in Threads :
                n \in {op'[u].one, op'[u].two} => n \in skipped'
           /\ \A c \in Contexts : index[c] # NoName => index'[c] = index[c]
<1>1. \/ UNCHANGED op
      \/ \E c : op' = [op EXCEPT ![t] = c]
  BY DEF Step, Start, NewContext, Prelude, Create, Lock, LockTwo, UnlockTwo,
     Unlock, UnlockRollback, Env, EnvFails, Close, Read, ReadFails, Destroy,
     Rename, Swap, FindTransaction, Begin, Insert, Commit, Rollback, Drop,
     Return, ReturnLocked
<1>2. \E l : Goto(t, l)
  BY DEF Step, Start, NewContext, Prelude, Create, Lock, LockTwo, UnlockTwo,
     Unlock, UnlockRollback, Env, EnvFails, Close, Read, ReadFails, Destroy,
     Rename, Swap, FindTransaction, Begin, Insert, Commit, Rollback, Drop,
     Return, ReturnLocked, Finish
<1>3. \A u \in Threads \ {t} : pc'[u] = pc[u]
  BY <1>2 DEF TypeOK, Goto
<1>4. \A u \in Threads \ {t} : op'[u] = op[u]
  BY <1>1 DEF TypeOK
<1>5. ASSUME NEW n \in skipped, NEW u \in Threads,
             n \in {op'[u].one, op'[u].two}
      PROVE  n \in skipped'
  <2>1. CASE Return(t)
    <3>1. n \in Names /\ n # NoName
      BY IndexAssumption DEF TypeOK
    <3>2. op'[t] = NoCommand
      BY <2>1 DEF Return, TypeOK
    <3>3. u # t
      BY <1>5, <3>1, <3>2 DEF NoCommand
    <3>4. n \in {One(u), Two(u)}
      BY <1>4, <1>5, <3>3 DEF One, Two
    <3> QED BY <2>1, <3>3, <3>4 DEF Return, Forget
  <2>2. CASE ~Return(t)
    BY <2>2
       DEF Step, Start, NewContext, Prelude, Create, Lock, LockTwo, UnlockTwo,
           Unlock, UnlockRollback, Env, EnvFails, Close, Read, ReadFails,
           Destroy, Rename, Swap, FindTransaction, Begin, Insert, Commit,
           Rollback, Drop, ReturnLocked, LockIndex
  <2> QED BY <2>1, <2>2
<1>6. \A c \in Contexts : index[c] # NoName => index'[c] = index[c]
  <2>1. CASE Prelude(t) \/ Env(t) \/ EnvFails(t)
    <3>1. PICK f, new : GetOrCreate(t, f, new)
      BY <2>1 DEF Prelude, Env, EnvFails
    <3> QED BY <3>1 DEF GetOrCreate, Acquire, TypeOK
  <2> QED
    BY <2>1
       DEF Step, Start, NewContext, Create, Lock, LockTwo, UnlockTwo, Unlock,
           UnlockRollback, Close, Read, ReadFails, Destroy, Rename, Swap,
           FindTransaction, Begin, Insert, Commit, Rollback, Drop
<1> QED BY <1>3, <1>4, <1>5, <1>6

\* A name keeps its contexts, and one that has two keeps two.
LEMMA MapGrows ==
    ASSUME \A c \in Contexts : index[c] # NoName => index'[c] = index[c]
    PROVE  /\ \A n \in Names : Acquire(n) \subseteq Acquire(n)'
           /\ Doubled \subseteq Doubled'
<1>1. ASSUME NEW n \in Names PROVE Acquire(n) \subseteq Acquire(n)'
  BY <1>1, IndexAssumption DEF Acquire
<1> QED BY <1>1 DEF Doubled

\* What a thread points to becomes stale only while it uses it, and behind its
\* back.
LEMMA StaleStep ==
    ASSUME TypeOK, NEW t \in Threads, Step(t), NEW u \in Threads
    PROVE  /\ "handle" \in stale'[u] =>
                \/ "handle" \in stale[u]
                \/ /\ u # t /\ HasHandles(u, One(u))
                   /\ \/ Close(t) /\ One(u) = One(t)
                      \/ Swap(t) /\ One(u) = Two(t)
           /\ "aborted" \in stale'[u] =>
                \/ "aborted" \in stale[u]
                \/ /\ u # t /\ HasTransaction(u, One(u))
                   /\ \/ Close(t) /\ One(u) = One(t)
                      \/ Swap(t) /\ One(u) = Two(t)
           /\ pc[u] = "idle" /\ u # t => stale'[u] \subseteq stale[u]
<1>0. stale \in [Threads -> SUBSET StaleKinds]
  BY DEF TypeOK
<1>1. CASE UNCHANGED stale \/ Return(t)
  BY <1>0, <1>1 DEF Return
<1>2. CASE Close(t)
  BY <1>0, <1>2 DEF Close, CloseEnvironment, HasHandles, HasTransaction
<1>3. CASE Swap(t) /\ CloseEnvironment(t, Two(t))
  BY <1>0, <1>3 DEF CloseEnvironment, HasHandles, HasTransaction
<1> QED
  BY <1>1, <1>2, <1>3
     DEF Step, Start, NewContext, Prelude, Create, Lock, LockTwo, UnlockTwo,
         Unlock, UnlockRollback, Env, EnvFails, Read, ReadFails, Destroy,
         Rename, Swap, FindTransaction, Begin, Insert, Commit, Rollback,
         Drop, ReturnLocked

\* A command goes from place to place as its kind tells.
LEMMA PlacesStep == TInv /\ [Next]_vars => Places'
<1> SUFFICES ASSUME TInv, [Next]_vars PROVE Places'
  OBVIOUS
<1>0. TypeOK /\ Places BY DEF TInv
<1> DEFINE PlaceOf(u) ==
      /\ pc[u] \in {"lock two", "unlock two"} => Cmd(u) = "swap"
      /\ pc[u] = "create" => Cmd(u) = "create"
      /\ pc[u] = "close" => Cmd(u) \in OnTwoNames \cup {"delete"}
      /\ pc[u] = "act" => Cmd(u) \in OnTransactions
      /\ pc[u] \in {"unlock rollback", "drop"} => Cmd(u) = "rollback"
<1> DEFINE Known(u) == pc[u] \in {"use", "act"} => Acquire(One(u)) # {}
<1>1. ASSUME NEW t \in Threads, Step(t) PROVE Places'
  <2>0. ASSUME NEW n \in Names, Acquire(n) # {} PROVE Acquire(n)' # {}
    BY <1>0, <1>1, <2>0, OthersStay, MapGrows
  <2>1. ASSUME NEW u \in Threads \ {t} PROVE PlaceOf(u)' /\ Known(u)'
    <3>1. pc'[u] = pc[u] /\ op'[u] = op[u]
      BY <1>0, <1>1, <2>1, OthersStay
    <3>2. PlaceOf(u)' BY <1>0, <3>1 DEF Places, Cmd
    <3>3. ASSUME pc'[u] \in {"use", "act"} PROVE Acquire(One(u))' # {}
      <4>1. Acquire(op[u].one) # {} /\ op[u].one \in Names
        BY <1>0, <3>1, <3>3, HasCommand DEF Places, One
      <4>2. {c \in Contexts : index'[c] = op[u].one} # {}
        BY <2>0, <4>1 DEF Acquire
      <4> QED BY <3>1, <4>2 DEF Acquire, One
    <3> QED BY <3>2, <3>3
  <2>2. PlaceOf(t)'
    <3>0. pc \in [Threads -> PCs] /\ op'[t] = op'[t]
      BY <1>0 DEF TypeOK
    <3>1. CASE Goto(t, "idle")
      BY <3>0, <3>1 DEF Goto
    <3>2. CASE \E l \in {"prelude", "new prelude", "new env", "lock",
                          "unlock", "env", "use"} : Goto(t, l)
      BY <3>0, <3>2 DEF Goto
    <3>3. CASE UNCHANGED op /\ Finish(t)
      BY <3>0, <3>3 DEF Finish, Goto, Cmd
    <3>4. CASE Prelude(t)
      BY <3>0, <3>1, <3>2, <3>4 DEF Prelude, Return, Goto, Cmd
    <3>5. CASE Lock(t) \/ LockTwo(t)
      BY <1>0, <3>0, <3>5 DEF Lock, LockTwo, AfterLocks, Goto, Cmd, Places,
         At, OnTwoNames
    <3>6. CASE UnlockRollback(t)
      BY <1>0, <3>0, <3>6 DEF UnlockRollback, Goto, Cmd, Places, At
    <3>7. CASE FindTransaction(t) /\ Goto(t, "act")
      <4>1. UNCHANGED op
        BY <3>0, <3>7 DEF FindTransaction, Goto, Return, ReturnLocked
      <4> QED
        BY <3>0, <3>7, <4>1 DEF FindTransaction, Goto, Cmd
    <3>8. CASE Rollback(t)
      BY <3>0, <3>8 DEF Rollback, Goto, Cmd
    <3> QED
      BY <1>1, <3>1, <3>2, <3>3, <3>4, <3>5, <3>6, <3>7, <3>8
         DEF Step, Start, NewContext, Create, UnlockTwo, Unlock, Env,
             EnvFails, Close, Read, ReadFails, Destroy, Rename, Swap,
             FindTransaction, Begin, Insert, Commit, Drop, Return,
             ReturnLocked
  <2>3. Known(t)'
    <3> SUFFICES ASSUME pc'[t] \in {"use", "act"}
                 PROVE  Acquire(One(t))' # {}
      OBVIOUS
    <3>0. pc \in [Threads -> PCs]
      BY <1>0 DEF TypeOK
    <3>1. Env(t) \/ FindTransaction(t)
      BY <1>1, <3>0
         DEF Step, Start, NewContext, Prelude, Create, Lock, LockTwo,
             UnlockTwo, Unlock, UnlockRollback, EnvFails, Close, Read,
             ReadFails, Destroy, Rename, Swap, Begin, Insert, Commit,
             Rollback, Drop, Return, ReturnLocked, Finish, Goto, AfterLocks
    <3>2. CASE Env(t)
      <4>1. One(t) \in Names
        BY <1>0, <3>2, HasCommand DEF Env, GetOrCreate, At
      <4>2. \E c \in Contexts : index'[c] = One(t)
        BY <1>0, <3>2, <4>1, NewContextTypes DEF Env
      <4>3. UNCHANGED op BY <3>2 DEF Env
      <4> QED BY <4>2, <4>3 DEF Acquire, One
    <3>3. CASE FindTransaction(t)
      <4>1. pc[t] = "use" BY <3>3 DEF FindTransaction, At
      <4>2. UNCHANGED <<op, index>>
        BY <3>0, <3>3 DEF FindTransaction, Goto, Return, ReturnLocked
      <4>3. Acquire(One(t)) # {} BY <1>0, <4>1 DEF Places
      <4> QED BY <4>2, <4>3 DEF Acquire, One
    <3> QED BY <3>1, <3>2, <3>3
  <2>4. ASSUME NEW u \in Threads, pc'[u] = "idle" PROVE stale'[u] = {}
    <3>1. CASE u = t
      <4>0. /\ pc \in [Threads -> PCs]
            /\ stale \in [Threads -> SUBSET StaleKinds]
        BY <1>0 DEF TypeOK
      <4>1. Return(t)
        BY <1>1, <2>4, <3>1, <4>0
           DEF Step, Start, NewContext, Prelude, Create, Lock, LockTwo,
               UnlockTwo, Unlock, UnlockRollback, Env, EnvFails, Close, Read,
               ReadFails, Destroy, Rename, Swap, FindTransaction, Begin,
               Insert, Commit, Rollback, Drop, ReturnLocked, Finish, Goto,
               AfterLocks
      <4> QED
        BY <3>1, <4>0, <4>1 DEF Return
    <3>2. CASE u # t
      <4>1. pc[u] = "idle" /\ stale[u] = {}
        BY <1>0, <1>1, <2>4, <3>2, OthersStay DEF Places
      <4> QED
        BY <1>0, <1>1, <3>2, <4>1, StaleStep
    <3> QED BY <3>1, <3>2
  <2> QED BY <2>1, <2>2, <2>3, <2>4 DEF Places
<1>2. ASSUME NEW n \in Names, Timer(n) PROVE Places'
  <2>1. UNCHANGED <<pc, op, stale, index>> BY <1>2 DEF Timer, threads
  <2>2. ASSUME NEW u \in Threads, pc[u] = "idle" PROVE stale'[u] = {}
    <3>1. stale[u] = {} BY <1>0, <2>2 DEF Places
    <3> QED BY <2>1, <3>1
  <2>3. ASSUME NEW u \in Threads PROVE PlaceOf(u)' /\ Known(u)'
    BY <1>0, <2>1, <2>3 DEF Places, Cmd, One, Acquire
  <2> QED BY <2>1, <2>2, <2>3 DEF Places
<1>3. CASE UNCHANGED vars
  BY <1>0, <1>3 DEF vars, threads, Places, Cmd, One, Acquire
<1> QED BY <1>1, <1>2, <1>3 DEF Next

----------------------------------------------------------------------------
(* Locks *)

\* A command is inside names only.
LEMMA InsideNames ==
    ASSUME TypeOK, NEW t \in Threads
    PROVE  Inside(t) \subseteq Names
<1>1. CASE pc[t] = "idle" BY <1>1 DEF Inside
<1>2. CASE pc[t] # "idle" BY <1>2, HasCommand DEF Inside
<1> QED BY <1>1, <1>2

\* Nobody has the lock of a name without being inside, nobody is inside without
\* it but after a lock that was skipped, or with two contexts.
LEMMA LocksStep == LInv /\ [Next]_vars => LInv'
<1> SUFFICES ASSUME LInv, [Next]_vars PROVE LInv'
  OBVIOUS
<1>0. /\ TInv /\ TypeOK /\ Places /\ InsideOwns /\ SwapSelf /\ LocksGivenBack
      /\ TInv'
  BY TypeStep, PlacesStep DEF LInv, TInv
<1>1. ASSUME NEW t \in Threads, Step(t)
      PROVE  InsideOwns' /\ SwapSelf' /\ LocksGivenBack'
  <2>1. /\ \A u \in Threads \ {t} : pc'[u] = pc[u] /\ op'[u] = op[u]
        /\ \A n \in skipped, u \in Threads :
             n \in {op'[u].one, op'[u].two} => n \in skipped'
        /\ \A c \in Contexts : index[c] # NoName => index'[c] = index[c]
    BY <1>0, <1>1, OthersStay
  <2>11. ASSUME NEW u \in Threads, NEW n \in Inside(u)', n \notin skipped'
         PROVE  n \notin skipped
    <3>1. n \in {op'[u].one, op'[u].two}
      BY <2>11 DEF Inside, One, Two
    <3> QED BY <2>1, <2>11, <3>1
  <2>2. \A u \in Threads \ {t} : Inside(u)' = Inside(u)
    BY <2>1 DEF Inside, Cmd, One, Two
  <2>3. /\ lock \in [Contexts -> Threads \cup {NoThread, Lost}]
        /\ \A c \in Contexts : index[c] = NoName => lock[c] = NoThread
        /\ \A u \in Threads : Inside(u) \subseteq Names
    BY <1>0, InsideNames DEF TypeOK
  <2>30. Doubled \subseteq Doubled'
    BY <2>1, MapGrows
  \* An owner stays one where nobody else gets the mutex.
  <2>31. ASSUME NEW u \in Threads, NEW n \in Inside(u), n \in Inside(u)',
                n \notin skipped', n \notin Doubled'
         PROVE  \E c \in Acquire(n) : lock[c] = u /\ index'[c] = n
    <3>1. PICK c \in Acquire(n) : lock[c] = u
      BY <1>0, <2>11, <2>30, <2>31 DEF InsideOwns, HasLock
    <3>2. c \in Contexts /\ index[c] = n /\ n \in Names
      BY <2>3, <2>31, <3>1 DEF Acquire
    <3>3. index'[c] = n BY <2>1, <3>2, IndexAssumption
    <3> QED BY <3>1, <3>3
  <2>32. ASSUME NEW u \in Threads, NEW n, NEW c \in Contexts, lock'[c] = u,
                index'[c] = n
         PROVE  HasLock(u, n)'
    BY <2>32 DEF HasLock, Acquire
  <2>33. ASSUME \A c \in Contexts : \A u \in Threads :
                  lock'[c] = u => index'[c] \in Inside(u)'
         PROVE  LocksGivenBack'
    <3>1. ASSUME NEW c \in Contexts, lock'[c] \in Threads
          PROVE  (index[c] \in Inside(lock[c]))'
      <4>1. \A u \in Threads : lock'[c] = u => index'[c] \in Inside(u)'
        BY <2>33
      <4> QED BY <3>1, <4>1 DEF Inside, Cmd, One, Two
    <3> QED BY <3>1 DEF LocksGivenBack
  <2>34. ASSUME \A u \in Threads : \A n \in Inside(u)' :
                  n \notin skipped' /\ n \notin Doubled' => HasLock(u, n)'
         PROVE  InsideOwns'
    BY <2>34 DEF InsideOwns
  \* The thread stays where it is inside.
  <2>4. ASSUME UNCHANGED lock, Inside(t)' = Inside(t)
        PROVE  InsideOwns' /\ LocksGivenBack'
    <3>1. ASSUME NEW u \in Threads, NEW n \in Inside(u)',
                 n \notin skipped', n \notin Doubled'
          PROVE  HasLock(u, n)'
      <4>1. n \in Inside(u) BY <2>2, <2>4, <3>1
      <4>2. PICK c \in Acquire(n) : lock[c] = u /\ index'[c] = n
        BY <2>31, <3>1, <4>1
      <4> QED BY <2>4, <2>32, <4>2 DEF Acquire
    <3>2. ASSUME NEW c \in Contexts, NEW u \in Threads, lock'[c] = u
          PROVE  index'[c] \in Inside(u)'
      <4>1. lock[c] = u /\ index[c] \in Inside(u)
        BY <1>0, <2>4, <3>2 DEF LocksGivenBack
      <4>2. index'[c] = index[c]
        BY <2>1, <2>3, <4>1, IndexAssumption
      <4>3. Inside(u)' = Inside(u)
        BY <2>2, <2>4
      <4> QED BY <4>1, <4>2, <4>3
    <3> QED BY <2>33, <2>34, <3>1, <3>2
  \* It gets a lock, or skips it.
  <2>5. ASSUME NEW n \in Names, LockIndex(t, n), UNCHANGED index,
               Inside(t)' = Inside(t) \cup {n}
        PROVE  InsideOwns' /\ LocksGivenBack'
    <3>1. ASSUME NEW c \in Acquire(n), lock[c] = NoThread,
                 lock' = [lock EXCEPT ![c] = t], UNCHANGED skipped
          PROVE  InsideOwns' /\ LocksGivenBack'
      <4>0. c \in Contexts /\ index[c] = n
        BY <3>1 DEF Acquire
      <4>1. ASSUME NEW u \in Threads, NEW m \in Inside(u)',
                   m \notin skipped', m \notin Doubled'
            PROVE  HasLock(u, m)'
        <5>1. CASE m \in Inside(u)
          <6>1. PICK d \in Acquire(m) : lock[d] = u /\ index'[d] = m
            BY <2>31, <4>1, <5>1
          <6>2. d \in Contexts /\ d # c
            BY <3>1, <6>1, IndexAssumption DEF Acquire
          <6>3. lock'[d] = u BY <2>3, <3>1, <6>1, <6>2
          <6> QED BY <2>32, <6>1, <6>2, <6>3
        <5>2. CASE m \notin Inside(u)
          <6>1. u = t /\ m = n BY <2>2, <2>5, <4>1, <5>2
          <6>2. lock'[c] = u /\ index'[c] = m
            BY <2>3, <2>5, <3>1, <4>0, <6>1
          <6> QED BY <2>32, <4>0, <6>2
        <5> QED BY <5>1, <5>2
      <4>2. ASSUME NEW d \in Contexts, NEW u \in Threads, lock'[d] = u
            PROVE  index'[d] \in Inside(u)'
        <5>1. CASE d = c
          BY <2>3, <2>5, <3>1, <4>0, <4>2, <5>1
        <5>2. CASE d # c
          <6>1. lock[d] = u /\ index[d] \in Inside(u)
            BY <1>0, <2>3, <3>1, <4>2, <5>2 DEF LocksGivenBack
          <6>2. Inside(u) \subseteq Inside(u)'
            BY <2>2, <2>5
          <6> QED BY <2>5, <6>1, <6>2
        <5> QED BY <5>1, <5>2
      <4> QED BY <2>33, <2>34, <4>1, <4>2
    <3>2. CASE skipped' = skipped \cup {n} /\ UNCHANGED lock
      <4>1. ASSUME NEW u \in Threads, NEW m \in Inside(u)',
                   m \notin skipped', m \notin Doubled'
            PROVE  HasLock(u, m)'
        <5>1. m \in Inside(u)
          BY <2>2, <2>5, <3>2, <4>1
        <5>2. PICK d \in Acquire(m) : lock[d] = u /\ index'[d] = m
          BY <2>31, <4>1, <5>1
        <5> QED BY <2>32, <3>2, <5>2 DEF Acquire
      <4>2. ASSUME NEW d \in Contexts, NEW u \in Threads, lock'[d] = u
            PROVE  index'[d] \in Inside(u)'
        <5>1. lock[d] = u /\ index[d] \in Inside(u)
          BY <1>0, <3>2, <4>2 DEF LocksGivenBack
        <5>2. Inside(u) \subseteq Inside(u)'
          BY <2>2, <2>5
        <5> QED BY <2>5, <5>1, <5>2
      <4> QED BY <2>33, <2>34, <4>1, <4>2
    <3> QED BY <2>5, <3>1, <3>2 DEF LockIndex
  \* It gives one back.
  <2>6. ASSUME NEW n \in Names, UnlockIndex(t, n), UNCHANGED index,
               n \in Inside(t), Inside(t)' \ {n} = Inside(t) \ {n},
               n \notin Inside(t)' \/ n \in skipped' \cup Doubled
        PROVE  InsideOwns' /\ LocksGivenBack'
    <3>0. Doubled' = Doubled
      BY <2>6 DEF Doubled, Acquire
    <3>1. \/ Acquire(n) = {} /\ UNCHANGED lock
          \/ \E c \in Acquire(n) :
               lock' = [d \in Contexts |->
                          CASE d = c -> NoThread
                            [] d # c /\ index[d] = n /\ lock[d] = t -> Lost
                            [] OTHER -> lock[d]]
      BY <2>6 DEF UnlockIndex
    <3>2. ASSUME NEW d \in Contexts, index[d] # n
          PROVE  lock'[d] = lock[d]
      BY <3>1, <3>2 DEF Acquire
    <3>3. ASSUME NEW d \in Contexts, lock'[d] \in Threads
          PROVE  /\ lock'[d] = lock[d]
                 /\ index[d] # n \/ lock[d] # t
      <4>1. CASE Acquire(n) = {} /\ UNCHANGED lock
        BY <4>1 DEF Acquire
      <4>2. ASSUME NEW c \in Acquire(n),
                   lock' = [e \in Contexts |->
                          CASE e = c -> NoThread
                            [] e # c /\ index[e] = n /\ lock[e] = t -> Lost
                            [] OTHER -> lock[e]]
            PROVE  /\ lock'[d] = lock[d]
                   /\ index[d] # n \/ lock[d] # t
        <5>1. lock'[d] = CASE d = c -> NoThread
                            [] d # c /\ index[d] = n /\ lock[d] = t -> Lost
                            [] OTHER -> lock[d]
          BY <4>2
        <5>2. d # c BY <3>3, <5>1, IndexAssumption
        <5>3. ~(index[d] = n /\ lock[d] = t)
          BY <3>3, <5>1, <5>2, IndexAssumption
        <5> QED BY <5>1, <5>2, <5>3
      <4> QED BY <3>1, <4>1, <4>2
    <3>4. ASSUME NEW u \in Threads, NEW m \in Inside(u)',
                 m \notin skipped', m \notin Doubled'
          PROVE  HasLock(u, m)'
      <4>1. m \in Inside(u)
        BY <2>2, <2>6, <3>0, <3>4
      <4>2. PICK d \in Acquire(m) : lock[d] = u /\ index'[d] = m
        BY <2>31, <3>4, <4>1
      <4>3. d \in Contexts /\ index[d] = m BY <4>2 DEF Acquire
      <4>4. CASE m = n
        <5>1. u # t BY <2>6, <3>0, <3>4, <4>4
        <5>2. PICK e \in Acquire(n) : lock[e] = t
          BY <1>0, <2>6, <2>11, <3>0, <3>4, <4>4 DEF InsideOwns, HasLock
        <5>3. d # e BY <4>2, <5>1, <5>2
        <5>4. n \in Doubled BY <4>2, <4>4, <5>2, <5>3 DEF Doubled
        <5> QED BY <3>0, <3>4, <4>4, <5>4
      <4>5. CASE m # n
        BY <2>32, <3>2, <4>2, <4>3, <4>5
      <4> QED BY <4>4, <4>5
    <3>5. ASSUME NEW d \in Contexts, NEW u \in Threads, lock'[d] = u
          PROVE  index'[d] \in Inside(u)'
      <4>1. lock[d] = u /\ (index[d] # n \/ u # t)
        BY <3>3, <3>5
      <4>2. index[d] \in Inside(u)
        BY <1>0, <4>1 DEF LocksGivenBack
      <4>3. CASE u # t
        BY <2>2, <2>6, <4>2, <4>3
      <4>4. CASE u = t
        BY <2>6, <4>1, <4>2, <4>4
      <4> QED BY <4>3, <4>4
    <3> QED BY <2>33, <2>34, <3>4, <3>5
  \* It returns, and leaves its locks locked.
  <2>7. ASSUME ReturnLocked(t)
        PROVE  InsideOwns' /\ LocksGivenBack'
    <3>1. Inside(t)' = {}
      BY <1>0, <2>7 DEF ReturnLocked, Return, Goto, Inside, TypeOK
    <3>2. \A c \in Contexts : lock'[c] = IF lock[c] = t THEN Lost ELSE lock[c]
      BY <2>7 DEF ReturnLocked
    <3>3. ASSUME NEW u \in Threads, NEW n \in Inside(u)',
                 n \notin skipped', n \notin Doubled'
          PROVE  HasLock(u, n)'
      <4>1. u # t /\ n \in Inside(u) BY <2>2, <3>1, <3>3
      <4>2. PICK c \in Acquire(n) : lock[c] = u /\ index'[c] = n
        BY <2>31, <3>3, <4>1
      <4>3. c \in Contexts BY <4>2 DEF Acquire
      <4> QED BY <2>32, <3>2, <4>1, <4>2, <4>3
    <3>4. ASSUME NEW c \in Contexts, NEW u \in Threads, lock'[c] = u
          PROVE  index'[c] \in Inside(u)'
      <4>1. lock[c] = u /\ u # t
        BY <3>2, <3>4, IndexAssumption
      <4>2. index[c] \in Inside(u)
        BY <1>0, <3>4, <4>1 DEF LocksGivenBack
      <4>3. index'[c] = index[c]
        BY <2>1, <2>3, <3>4, <4>1, IndexAssumption
      <4> QED BY <2>2, <4>1, <4>2, <4>3
    <3> QED BY <2>33, <2>34, <3>3, <3>4
  <2>8. /\ pc \in [Threads -> PCs]
        /\ pc[t] # "idle" =>
             Cmd(t) \in CommandKinds /\ One(t) \in Names /\ Two(t) \in Names
    BY <1>0, HasCommand DEF TypeOK
  <2>9. InsideOwns' /\ LocksGivenBack'
    <3>1. CASE Start(t) \/ Prelude(t) \/ Create(t) \/ Drop(t)
      <4>1. \E l \in {"prelude", "lock", "create", "idle"} : Goto(t, l)
        BY <3>1 DEF Start, Prelude, Create, Drop, Return
      <4>2. Inside(t) = {} /\ Inside(t)' = {}
        BY <2>8, <3>1, <4>1
           DEF Start, Prelude, GetOrCreate, Create, Drop, At, Inside, Goto
      <4>3. UNCHANGED lock
        BY <3>1 DEF Start, Prelude, Create, Drop
      <4> QED BY <2>4, <4>2, <4>3
    <3>10. CASE NewContext(t)
      <4>1. /\ pc[t] \in {"prelude", "env"} /\ UNCHANGED <<op, lock, skipped>>
            /\ Goto(t, IF pc[t] = "env" THEN "new env" ELSE "new prelude")
        BY <3>10 DEF NewContext, At
      <4>2. Inside(t)' = Inside(t)
        BY <2>8, <4>1 DEF Inside, Goto, Cmd, One, Two
      <4> QED BY <2>4, <4>1, <4>2
    <3>2. CASE Lock(t)
      <4>1. Inside(t) = {} BY <3>2 DEF Lock, At, Inside
      <4>2. Inside(t)' = {One(t)}
        BY <2>8, <3>2 DEF Lock, AfterLocks, At, Inside, Goto, Cmd, One, Two
      <4> QED BY <2>5, <2>8, <3>2, <4>1, <4>2 DEF Lock, At
    <3>3. CASE LockTwo(t)
      <4>0. Cmd(t) = "swap" BY <1>0, <3>3 DEF LockTwo, At, Places
      <4>1. Inside(t) = {One(t)} BY <3>3 DEF LockTwo, At, Inside
      <4>2. Inside(t)' = {One(t), Two(t)}
        BY <2>8, <3>3, <4>0
           DEF LockTwo, AfterLocks, At, Inside, Goto, Cmd, One, Two,
               OnTwoNames
      <4> QED BY <2>5, <2>8, <3>3, <4>1, <4>2 DEF LockTwo, At
    <3>4. CASE UnlockTwo(t)
      <4>0. Cmd(t) = "swap" BY <1>0, <3>4 DEF UnlockTwo, At, Places
      <4>1. Inside(t) = {One(t), Two(t)}
        BY <3>4, <4>0 DEF UnlockTwo, At, Inside
      <4>2. Inside(t)' = {One(t)}
        BY <2>8, <3>4 DEF UnlockTwo, At, Inside, Goto, Cmd, One, Two
      <4>3. One(t) = Two(t) => Two(t) \in skipped \cup Doubled
        BY <1>0, <3>4, <4>0 DEF SwapSelf, UnlockTwo, At
      <4>4. /\ UnlockIndex(t, Two(t)) /\ UNCHANGED <<index, skipped>>
            /\ Two(t) \in Names
        BY <2>8, <3>4 DEF UnlockTwo, At
      <4> QED BY <2>6, <4>1, <4>2, <4>3, <4>4
    <3>5. CASE Unlock(t) \/ UnlockRollback(t)
      <4>1. Inside(t) = {One(t)}
        BY <3>5 DEF Unlock, UnlockRollback, At, Inside
      <4>2. \E l \in {"idle", "drop"} : Goto(t, l)
        BY <3>5 DEF Unlock, UnlockRollback, Return
      <4>3. Inside(t)' = {}
        BY <2>8, <4>2 DEF Inside, Goto
      <4>4. /\ UnlockIndex(t, One(t)) /\ UNCHANGED index
            /\ One(t) \in Names
        BY <2>8, <3>5 DEF Unlock, UnlockRollback, At
      <4> QED BY <2>6, <4>1, <4>3, <4>4
    <3>6. CASE ReturnLocked(t)
      BY <2>7, <3>6
    <3>7. CASE EnvFails(t) /\ ~ReturnLocked(t)
      <4>1. /\ Cmd(t) # "swap" /\ pc[t] \in {"env", "new env"}
            /\ Goto(t, "unlock") /\ UNCHANGED <<op, lock, skipped>>
        BY <3>7 DEF EnvFails, GetOrCreate, At, OnTwoNames
      <4>2. Inside(t)' = Inside(t)
        BY <2>8, <4>1 DEF Inside, Goto, Cmd, One, Two
      <4> QED BY <2>4, <4>1, <4>2
    \* From one place inside to the next.
    <3>8. CASE \/ Env(t) \/ Close(t) \/ Read(t) \/ Destroy(t)
               \/ (Rename(t) \/ Swap(t) \/ FindTransaction(t))
                    /\ ~ReturnLocked(t)
               \/ Begin(t) \/ Insert(t) \/ Commit(t) \/ Rollback(t)
      <4>1. UNCHANGED <<op, lock, skipped>>
        BY <3>8 DEF Env, Close, Read, Destroy, Rename, Swap,
           FindTransaction, Begin, Insert, Commit, Rollback
      <4>2. pc[t] \in {"close", "env", "new env", "use", "act"}
        BY <3>8 DEF Env, GetOrCreate, Close, Read, Destroy, Rename, Swap,
           FindTransaction, Begin, Insert, Commit, Rollback, At
      <4>3. \/ Goto(t, "env") \/ Goto(t, "use") \/ Goto(t, "act")
            \/ Finish(t)
            \/ Cmd(t) # "swap" /\ (Goto(t, "unlock")
                                     \/ Goto(t, "unlock rollback"))
        BY <3>8 DEF Env, Close, Read, Destroy, Rename, Swap,
           FindTransaction, Begin, Insert, Commit, Rollback, OnTwoNames
      <4>4. Inside(t)' = Inside(t)
        BY <2>8, <4>1, <4>2, <4>3 DEF Inside, Goto, Finish, Cmd, One, Two
      <4> QED BY <2>4, <4>1, <4>4
    <3> QED
      BY <1>1, <3>1, <3>10, <3>2, <3>3, <3>4, <3>5, <3>6, <3>7, <3>8
         DEF Step, EnvFails, ReadFails, Rename, Swap, FindTransaction
  <2>10. SwapSelf'
    <3> DEFINE Late == {"close", "env", "new env", "use", "act", "unlock two"}
    <3>1. ASSUME NEW u \in Threads \ {t}, Cmd(u)' = "swap",
                 One(u)' = Two(u)', pc'[u] \in Late
          PROVE  One(u)' \in skipped' \cup Doubled'
      BY <1>0, <2>1, <2>30, <3>1 DEF SwapSelf, Cmd, One, Two
    <3>2. ASSUME Cmd(t)' = "swap", One(t)' = Two(t)', pc'[t] \in Late
          PROVE  One(t)' \in skipped' \cup Doubled'
      <4>1. CASE LockTwo(t)
        <5>1. One(t) = Two(t) /\ One(t)' = One(t)
          BY <3>2, <4>1 DEF LockTwo, One, Two
        <5>2. One(t) \in Inside(t)
          BY <4>1 DEF LockTwo, At, Inside
        <5>3. LockIndex(t, One(t))
          BY <4>1, <5>1 DEF LockTwo
        <5>4. CASE skipped' = skipped \cup {One(t)}
          BY <5>1, <5>4
        <5>5. ASSUME NEW d \in Acquire(One(t)), lock[d] = NoThread
              PROVE  One(t) \in skipped \cup Doubled
          <6>1. ASSUME One(t) \notin skipped \cup Doubled PROVE FALSE
            <7>1. PICK c \in Acquire(One(t)) : lock[c] = t
              BY <1>0, <5>2, <6>1 DEF InsideOwns, HasLock
            <7>2. c # d BY <5>5, <7>1, IndexAssumption
            <7>3. One(t) \in Names BY <2>3, <5>2
            <7> QED BY <5>5, <6>1, <7>1, <7>2, <7>3 DEF Doubled
          <6> QED BY <6>1
        <5> QED
          BY <2>1, <2>30, <5>1, <5>3, <5>4, <5>5 DEF LockIndex
      <4>2. CASE Lock(t)
        BY <2>8, <3>2, <4>2 DEF Lock, AfterLocks, Goto, Cmd, OnTwoNames
      <4>3. CASE UNCHANGED op /\ pc[t] \in {"close", "env", "new env", "use",
                                            "act"}
        BY <1>0, <2>1, <2>30, <3>2, <4>3 DEF SwapSelf, Cmd, One, Two
      <4>4. CASE Start(t) \/ Prelude(t) \/ Create(t) \/ Drop(t)
                 \/ UnlockTwo(t) \/ Unlock(t) \/ UnlockRollback(t)
                 \/ ReturnLocked(t)
        <5>1. \E l \in {"prelude", "lock", "create", "idle", "unlock",
                        "drop"} : Goto(t, l)
          BY <4>4 DEF Start, Prelude, Create, Drop, UnlockTwo, Unlock,
             UnlockRollback, ReturnLocked, Return
        <5> QED BY <2>8, <3>2, <5>1 DEF Goto
      <4>5. CASE NewContext(t)
        <5>1. pc[t] = "env" \/ Goto(t, "new prelude")
          BY <4>5 DEF NewContext, At
        <5>2. CASE Goto(t, "new prelude")
          BY <2>8, <3>2, <5>2 DEF Goto
        <5> QED BY <4>3, <4>5, <5>1, <5>2 DEF NewContext
      <4> QED
        BY <1>1, <4>1, <4>2, <4>3, <4>4, <4>5
           DEF Step, Env, EnvFails, GetOrCreate, Close, Read, ReadFails,
               Destroy, Rename, Swap, FindTransaction, Begin, Insert, Commit,
               Rollback, At
    <3> QED BY <3>1, <3>2 DEF SwapSelf
  <2> QED BY <2>9, <2>10
<1>2. CASE UNCHANGED <<pc, op, index, lock, skipped>>
  <2>1. /\ \A t \in Threads : /\ Inside(t)' = Inside(t) /\ Cmd(t)' = Cmd(t)
                              /\ One(t)' = One(t) /\ Two(t)' = Two(t)
        /\ Doubled' = Doubled
        /\ \A t \in Threads : \A n : HasLock(t, n)' = HasLock(t, n)
    BY <1>2 DEF Inside, Cmd, One, Two, Doubled, Acquire, HasLock
  <2>2. InsideOwns' BY <1>0, <1>2, <2>1 DEF InsideOwns
  <2>3. SwapSelf' BY <1>0, <1>2, <2>1 DEF SwapSelf
  <2>4. LocksGivenBack' BY <1>0, <1>2, <2>1 DEF LocksGivenBack
  <2> QED BY <1>0, <2>2, <2>3, <2>4 DEF LInv
<1>3. (\E n \in Names : Timer(n)) \/ UNCHANGED vars
        => UNCHANGED <<pc, op, index, lock, skipped>>
  BY DEF Timer, vars, threads
<1> QED BY <1>0, <1>1, <1>2, <1>3 DEF Next, LInv

\* The locks hold in every state.
LEMMA LocksHold == Spec => []LInv
<1>1. Init => LInv BY Start0
<1>2. LInv /\ [Next]_vars => LInv' BY LocksStep
<1> QED BY <1>1, <1>2, PTL DEF Spec

\* Every variable keeps its type, and a context that is in no map has no lock and
\* no transaction.
THEOREM ContextTypes == Spec => []TypeOK
<1>1. LInv => TypeOK BY DEF LInv, TInv
<1> QED BY <1>1, LocksHold, PTL

\* A mutex that is locked is owned by a command at work on the name of its
\* context, or was left locked by a command that has returned, or has unlocked
\* the other one of two contexts.
THEOREM LockHasOwner == Spec => []LocksGivenBack
<1>1. LInv => LocksGivenBack BY DEF LInv
<1> QED BY <1>1, LocksHold, PTL

\* Who waits and is waited for is a swap between its two locks: the mutex another
\* one waits for is that of a name it is inside of, and in front of its first
\* lock a command is inside of no name.
LEMMA WaitersAreSwaps ==
    ASSUME LInv, NEW t \in Threads, NEW u \in Threads, NEW v \in Threads,
           WaitsFor(t, u), WaitsFor(u, v)
    PROVE  Cmd(u) = "swap" /\ At(u, "lock two") /\ HasLock(u, One(u))
<1>1. PICK n : HasLock(u, n)
    BY DEF WaitsFor
<1>2. n \in Inside(u)
    BY <1>1 DEF LInv, LocksGivenBack, HasLock, Acquire
<1>3. pc[u] \in {"lock", "lock two"}
    BY DEF WaitsFor, At
<1>4. pc[u] = "lock two" /\ n = One(u)
    BY <1>2, <1>3 DEF Inside
<1> QED BY <1>1, <1>4 DEF LInv, TInv, Places, At

\* Commands that wait for each other in a circle are swaps that have the lock of
\* their first name and wait for the second (index.cpp:650), for any number of
\* threads, names and contexts: without swap every lock is waited for only until
\* the command that has it is through, or for ever if it returned with it.
THEOREM DeadlockNeedsSwaps == Spec => []OnlySwapsDeadlock
<1>1. ASSUME LInv PROVE OnlySwapsDeadlock
    BY <1>1, WaitersAreSwaps DEF OnlySwapsDeadlock
<1> QED BY <1>1, LocksHold, PTL

\* Two threads are on one name only after a lockIndex that found no context, or
\* with two contexts.
LEMMA Exclusion == LInv => MutualExclusion
<1> SUFFICES ASSUME LInv, NEW t \in Threads, NEW u \in Threads, t # u,
                    NEW n \in Inside(t) \cap Inside(u),
                    n \notin skipped \cup Doubled
             PROVE  FALSE
  BY DEF MutualExclusion
<1>1. PICK c \in Acquire(n) : lock[c] = t
  BY DEF LInv, InsideOwns, HasLock
<1>2. PICK d \in Acquire(n) : lock[d] = u
  BY DEF LInv, InsideOwns, HasLock
<1>3. n \in Names
  BY InsideNames DEF LInv, TInv
<1> QED BY <1>1, <1>2, <1>3 DEF Doubled

\* Whatever commands there are in whatever order, a name is used by one thread at
\* a time unless a thread came before its context existed (strusContext.cpp:201),
\* or two threads made a context for it each (strusWebService.cpp:93).
THEOREM Excluded == Spec => []MutualExclusion
BY Exclusion, LocksHold, PTL

----------------------------------------------------------------------------
(* Handles and transactions *)

\* A thread that deletes what belongs to a name is inside that name.
LEMMA ClosersInside ==
    ASSUME TInv, NEW t \in Threads
    PROVE  /\ Close(t) => One(t) \in Inside(t)
           /\ Swap(t) => Two(t) \in Inside(t)
BY DEF Close, Swap, At, Inside

\* A thread that points to something keeps its command through a step.
LEMMA CommandKept ==
    ASSUME TInv, NEW t \in Threads, Step(t), NEW u \in Threads,
           stale[u] # {}, stale'[u] # {}, Places'
    PROVE  op'[u] = op[u]
<1>1. pc[u] # "idle" /\ pc'[u] # "idle"
  BY DEF TInv, Places
<1>2. CASE u # t BY <1>2, OthersStay DEF TInv
<1>3. CASE u = t
  <2>1. ~Start(t) /\ ~Goto(t, "idle")
    BY <1>1, <1>3 DEF Start, At, Goto, TInv, TypeOK
  <2> QED
    BY <1>3, <2>1
       DEF Step, NewContext, Prelude, Create, Lock, LockTwo, UnlockTwo,
           Unlock, UnlockRollback, Env, EnvFails, Close, Read, ReadFails,
           Destroy, Rename, Swap, FindTransaction, Begin, Insert, Commit,
           Rollback, Drop, Return, ReturnLocked
<1> QED BY <1>2, <1>3

\* Only create, and threads on names that were not locked or have two contexts,
\* lose a handle.
LEMMA HandlesStep ==
    LInv /\ HandlesLive /\ [Next]_vars => HandlesLive'
<1> SUFFICES ASSUME LInv, HandlesLive, [Next]_vars,
                    NEW u \in Threads, "handle" \in stale'[u]
             PROVE  (Cmd(u) = "create" \/ One(u) \in skipped \cup Doubled)'
  BY DEF HandlesLive
<1>0. TInv /\ TypeOK /\ Places /\ MutualExclusion /\ Places'
  BY Exclusion, PlacesStep DEF LInv, TInv
<1>1. ASSUME NEW t \in Threads, Step(t)
      PROVE  (Cmd(u) = "create" \/ One(u) \in skipped \cup Doubled)'
  <2>0. ASSUME One(u) \in skipped \cup Doubled, op'[u] = op[u]
        PROVE  (One(u) \in skipped \cup Doubled)'
    <3>1. Doubled \subseteq Doubled'
      BY <1>0, <1>1, OthersStay, MapGrows
    <3>2. op[u].one \in skipped => op[u].one \in skipped'
      BY <1>0, <1>1, <2>0, OthersStay
    <3> QED BY <2>0, <3>1, <3>2 DEF One
  <2>1. CASE "handle" \in stale[u]
    <3>1. Cmd(u) = "create" \/ One(u) \in skipped \cup Doubled
      BY <2>1 DEF HandlesLive
    <3>2. op'[u] = op[u]
      BY <1>0, <1>1, <2>1, CommandKept
    <3> QED BY <2>0, <3>1, <3>2 DEF Cmd, One
  <2>2. CASE "handle" \notin stale[u]
    <3>1. /\ u # t /\ HasHandles(u, One(u))
          /\ \/ Close(t) /\ One(u) = One(t)
             \/ Swap(t) /\ One(u) = Two(t)
      BY <1>0, <1>1, <2>2, StaleStep
    <3>2. One(u) \in Inside(t)
      BY <1>0, <3>1, ClosersInside
    <3>3. CASE pc[u] = "create"
      BY <1>0, <1>1, <3>1, <3>3, OthersStay DEF Places, Cmd
    <3>4. CASE pc[u] # "create"
      <4>1. One(u) \in Inside(u)
        BY <3>1, <3>4 DEF HasHandles, Inside
      <4>2. One(u) \in skipped \cup Doubled
        BY <1>0, <3>1, <3>2, <4>1 DEF MutualExclusion
      <4>3. op'[u] = op[u] BY <1>0, <1>1, <3>1, OthersStay
      <4> QED BY <2>0, <4>2, <4>3
    <3> QED BY <3>3, <3>4
  <2> QED BY <2>1, <2>2
<1>2. ASSUME NEW n \in Names, Timer(n)
      PROVE  (Cmd(u) = "create" \/ One(u) \in skipped \cup Doubled)'
  <2>1. "handle" \in stale[u]
    BY <1>2 DEF Timer, threads
  <2> QED BY <1>2, <2>1 DEF HandlesLive, Timer, threads, Cmd, One, Doubled, Acquire
<1>3. CASE UNCHANGED vars
  BY <1>3 DEF vars, threads, HandlesLive, Cmd, One, Doubled, Acquire
<1> QED BY <1>1, <1>2, <1>3 DEF Next

\* close, delete, rename and swap delete the handles of a name under the lock: no
\* other command with the lock of its only context uses one of them afterwards.
THEOREM HandlesStayAlive == Spec => []HandlesLive
<1>1. Init => LInv /\ HandlesLive BY Start0
<1>2. LInv /\ HandlesLive /\ [Next]_vars => (LInv /\ HandlesLive)'
  BY LocksStep, HandlesStep
<1> QED BY <1>1, <1>2, PTL DEF Spec

\* A transaction is aborted behind the back of a thread only on a name that was
\* not locked, or has two contexts.
LEMMA NothingStaleStep ==
    LInv /\ NothingStale /\ [Next]_vars => NothingStale'
<1> SUFFICES ASSUME LInv, NothingStale, [Next]_vars,
                    NEW u \in Threads, "aborted" \in stale'[u]
             PROVE  (One(u) \in skipped \cup Doubled)'
  BY DEF NothingStale
<1>0. TInv /\ TypeOK /\ Places /\ MutualExclusion /\ Places'
  BY Exclusion, PlacesStep DEF LInv, TInv
<1>1. ASSUME NEW t \in Threads, Step(t)
      PROVE  (One(u) \in skipped \cup Doubled)'
  <2>0. ASSUME One(u) \in skipped \cup Doubled, op'[u] = op[u]
        PROVE  (One(u) \in skipped \cup Doubled)'
    <3>1. Doubled \subseteq Doubled'
      BY <1>0, <1>1, OthersStay, MapGrows
    <3>2. op[u].one \in skipped => op[u].one \in skipped'
      BY <1>0, <1>1, <2>0, OthersStay
    <3> QED BY <2>0, <3>1, <3>2 DEF One
  <2>1. CASE "aborted" \in stale[u]
    <3>1. op'[u] = op[u]
      BY <1>0, <1>1, <2>1, CommandKept
    <3>2. One(u) \in skipped \cup Doubled
      BY <2>1, <3>1 DEF NothingStale, One
    <3> QED BY <2>0, <3>1, <3>2 DEF One
  <2>2. CASE "aborted" \notin stale[u]
    <3>1. /\ u # t /\ HasTransaction(u, One(u))
          /\ \/ Close(t) /\ One(u) = One(t)
             \/ Swap(t) /\ One(u) = Two(t)
      BY <1>0, <1>1, <2>2, StaleStep
    <3>2. op'[u] = op[u] BY <1>0, <1>1, <3>1, OthersStay
    <3>3. One(u) \in Inside(t) BY <1>0, <3>1, ClosersInside
    <3>4. One(u) \in Inside(u) BY <3>1 DEF HasTransaction, Inside
    <3>5. One(u) \in skipped \cup Doubled
      BY <1>0, <3>1, <3>3, <3>4 DEF MutualExclusion
    <3> QED BY <2>0, <3>2, <3>5
  <2> QED BY <2>1, <2>2
<1>2. ASSUME NEW n \in Names, Timer(n)
      PROVE  (One(u) \in skipped \cup Doubled)'
  <2>1. "aborted" \in stale[u]
    BY <1>2 DEF Timer, threads
  <2> QED BY <1>2, <2>1 DEF NothingStale, Timer, threads, One, Doubled, Acquire
<1>3. CASE UNCHANGED vars
  BY <1>3 DEF vars, threads, NothingStale, One, Doubled, Acquire
<1> QED BY <1>1, <1>2, <1>3 DEF Next

\* Whichever transaction is set in a context that is found, it was rolled back
\* before, or is by a rollback now.
LEMMA NewOver ==
    ASSUME TypeOK, NEW t \in Threads, Step(t), NEW c \in Contexts,
           trans[c] # "over", trans'[c] = "over"
    PROVE  Rollback(t) /\ index[c] = One(t)
<1>0. trans \in [Contexts -> {"none", "open", "over"}]
  BY DEF TypeOK
<1>1. CASE Close(t) \/ Swap(t)
  <2>1. PICK n : Abort(n) \/ UNCHANGED trans
    BY <1>1 DEF Close, Swap, CloseEnvironment
  <2> QED BY <1>0, <2>1 DEF Abort, Acquire
<1>2. CASE Drop(t)
  BY <1>0, <1>2 DEF Drop, DeleteTransaction, Acquire
<1>3. CASE Begin(t) \/ Commit(t)
  <2>1. PICK d \in Acquire(One(t)) :
          trans' = [trans EXCEPT ![d] =
                      IF Begin(t) /\ trans[d] # "none" THEN trans[d]
                      ELSE IF Begin(t) THEN "open" ELSE "none"]
    BY <1>3 DEF Begin, Commit, SetTransaction, At
  <2> QED BY <1>0, <2>1 DEF Acquire
<1>4. CASE Rollback(t)
  <2>1. PICK d \in Acquire(One(t)) :
          trans' = [trans EXCEPT ![d] =
                      IF trans[d] = "none" THEN trans[d] ELSE "over"]
    BY <1>4 DEF Rollback, SetTransaction
  <2> QED BY <1>0, <1>4, <2>1 DEF Acquire
<1>5. trans' # trans
  OBVIOUS
<1> QED
  BY <1>1, <1>2, <1>3, <1>4, <1>5
     DEF Step, Start, NewContext, Prelude, Create, Lock, LockTwo, UnlockTwo,
         Unlock, UnlockRollback, Env, EnvFails, Read, ReadFails, Destroy,
         Rename, FindTransaction, Insert

\* The rollback that ended a transaction deletes it, or another one does.
LEMMA OverStep ==
    LInv /\ OverIsRolledBack /\ [Next]_vars => OverIsRolledBack'
<1> SUFFICES ASSUME LInv, OverIsRolledBack, [Next]_vars, NEW c \in Contexts,
                    trans'[c] = "over", index'[c] \notin Doubled'
             PROVE  \E w \in Threads :
                       /\ pc'[w] \in {"unlock rollback", "drop"}
                       /\ One(w)' = index'[c]
  BY DEF OverIsRolledBack
<1>0. TypeOK /\ Places BY DEF LInv, TInv
<1>1. ASSUME NEW t \in Threads, Step(t)
      PROVE  \E w \in Threads : /\ pc'[w] \in {"unlock rollback", "drop"}
                                /\ One(w)' = index'[c]
  <2>0. /\ \A u \in Threads \ {t} : pc'[u] = pc[u] /\ op'[u] = op[u]
        /\ \A d \in Contexts : index[d] # NoName => index'[d] = index[d]
        /\ Doubled \subseteq Doubled'
    BY <1>0, <1>1, OthersStay, MapGrows
  <2>1. CASE trans[c] = "over"
    <3>0. index[c] \in Names /\ index'[c] = index[c]
      BY <1>0, <2>0, <2>1 DEF TypeOK
    <3>1. PICK w \in Threads : /\ pc[w] \in {"unlock rollback", "drop"}
                               /\ One(w) = index[c]
      BY <2>0, <2>1, <3>0 DEF OverIsRolledBack
    <3>2. CASE w # t
      BY <2>0, <3>0, <3>1, <3>2 DEF One
    <3>3. CASE w = t
      <4>1. UnlockRollback(t) \/ Drop(t)
        BY <1>1, <3>1, <3>3
           DEF Step, Start, NewContext, Prelude, GetOrCreate, Create, Lock,
               LockTwo, UnlockTwo, Unlock, Env, EnvFails, Close, Read,
               ReadFails, Destroy, Rename, Swap, FindTransaction, Begin,
               Insert, Commit, Rollback, At
      <4>2. CASE UnlockRollback(t)
        <5>1. pc'[t] = "drop" /\ UNCHANGED op
          BY <1>0, <4>2 DEF UnlockRollback, Goto, TypeOK
        <5> QED BY <3>0, <3>1, <3>3, <5>1 DEF One
      <4>3. CASE Drop(t)
        <5>1. PICK d \in Acquire(One(t)) : DeleteTransaction(d)
          BY <4>3 DEF Drop
        <5>2. c \in Acquire(index[c]) /\ d \in Acquire(index[c])
          BY <3>1, <3>3, <5>1 DEF Acquire
        <5>3. c = d
          BY <2>0, <3>0, <5>2 DEF Doubled
        <5>4. trans'[c] = "none"
          BY <1>0, <5>1, <5>3 DEF DeleteTransaction, TypeOK
        <5> QED BY <5>4
      <4> QED BY <4>1, <4>2, <4>3
    <3> QED BY <3>2, <3>3
  <2>2. CASE trans[c] # "over"
    <3>1. Rollback(t) /\ index[c] = One(t)
      BY <1>0, <1>1, <2>2, NewOver
    <3>2. pc'[t] = "unlock rollback" /\ UNCHANGED <<op, index>>
      BY <1>0, <3>1 DEF Rollback, Goto, TypeOK
    <3> QED BY <3>1, <3>2 DEF One
  <2> QED BY <2>1, <2>2
<1>2. ASSUME NEW m \in Names, Timer(m)
      PROVE  \E w \in Threads : /\ pc'[w] \in {"unlock rollback", "drop"}
                                /\ One(w)' = index'[c]
  <2>1. trans[c] = "over"
    BY <1>0, <1>2 DEF Timer, DeleteTransaction, TypeOK, Acquire
  <2>2. UNCHANGED <<pc, op, index>>
    BY <1>2 DEF Timer, threads
  <2>3. Doubled' = Doubled BY <2>2 DEF Doubled, Acquire
  <2> QED BY <2>1, <2>2, <2>3 DEF OverIsRolledBack, One
<1>3. CASE UNCHANGED vars
  <2>1. UNCHANGED <<pc, op, index, trans>> BY <1>3 DEF vars, threads
  <2>2. Doubled' = Doubled BY <2>1 DEF Doubled, Acquire
  <2> QED BY <2>1, <2>2 DEF OverIsRolledBack, One
<1> QED BY <1>1, <1>2, <1>3 DEF Next

\* close_strus_environment aborts no transaction that another command uses, but
\* for names not locked on first use or with two contexts, and a transaction that
\* was rolled back is still there only as long as the rollback (transaction.cpp:
\* 323) is on its way to delete it, for any threads, names and contexts.
THEOREM TransactionsOnce == Spec => []TransactionsEndOnce
<1> DEFINE I == LInv /\ NothingStale /\ OverIsRolledBack
<1>1. Init => I BY Start0
<1>2. I /\ [Next]_vars => I'
  BY LocksStep, NothingStaleStep, OverStep
<1>3. I => TransactionsEndOnce
  <2> SUFFICES ASSUME I PROVE TransactionsEndOnce
    OBVIOUS
  <2>1. ASSUME NEW c \in Contexts, trans[c] = "over", index[c] \notin Doubled
        PROVE  \E t \in Threads : /\ Cmd(t) = "rollback" /\ One(t) = index[c]
                                  /\ pc[t] \in {"unlock rollback", "drop"}
    <3>1. PICK t \in Threads : /\ pc[t] \in {"unlock rollback", "drop"}
                               /\ One(t) = index[c]
      BY <2>1 DEF OverIsRolledBack
    <3>2. Cmd(t) = "rollback" BY <3>1 DEF LInv, TInv, Places
    <3> QED BY <3>1, <3>2
  <2> QED BY <2>1 DEF NothingStale, TransactionsEndOnce
<1> HIDE DEF I
<1> QED BY <1>1, <1>2, <1>3, PTL DEF Spec
=============================================================================
