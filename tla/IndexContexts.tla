---------------------------- MODULE IndexContexts ----------------------------
(***************************************************************************)
(* The service before the rewrite (src.old): commands on named search      *)
(* indexes, each in a worker thread, that share one StrusContext. It has a *)
(* StrusIndexContext per name with the handles of the storage, the running *)
(* transactions and a mutex; the commands lock a name while they use what  *)
(* belongs to it. The contexts come into being on first use and are never  *)
(* removed. A timer rolls idle transactions back.                          *)
(*                                                                         *)
(* Nothing guards context_map: two threads that use a name first may both  *)
(* find no context, make one each and put it into the map. Every function  *)
(* that uses a context puts it back when it is done, so that either may be *)
(* in the map afterwards, and each has its own mutex and transactions. A   *)
(* lookup of such a name, a read of an entry that others write, gives any  *)
(* of its contexts here.                                                   *)
(*                                                                         *)
(* The commands are those of index.cpp, transaction.cpp, document.cpp and  *)
(* query.cpp; "read" stands for all that read, or write with a transaction *)
(* of their own, and "insert" for document insert and delete with the id   *)
(* of a transaction. A name has one transaction id here.                   *)
(***************************************************************************)
EXTENDS Naturals, FiniteSets

CONSTANTS
    Threads,    \* worker threads of the service
    Names,      \* names of indexes
    Commands,   \* commands that clients send, see CommandKinds
    Contexts,   \* the StrusIndexContext objects there may be, a bound for TLC
    Faults,     \* "env": a handle cannot be created, "reader": the metadata
                \* reader cannot
    NoThread, NoName,
    Lost        \* owner of a mutex whose command has returned with it

OnTransactions == {"begin", "insert", "commit", "rollback"}
OnTwoNames == {"rename", "swap"}
CommandKinds == OnTransactions \cup OnTwoNames
                \cup {"read", "close", "delete", "create"}

ASSUME IndexAssumption ==
    /\ NoThread \notin Threads /\ Lost \notin Threads /\ Lost # NoThread
    /\ NoName \notin Names
    /\ Commands \subseteq CommandKinds
    /\ Faults \subseteq {"env", "reader"}

VARIABLES
    pc,         \* where each thread is
    op,         \* the command it executes: cmd, and the names one and two
    stale,      \* what a thread points to that was deleted by another one:
                \* see StaleKinds
    exists,     \* indexes on disk
    index,      \* the name under which a context was put into context_map
    lock,       \* owner of the mutex of a context
    trans,      \* the transaction in its trans_map; "over" when rolled back
    skipped     \* names some thread did not lock because they had no context,
                \* as long as there is a command on them

threads == <<pc, op, stale>>
vars == <<threads, exists, index, lock, trans, skipped>>

PCs == {"idle", "prelude", "new prelude", "create", "lock", "lock two", "close",
        "env", "new env", "use", "act", "unlock two", "unlock",
        "unlock rollback", "drop"}

\* A handle or a transaction that close_strus_environment has deleted. What the
\* timer, or rollback without the lock, takes from a thread is not noted.
StaleKinds == {"handle", "aborted"}

NoCommand == [cmd |-> "none", one |-> NoName, two |-> NoName]
Operations == {NoCommand} \cup [cmd : CommandKinds, one : Names, two : Names]

\* The state is one of the program: a thread has a command while it is not
\* idle, and what belongs to a context is there only when it is in the map.
TypeOK ==
    /\ pc \in [Threads -> PCs]
    /\ op \in [Threads -> Operations]
    /\ stale \in [Threads -> SUBSET StaleKinds]
    /\ exists \subseteq Names
    /\ index \in [Contexts -> Names \cup {NoName}]
    /\ lock \in [Contexts -> Threads \cup {NoThread, Lost}]
    /\ trans \in [Contexts -> {"none", "open", "over"}]
    /\ skipped \subseteq Names
    /\ \A t \in Threads : pc[t] = "idle" <=> op[t] = NoCommand
    /\ \A c \in Contexts : index[c] = NoName =>
         lock[c] = NoThread /\ trans[c] = "none"

Init ==
    /\ pc = [t \in Threads |-> "idle"]
    /\ op = [t \in Threads |-> NoCommand]
    /\ stale = [t \in Threads |-> {}]
    /\ exists \in SUBSET Names
    /\ index = [c \in Contexts |-> NoName]
    /\ lock = [c \in Contexts |-> NoThread]
    /\ trans = [c \in Contexts |-> "none"]
    /\ skipped = {}

Cmd(t) == op[t].cmd
One(t) == op[t].one
Two(t) == op[t].two

Goto(t, l) == pc' = [pc EXCEPT ![t] = l]
At(t, l) == pc[t] = l

\* The names whose lock a thread should have.
Inside(t) ==
    CASE pc[t] \in {"lock two", "unlock", "unlock rollback"} -> {One(t)}
      [] pc[t] \in {"close", "env", "new env", "use", "act", "unlock two"} ->
           IF Cmd(t) = "swap" THEN {One(t), Two(t)} ELSE {One(t)}
      [] OTHER -> {}

\* What acquire may find in context_map.
Acquire(n) == {c \in Contexts : index[c] = n}

\* Names two threads made a context for at the same time.
Doubled == {n \in Names : \E c, d \in Acquire(n) : c # d}

\* The last command on a name ends what a lock that was skipped has brought about.
Forget(t) ==
    skipped' = {n \in skipped :
                  \E u \in Threads \ {t} : n \in {One(u), Two(u)}}

\* The command has been answered.
Return(t) ==
    /\ Goto(t, "idle")
    /\ op' = [op EXCEPT ![t] = NoCommand]
    /\ stale' = [stale EXCEPT ![t] = {}]
    /\ Forget(t)

\* It returns between lockIndex and unlockIndex.
ReturnLocked(t) ==
    /\ Return(t)
    /\ lock' = [c \in Contexts |-> IF lock[c] = t THEN Lost ELSE lock[c]]

\* The locks are given back in the order of the code.
Finish(t) == Goto(t, IF Cmd(t) = "swap" THEN "unlock two" ELSE "unlock")

----------------------------------------------------------------------------
(* lockIndex and unlockIndex *)

\* A client sends a command; it ends in one answer and the thread is free.
Start(t) ==
    /\ At(t, "idle")
    /\ \E c \in Commands, n \in Names :
         \E m \in (IF c \in OnTwoNames THEN Names ELSE {n}) :
           /\ op' = [op EXCEPT ![t] = [cmd |-> c, one |-> n, two |-> m]]
           /\ Goto(t, IF c \in OnTwoNames \cup {"create"} THEN "prelude"
                                                         ELSE "lock")
    /\ UNCHANGED <<stale, exists, index, lock, trans, skipped>>

\* Wrong variant: commands that read do not wait for each other.
LockIndexShared(t, n) ==
    \/ \E c \in Acquire(n) :
         /\ lock[c] = NoThread \/ Cmd(t) \in {"read", "insert"}
         /\ lock' = [lock EXCEPT ![c] = t]
         /\ UNCHANGED skipped
    \/ Acquire(n) = {} /\ skipped' = skipped \cup {n} /\ UNCHANGED lock

\* Wrong variant: the name gets a context to be locked, outside the map.
LockIndexOutside(t, n) ==
    \/ \E c \in Acquire(n) :
         /\ lock[c] = NoThread
         /\ lock' = [lock EXCEPT ![c] = t]
         /\ UNCHANGED skipped
    \/ /\ Acquire(n) = {}
       /\ \E c \in Acquire(NoName) : lock' = [lock EXCEPT ![c] = t]
       /\ UNCHANGED skipped

\* A name without context is not locked; read_lock and write_lock are the same
\* mutex.
LockIndex(t, n) ==
    \/ \E c \in Acquire(n) :
         /\ lock[c] = NoThread
         /\ lock' = [lock EXCEPT ![c] = t]
         /\ UNCHANGED skipped
    \/ Acquire(n) = {} /\ skipped' = skipped \cup {n} /\ UNCHANGED lock

\* Whoever owns the mutex of the context that is found, it is free then; the
\* thread leaves one that it has locked in another context.
UnlockIndex(t, n) ==
    \/ Acquire(n) = {} /\ UNCHANGED lock
    \/ \E c \in Acquire(n) :
         lock' = [d \in Contexts |->
                    CASE d = c -> NoThread
                      [] d # c /\ index[d] = n /\ lock[d] = t -> Lost
                      [] OTHER -> lock[d]]

AfterLocks(c) == IF c \in OnTwoNames \cup {"delete"} THEN "close" ELSE "env"

\* Wrong variant: rename locks the new name as well.
LockForRename(t) ==
    /\ At(t, "lock")
    /\ LockIndex(t, One(t))
    /\ Goto(t, IF Cmd(t) \in OnTwoNames THEN "lock two" ELSE AfterLocks(Cmd(t)))
    /\ UNCHANGED <<op, stale, exists, index, trans>>

Lock(t) ==
    /\ At(t, "lock")
    /\ LockIndex(t, One(t))
    /\ Goto(t, IF Cmd(t) = "swap" THEN "lock two" ELSE AfterLocks(Cmd(t)))
    /\ UNCHANGED <<op, stale, exists, index, trans>>

LockTwo(t) ==
    /\ At(t, "lock two")
    /\ LockIndex(t, Two(t))
    /\ Goto(t, AfterLocks(Cmd(t)))
    /\ UNCHANGED <<op, stale, exists, index, trans>>

\* Wrong variant: the names are mixed up.
UnlockTwoWrong(t) ==
    /\ At(t, "unlock two")
    /\ UnlockIndex(t, One(t))
    /\ Goto(t, "unlock")
    /\ UNCHANGED <<op, stale, exists, index, trans, skipped>>

UnlockTwo(t) ==
    /\ At(t, "unlock two")
    /\ UnlockIndex(t, Two(t))
    /\ Goto(t, "unlock")
    /\ UNCHANGED <<op, stale, exists, index, trans, skipped>>

Unlock(t) ==
    /\ At(t, "unlock")
    /\ UnlockIndex(t, One(t))
    /\ Return(t)
    /\ UNCHANGED <<exists, index, trans>>

\* rollback gives the lock back before it deletes the transaction.
UnlockRollback(t) ==
    /\ At(t, "unlock rollback")
    /\ UnlockIndex(t, One(t))
    /\ Goto(t, "drop")
    /\ UNCHANGED <<op, stale, exists, index, trans, skipped>>

----------------------------------------------------------------------------
(* Handles *)

\* getOrCreateStrusContext has found no context and makes one.
NewContext(t) ==
    /\ \/ At(t, "prelude") /\ Goto(t, "new prelude")
       \/ At(t, "env") /\ Goto(t, "new env")
    /\ Acquire(One(t)) = {}
    /\ UNCHANGED <<op, stale, exists, index, lock, trans, skipped>>

\* It puts the context into the map, whether there is one by now or not.
GetOrCreate(t, found, new) ==
    \/ At(t, found) /\ Acquire(One(t)) # {} /\ UNCHANGED index
    \/ /\ At(t, new)
       /\ \E c \in Acquire(NoName) : index' = [index EXCEPT ![c] = One(t)]

\* get_strus_environment fails: rename, swap and the list of transactions,
\* one of the commands that only read, do not unlock.
EnvFails(t) ==
    /\ "env" \in Faults
    /\ GetOrCreate(t, "env", "new env")
    /\ \/ Cmd(t) \in OnTwoNames \cup {"read"} /\ ReturnLocked(t)
       \/ Cmd(t) \notin OnTwoNames /\ Goto(t, "unlock")
          /\ UNCHANGED <<op, stale, lock, skipped>>
    /\ UNCHANGED <<exists, trans>>

\* get_strus_environment, then dbi->exists. rename and swap have looked at the
\* index before they locked it.
Env(t) ==
    /\ GetOrCreate(t, "env", "new env")
    /\ IF One(t) \in exists \/ Cmd(t) \in OnTwoNames
       THEN Goto(t, "use") ELSE Goto(t, "unlock")
    /\ UNCHANGED <<op, stale, exists, lock, trans, skipped>>

\* The same without a lock, in rename, swap and create. A handle that another
\* thread deletes between the two calls, at this place, is left out.
Prelude(t) ==
    /\ GetOrCreate(t, "prelude", "new prelude")
    /\ \/ /\ (One(t) \in exists <=> Cmd(t) = "create") \/ "env" \in Faults
          /\ Return(t)
       \/ /\ One(t) \in exists <=> Cmd(t) # "create"
          /\ Goto(t, IF Cmd(t) = "create" THEN "create" ELSE "lock")
          /\ UNCHANGED <<op, stale, skipped>>
    /\ UNCHANGED <<exists, lock, trans>>

\* createStorage with the handles of the context; it may fail, and somebody may
\* have been faster.
Create(t) ==
    /\ At(t, "create")
    /\ exists' \in {exists, exists \cup {One(t)}}
    /\ Return(t)
    /\ UNCHANGED <<index, lock, trans>>

HasHandles(u, n) == One(u) = n /\ pc[u] \in {"create", "use", "act"}

HasTransaction(u, n) ==
    One(u) = n /\ pc[u] = "act" /\ Cmd(u) \in OnTransactions

\* abortRunningTransactions, on the context that is found.
Abort(n) ==
    \/ Acquire(n) = {} /\ UNCHANGED trans
    \/ \E c \in Acquire(n) : trans' = [trans EXCEPT ![c] = "none"]

\* close_strus_environment: transactions are aborted, then every handle is
\* deleted. What a thread has of a name with two contexts counts as deleted
\* whichever it is from.
CloseEnvironment(t, n) ==
    /\ stale' = [u \in Threads |->
                   stale[u] \cup {k \in {"handle", "aborted"} :
                      /\ u # t
                      /\ \/ k = "handle" /\ HasHandles(u, n)
                         \/ k = "aborted" /\ HasTransaction(u, n)
                            /\ \E c \in Acquire(n) : trans[c] # "none"}]
    /\ Abort(n)

\* delete, rename and swap close before they go on; close does nothing else.
Close(t) ==
    /\ \/ At(t, "close") /\ Goto(t, "env")
       \/ At(t, "use") /\ Cmd(t) = "close" /\ Finish(t)
    /\ CloseEnvironment(t, One(t))
    /\ UNCHANGED <<op, exists, index, lock, skipped>>

----------------------------------------------------------------------------
(* What the commands do with an index *)

Read(t) ==
    /\ At(t, "use") /\ Cmd(t) = "read"
    /\ Finish(t)
    /\ UNCHANGED <<op, stale, exists, index, lock, trans, skipped>>

\* document get returns without unlock when there is no metadata reader.
ReadFails(t) ==
    /\ "reader" \in Faults
    /\ At(t, "use") /\ Cmd(t) = "read"
    /\ ReturnLocked(t)
    /\ UNCHANGED <<exists, index, trans>>

Destroy(t) ==
    /\ At(t, "use") /\ Cmd(t) = "delete"
    /\ exists' \in {exists, exists \ {One(t)}}
    /\ Finish(t)
    /\ UNCHANGED <<op, stale, index, lock, trans, skipped>>

\* A name that exists already ends the command with the lock held; when the
\* directory has gone the renaming fails and nothing changes.
Rename(t) ==
    /\ At(t, "use") /\ Cmd(t) = "rename"
    /\ IF Two(t) \in exists
       THEN ReturnLocked(t) /\ UNCHANGED exists
       ELSE /\ exists' = IF One(t) \in exists
                         THEN (exists \ {One(t)}) \cup {Two(t)} ELSE exists
            /\ Finish(t)
            /\ UNCHANGED <<op, stale, lock, skipped>>
    /\ UNCHANGED <<index, trans>>

\* Both directories are exchanged by way of a third one, each step if it can.
Swap(t) ==
    /\ At(t, "use") /\ Cmd(t) = "swap"
    /\ IF Two(t) \notin exists
       THEN ReturnLocked(t) /\ UNCHANGED <<exists, trans>>
       ELSE /\ CloseEnvironment(t, Two(t))
            /\ exists' = IF One(t) \in exists THEN exists
                         ELSE (exists \ {Two(t)}) \cup {One(t)}
            /\ Finish(t)
            /\ UNCHANGED <<op, lock, skipped>>
    /\ UNCHANGED index

----------------------------------------------------------------------------
(* Transactions *)

\* The transaction is in trans_map, or not, of the context that is found.
Found(n) == \E c \in Acquire(n) : trans[c] # "none"
NotFound(n) == \E c \in Acquire(n) : trans[c] = "none"

\* Wrong variant: no early return gives the lock back.
FindTransactionReturns(t) ==
    /\ At(t, "use") /\ Cmd(t) \in OnTransactions
    /\ \/ Cmd(t) = "begin" /\ ReturnLocked(t)
       \/ Cmd(t) # "begin" /\ NotFound(One(t))
          /\ Return(t) /\ UNCHANGED lock
       \/ (Cmd(t) = "begin" \/ Found(One(t)))
          /\ Goto(t, "act") /\ UNCHANGED <<op, stale, lock, skipped>>
    /\ UNCHANGED <<exists, index, trans>>

\* An id that is not given ends begin with the lock held; the others find their
\* transaction, or return with an error.
FindTransaction(t) ==
    /\ At(t, "use") /\ Cmd(t) \in OnTransactions
    /\ \/ Cmd(t) = "begin" /\ ReturnLocked(t)
       \/ Cmd(t) # "begin" /\ NotFound(One(t))
          /\ Finish(t) /\ UNCHANGED <<op, stale, lock, skipped>>
       \/ (Cmd(t) = "begin" \/ Found(One(t)))
          /\ Goto(t, "act") /\ UNCHANGED <<op, stale, lock, skipped>>
    /\ UNCHANGED <<exists, index, trans>>

\* A change of the transaction in the context that is found.
SetTransaction(n, Value(_)) ==
    \E c \in Acquire(n) : trans' = [trans EXCEPT ![c] = Value(@)]

\* begin takes what is there under that id.
Begin(t) ==
    /\ At(t, "act") /\ Cmd(t) = "begin"
    /\ SetTransaction(One(t), LAMBDA v : IF v = "none" THEN "open" ELSE v)
    /\ Finish(t)
    /\ UNCHANGED <<op, stale, exists, index, lock, skipped>>

Insert(t) ==
    /\ At(t, "act") /\ Cmd(t) = "insert"
    /\ Finish(t)
    /\ UNCHANGED <<op, stale, exists, index, lock, trans, skipped>>

\* Wrong variant: the transaction is not taken out of the map.
CommitKeeps(t) ==
    /\ At(t, "act") /\ Cmd(t) = "commit"
    /\ SetTransaction(One(t), LAMBDA v : "over")
    /\ Finish(t)
    /\ UNCHANGED <<op, stale, exists, index, lock, skipped>>

Commit(t) ==
    /\ At(t, "act") /\ Cmd(t) = "commit"
    /\ SetTransaction(One(t), LAMBDA v : "none")
    /\ Finish(t)
    /\ UNCHANGED <<op, stale, exists, index, lock, skipped>>

Rollback(t) ==
    /\ At(t, "act") /\ Cmd(t) = "rollback"
    /\ SetTransaction(One(t), LAMBDA v : IF v = "none" THEN v ELSE "over")
    /\ Goto(t, "unlock rollback")
    /\ UNCHANGED <<op, stale, exists, index, lock, skipped>>

\* The transaction in a context is deleted, whoever uses it.
DeleteTransaction(c) == trans' = [trans EXCEPT ![c] = "none"]

Drop(t) ==
    /\ At(t, "drop")
    /\ \E c \in Acquire(One(t)) : DeleteTransaction(c)
    /\ Return(t)
    /\ UNCHANGED <<exists, index, lock>>

\* terminateIdleTransactions, from the timer of the service: no lock.
Timer(n) ==
    /\ \E c \in Acquire(n) : trans[c] # "none" /\ DeleteTransaction(c)
    /\ UNCHANGED <<threads, exists, index, lock, skipped>>

Step(t) ==
    \/ Start(t) \/ NewContext(t) \/ Prelude(t) \/ Create(t)
    \/ Lock(t) \/ LockTwo(t)
    \/ UnlockTwo(t) \/ Unlock(t) \/ UnlockRollback(t)
    \/ Env(t) \/ EnvFails(t) \/ Close(t)
    \/ Read(t) \/ ReadFails(t) \/ Destroy(t) \/ Rename(t) \/ Swap(t)
    \/ FindTransaction(t) \/ Begin(t) \/ Insert(t) \/ Commit(t) \/ Rollback(t)
    \/ Drop(t)

Next == (\E t \in Threads : Step(t)) \/ (\E n \in Names : Timer(n))

Spec == Init /\ [][Next]_vars

----------------------------------------------------------------------------
(* Properties *)

\* Two threads work on a name at once only if a command came when the name had
\* no context yet, and the commands on it have not all ended since, or if the
\* name has got two contexts: lockIndex is a no-op without a context
\* (strusContext.cpp:201), but unlockIndex of the same command frees the mutex of
\* whoever has it by then, and whose unlockIndex frees that of the next; and two
\* contexts have two mutexes (strusWebService.cpp:93).
MutualExclusion ==
    \A t, u \in Threads :
        t # u => \A n \in Inside(t) \cap Inside(u) : n \in skipped \cup Doubled

\* No command uses a handle another one has deleted, but for create, which
\* takes no lock, and for names that were not locked on their first use or got
\* two contexts in it.
HandlesLive ==
    \A t \in Threads : "handle" \in stale[t] =>
        Cmd(t) = "create" \/ One(t) \in skipped \cup Doubled

\* No command uses a transaction that close_strus_environment has aborted,
\* but for names that were not locked on their first use or got two contexts in
\* it; and one that was rolled back is in trans_map only as long as the rollback
\* is on its way to take it out: no other command can leave one there. The
\* timer, which takes no lock, and rollback, which deletes the transaction after
\* it has given the lock back, do take transactions from commands that use them.
TransactionsEndOnce ==
    /\ \A t \in Threads :
         "aborted" \in stale[t] => One(t) \in skipped \cup Doubled
    /\ \A c \in Contexts : trans[c] = "over" /\ index[c] \notin Doubled =>
         \E t \in Threads : /\ Cmd(t) = "rollback" /\ One(t) = index[c]
                            /\ pc[t] \in {"unlock rollback", "drop"}

\* A thread that waits for the lock of a name waits for a command at work on
\* that name, or for one that has returned with the lock: no other command
\* leaves one, and a second context of the name changes nothing but that an
\* unlockIndex may find the wrong one of the two.
LocksGivenBack ==
    \A c \in Contexts :
        lock[c] \in Threads => index[c] \in Inside(lock[c])

HasLock(t, n) == \E c \in Acquire(n) : lock[c] = t

WaitsFor(t, u) ==
    \/ At(t, "lock") /\ HasLock(u, One(t))
    \/ At(t, "lock two") /\ HasLock(u, Two(t))

\* Where commands wait for each other in a circle, each of them is a swap that
\* has the lock of its first name and waits for its second (index.cpp:650): all
\* other commands go on when they have their lock.
OnlySwapsDeadlock ==
    \A group \in SUBSET Threads :
        (\A t \in group : \E u \in group : WaitsFor(t, u)) =>
            \A t, u \in group : WaitsFor(t, u) =>
                Cmd(u) = "swap" /\ At(u, "lock two") /\ HasLock(u, One(u))
=============================================================================
