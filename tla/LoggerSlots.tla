----------------------------- MODULE LoggerSlots -----------------------------
(***************************************************************************)
(* The slots WebRequestLogger gives to the threads that log, so that the   *)
(* lines of a thread carry the same prefix. A thread looks for the slot it *)
(* has already; if there is none it takes the first free one by setting    *)
(* its atomic flag, and then writes its thread id into it: the other       *)
(* threads look at flags and ids without a lock meanwhile. The prefix of a *)
(* thread that finds all slots taken is "OVFL".                            *)
(*                                                                         *)
(* The service creates one slot per worker thread and one more, see        *)
(* ServiceClosure::init; worker threads, the thread of the event loop and  *)
(* main log.                                                               *)
(***************************************************************************)
EXTENDS Naturals

CONSTANTS
    Threads,    \* threads that log
    NofSlots,   \* m_nofslots
    NoThread    \* the id of an empty slot

ASSUME SlotAssumption ==
    /\ NofSlots \in Nat \ {0}
    /\ NoThread \notin Threads

Slots == 1 .. NofSlots

\* Prefixes of log lines: the number of a slot, 0 for "OVFL".
OVFL == 0

VARIABLES
    pc,     \* where each thread is in logMessage
    at,     \* ti, the slot it looks at
    flag,   \* m_slots[..].flag
    id,     \* m_slots[..].id
    used    \* prefixes the lines of a thread have had so far

vars == <<pc, at, flag, id, used>>

TypeOK ==
    /\ pc \in [Threads -> {"idle", "find", "compare", "occupy", "own"}]
    /\ at \in [Threads -> 1 .. NofSlots + 1]
    /\ flag \in [Slots -> BOOLEAN]
    /\ id \in [Slots -> Threads \cup {NoThread}]
    /\ used \in [Threads -> SUBSET (Slots \cup {OVFL})]

\* The slots as the constructor leaves them.
Init ==
    /\ pc = [t \in Threads |-> "idle"]
    /\ at = [t \in Threads |-> 1]
    /\ flag = [s \in Slots |-> FALSE]
    /\ id = [s \in Slots |-> NoThread]
    /\ used = [t \in Threads |-> {}]

Goto(t, l, s) ==
    /\ pc' = [pc EXCEPT ![t] = l]
    /\ at' = [at EXCEPT ![t] = s]

\* getThreadId returns and logMessageBuf puts the prefix in front of the line.
Write(t, s) ==
    /\ used' = [used EXCEPT ![t] = @ \cup {s}]
    /\ Goto(t, "idle", 1)

LogMessage(t) ==
    /\ pc[t] = "idle"
    /\ Goto(t, "find", 1)
    /\ UNCHANGED <<flag, id, used>>

\* The first half of the test of a slot; after the last one starts the search
\* for a free slot.
TestFlag(t) ==
    /\ pc[t] = "find"
    /\ \/ at[t] = NofSlots + 1 /\ Goto(t, "occupy", 1)
       \/ at[t] \in Slots /\ flag[at[t]] /\ Goto(t, "compare", at[t])
       \/ at[t] \in Slots /\ ~flag[at[t]] /\ Goto(t, "find", at[t] + 1)
    /\ UNCHANGED <<flag, id, used>>

CompareId(t) ==
    /\ pc[t] = "compare"
    /\ IF id[at[t]] = t
       THEN Write(t, at[t])
       ELSE Goto(t, "find", at[t] + 1) /\ UNCHANGED used
    /\ UNCHANGED <<flag, id>>

\* Wrong variant: the flag is set but its old value not looked at.
OccupyTaken(t) ==
    /\ pc[t] = "occupy"
    /\ IF at[t] \in Slots
       THEN /\ flag' = [flag EXCEPT ![at[t]] = TRUE]
            /\ Goto(t, "own", at[t])
            /\ UNCHANGED used
       ELSE Write(t, OVFL) /\ UNCHANGED flag
    /\ UNCHANGED id

\* Slots 1 .. last are tried in turn; setting the flag succeeds in one thread
\* only.
OccupyUpTo(t, last) ==
    /\ pc[t] = "occupy"
    /\ \/ at[t] > last /\ Write(t, OVFL) /\ UNCHANGED flag
       \/ /\ at[t] <= last /\ at[t] \in Slots /\ ~flag[at[t]]
          /\ flag' = [flag EXCEPT ![at[t]] = TRUE]
          /\ Goto(t, "own", at[t])
          /\ UNCHANGED used
       \/ /\ at[t] <= last /\ (at[t] \in Slots => flag[at[t]])
          /\ Goto(t, "occupy", at[t] + 1)
          /\ UNCHANGED <<flag, used>>
    /\ UNCHANGED id

\* Wrong variants: the last slot is left out; one slot too many is tried.
OccupyAllButLast(t) == OccupyUpTo(t, NofSlots - 1)
OccupyOneMore(t) == OccupyUpTo(t, NofSlots + 1)

Occupy(t) == OccupyUpTo(t, NofSlots)

\* Wrong variant: the id is not written.
OwnAnonymous(t) ==
    /\ pc[t] = "own"
    /\ Write(t, at[t])
    /\ UNCHANGED <<flag, id>>

Own(t) ==
    /\ pc[t] = "own"
    /\ id' = [id EXCEPT ![at[t]] = t]
    /\ Write(t, at[t])
    /\ UNCHANGED flag

Step(t) == LogMessage(t) \/ TestFlag(t) \/ CompareId(t) \/ Occupy(t) \/ Own(t)

Next == \E t \in Threads : Step(t)

Spec == Init /\ [][Next]_vars

----------------------------------------------------------------------------
(* Properties *)

\* Two threads never write lines with the number of the same slot, although
\* slots are searched and taken without a lock.
SeparatePrefixes ==
    \A s, t \in Threads : s # t => used[s] \cap used[t] \subseteq {OVFL}

\* All lines of a thread carry the same prefix: it finds the slot it took
\* earlier, takes no second one, and does not come out of an overflow.
OnePrefix == \A t \in Threads : \A a, b \in used[t] : a = b

\* A thread gets "OVFL" only when every slot was taken by another one.
OverflowWhenFull ==
    \A t \in Threads : OVFL \in used[t] =>
        \A s \in Slots : /\ flag[s] /\ id[s] # t
                         /\ \/ id[s] # NoThread
                            \/ \E u \in Threads \ {t} : pc[u] = "own" /\ at[u] = s
=============================================================================
