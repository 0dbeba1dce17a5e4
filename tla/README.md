# Verification of the strus web service

The strus web service is an HTTP front end, built on cppcms, for a request
handler library that does the information retrieval work. This directory
holds TLA+ models of the part of the repository that decides who runs when, who
answers what, and how the process starts and ends (`src/src`), TLC
configurations that check them, and theorems about them that TLAPS proves.

Paths like `applicationImpl.cpp:284` are relative to `src/src`; those of the
service before the rewrite, like `transaction.cpp:107`, to `src/src.old`.
`PROJECT.json` has, for every definition that models code, the lines it stands
for.

## 1. Inventory

| Part | State it keeps | Operations | Module |
|---|---|---|---|
| **Request execution and maintenance mode** (`applicationImpl.cpp` `exec_request`, `runRequest`; `serviceClosure.hpp/.cpp`) | `m_waitForExclusiveAccess`, `m_runningRequestCounter`, `m_waitingContextList` with its mutex | accept, reject, start, execute, put aside, finish, process the waiting ones | `RequestExecution`, `RequestService` |
| **Delegate requests** (`webRequestDelegateContext.cpp`) | a counter of missing answers per list, the request context | issue a list, send, feed to itself, take an answer, fail, follow up, complete | `DelegateRequests`, `DelegatedRequest` |
| **Service lifecycle** (`strusWebService.cpp`, `serviceClosure.cpp`) | `g_serviceClosure`, `g_terminate`, `g_got_sighup`, service and event loop of the instance | start, mount, run, return, restart, quit, signal, shut down; what a shutdown does to requests | `ServiceLifecycle`, `ServiceShutdown` |
| **Request dispatch and replies** (`applicationImpl.cpp`, `requestContextImpl.cpp`) | the response being written, the URL map | select a handler, check origin and method, select the content or make it of URL parameters, report answer or error | `RequestDispatch` |
| **Request logger** (`webRequestLogger.cpp`) | slots: atomic flag and thread id | find the slot of a thread, take one | `LoggerSlots` |
| **Configuration** (`configUtils.cpp`, `load*Configuration`) | none after start | substitution of references, service name, CORS, HTML and protocol settings | `Configuration`, used by `RequestDispatch` |
| **Service before the rewrite** (`src.old`) | index contexts with handles, named locks, transactions with idle time | commands on indexes, documents, queries, transactions; the timer | `IndexContexts` |
| Program options, help, schema output (`strusWebService.cpp`) | none | one pass over the arguments | not modelled |
| `PathIter`, message catalogue | none | none used by a property | not modelled |
| Clients (`client_curl`, `client_perl`), demo client and slides with vendored JavaScript (jQuery, reveal.js), `3rdParty`, schemas, packaging | none | send a request, print the answer | not modelled |

### How the parts interact

* cppcms calls `ApplicationImpl` in one of its **worker threads**, one request
  per worker at a time. The URL map selects an `exec_*` function
  (`RequestDispatch`).
* `exec_request` looks at the maintenance flag and calls `runRequest`, which
  counts the request as running, executes it, and either reports a reply, hands
  it to the delegate requests, or puts it on the waiting list
  (`RequestExecution`).
* The request handler's **event loop thread** sends delegate requests and calls
  `putAnswer` with what comes back. When the last answer is in, `completeResponse`
  replies and `signalTermination` does what `runRequest` does at its end: it
  decrements the counter of running requests and processes the waiting list if it
  was the last (`DelegateRequests`; in `RequestExecution` this is
  `CompleteDelegated` followed by `DoneRunRequest`).
* **main** creates a `ServiceClosure`, which owns service, event loop, request
  handler and logger; it runs until somebody calls `shutdown`: the **SIGHUP handler**,
  the `/quit` request in a worker, or cppcms itself on SIGTERM/SIGINT
  (`ServiceLifecycle`).
* A shutdown stops the event loop, then the service, while requests are on their way
  through all of this (`ServiceShutdown`).
* All of these threads log, and share the slots of the logger (`LoggerSlots`).
* The service before the rewrite is a program of its own. Its commands run in
  worker threads and share one `StrusContext`; a timer of the service works on it too
  (`IndexContexts`).

### What is hard about it, and what makes it correct

* *Request execution.* Flag, counter and list are three pieces of shared state
  and only the list has a lock. A request that needs exclusive access is executed
  by whoever brings the counter to zero, so one uncounted request, one decrement too
  many, or one missed test leaves requests waiting and the service answering 503.
  Correct means: the counter is exact; flag and list agree; waiting requests have
  somebody who will process them; one answer per request; the service reopens.
* *Delegate requests.* The counter is a plain `int` behind a shared pointer,
  modified by the worker that issues and the event loop that takes answers; the end of a
  request is decided by this counter alone, on four different paths with
  different orders of reply, termination and clearing. Correct means: the counter
  is what is missing; one response and one termination, eventually; nothing
  reaches the context afterwards.
* *Lifecycle.* One flag has to tell a reload from a shutdown while a signal
  handler and a worker act on an instance main is about to replace. Correct means: the process
  ends only for a reason; who serves has an event loop; a signal restarts
  once and hits the instance it was meant for.
* *Dispatch.* Many combinations of method, origin, parameters, content and result,
  each with its own way to write a response. Correct means: exactly one finished
  response or none by intention; error texts with error status; nothing
  destructive before the checks; no URL parameter lost.
* *Configuration.* References are replaced in place, in one pass. Correct means: what the
  file says is what the service uses.
* *Shutdown.* Event loop and service are stopped one after the other while threads
  go on. Correct means: it comes to an end, and costs nobody an answer who did not
  depend on the event loop.
* *Index contexts.* Commands name what they lock; contexts come into being on first use,
  handles and transactions are deleted by commands other than those that use them. Correct
  means: one command at a time on a name, no use of what was deleted, a transaction
  ends once, locks are given back.
* *Logger.* Slots are searched and taken without lock. Correct means: two threads
  never share a number, one thread never changes it.

The hazards are listed with their lines in `PROJECT.json`, each with the
properties that cover it or the reason why none does.

## 2. Modules

Wrong variants: most modules hold definitions marked "Wrong variant". No behaviour
of the models uses them. They are the code with one plausible bug, and for every
checked property there is one that makes TLC find the property violated when it
replaces the right definition.

### RequestExecution (with MCRequestExecution, RequestService, RequestExecution_proofs, RequestService_proofs)

A thread (`Workers` and `EventLoop`) has a place `pc` and the request `cur` it
works for. `halted`, `running`, `mutex`, `waiting` are the shared members of
`ServiceClosure`. A step is what lies between two accesses to shared state:

| Place | Code |
|---|---|
| `test` | `haltedForMaintenance()` at `applicationImpl.cpp:351` |
| `prepare` | `createContext`, content, up to `startRunRequest` (261) |
| `execute` | `execute` of the request context and what follows from its result |
| `push` | `pushWaitingRequest` (a critical section that writes the flag once: one step) |
| `done`, `halted` | `doneRunRequest() && haltedForMaintenance()`, two reads of two variables |
| `acquire`, `process` | `processWaitingRequests`; the mutex is held over several steps, because requests are executed inside |
| `issued` | `issueDelegateRequests` in the worker after the request went to the event loop, or was ended there |

`Faults` says where an exception may be thrown and caught by the handlers of `runRequest`:

| Fault | Where | What the handlers do |
|---|---|---|
| `"execute"` | while the request has its http context | take it off the counter; `exec_request` reports 500 |
| `"release"` | behind `release_context` (284, 306), before another thread or the list has the context | take it off the counter; there is no context to report to, so the request is lost |
| `"push"` | `push_back` in `pushWaitingRequest` (`serviceClosure.hpp:139`) | the same, and the maintenance flag stays set |
| `"issue"` | in `issueDelegateRequests` after the request went to the event loop, or was ended in the worker | take it off the counter although `signalTermination` does, or did |
| `"process"` | in the loop of `processWaitingRequests` | the list and the flag stay; see below |

`open` is the variable of that name in `runRequest`: the handlers call `doneRunRequest` only where it
is still true. A request that ends inside `issueDelegateRequests` in the worker (it cannot be sent, or is
fed to itself) runs `signalTermination`, and perhaps `processWaitingRequests`, with `open` true
(`ExecuteIssueEnds`); an exception there takes it off the counter a second time. `released` are
the threads that gave the context of their request away: where one of them gets an exception
nothing is reported. In a worker that still has its context the handler in `exec_request` reports a second
time. What `CATCH_EXEC_ERROR` does without a context is not in the
repository; should it end the process, the behaviour ends at that step, which violates no
safety property. In the event loop nothing is reported, and its thread is assumed to
survive. `Spec` has these exceptions (`Throw`); `QuietSpec` is the system where nothing throws.

The ghost variables `arrived`, `replies` and `delegated` remember which requests
came in, how often each was answered, and which ones are with the event loop. Three more
say what exceptions have left behind, and the properties name them as the only exceptions: `lost`, the
requests whose released context was dropped; `surplus`, how often a request was taken off the counter a second
time; `pushFailed`, that a `push_back` failed since the list was last processed.

**RequestService** is the promise to the clients, without threads: a request is
unseen, open, parked, answered; the service is closed while one is parked and
opens only when none is. `RequestExecution` is checked to implement it, fairness
included, with `status` computed from `replies`, `arrived` and `waiting`, and `closed`
from the flag.

### DelegateRequests (with MCDelegateRequests, DelegatedRequest, DelegateRequests_proofs)

One request, the worker and the event loop. `frame[t]` is the activation of
`issueDelegateRequests` in thread `t`: the list it walks through, the index, its counter,
and `size`, the length of the list it was *called* with (which `goto AGAIN`
uses for the wrong list). The decrement `*counter -= 1` is a load, a store and a
test; the test may use the value in the register or load again, as a compiler
is free to do for a plain `int`. The ends of the functions are straight sequences of effects
(`todo`): `respond`, `signal` (leave the running ones), `zero` (`*counter = 0`), in
the order of each path: `handleFailure` responds, signals and then clears; a failure
to send clears first.

Elements of a list are `"url"` (sent to a server) or `"self"` (fed back to the
request). `Unreachable` is the set of lists with elements that may fail
to be sent. The event loop belongs to a library: it is modelled by calling
`putAnswer` exactly once for every request sent.

**DelegatedRequest** is what `RequestExecution` relies on: open, responded,
terminated, in this order, both steps taken. It connects the two modules:
`CompleteDelegated` is its first step and `DoneRunRequest` of the event loop thread the second.

### ServiceLifecycle

`mpc` is where `main` is in its loop; `instance` is the number of the
`ServiceClosure` in `g_serviceClosure`. `call` and `target` are the SIGHUP handler and the
worker that serves `/quit`, each in the middle of `shutdown`, with the instance they
hold a reference to; stopping an instance main has replaced has no effect on the
new one. Whether cppcms remembers a `shutdown` that comes before `run` is left open:
`Run` may keep or forget it. Replacing an instance waits for its worker threads, hence for a
worker in `/quit`. The copy of the `shared_ptr` in the signal handler is one step
(the torn copy the real one allows is undefined behaviour without outcomes to enumerate).

### ServiceShutdown (with MCServiceShutdown, ServiceShutdown_proofs)

`RequestExecution` together with the shutdown of the instance that runs it. `stage` goes from
`serving` over `loop stopped` and `stopped` to `freed`. Requests arrive until the
service is stopped; delegate answers come only while the event loop runs; a thread goes on with
what it has begun, and the closure is freed when every thread is through. `threw`
remembers whether there was an exception. After an exception in `issueDelegateRequests` the delegated
request stays with the event loop, and may or may not be answered. What is delegated to a stopped loop
stays where it is, or is refused and answered with an error: that is the library's
choice.

### RequestDispatch (with MCRequestDispatch, Configuration, RequestDispatch_proofs)

First the service starts with a configuration file (`ReadConfiguration`, `InitService`,
operators in `Configuration`), then there is one request, every combination of
configuration switch, method, path, origin, URL parameters and body. `out` is the
sequence of things done to the response; `"text"` is an error text, `"final"` the
call of `finalize` or its like. The request is followed past `release_context`, to the answer of the delegate
requests (`CompleteDelegated`) or of the waiting list (`ProcessWaiting`); `released` says who has the
context, `"lost"` that an exception came when nobody had it. The URL map is an ordered sequence of entries, the first
match wins. Details worth knowing that come from the code:

* the CORS check guards the administrative commands only; content requests
  do not pass it;
* a rejected origin gets no response at all, also when CORS is enabled and the
  file names no allowed origins;
* delegate requests are answered with content (`webRequestDelegateContext.cpp:109`, 144), those of
  a HEAD request too;
* an exception behind `release_context` leaves a request without response; one behind
  the reply (`doneRunRequest`, `processWaitingRequests`) reports to a client that has its answer;
* the library's errors have one of the statuses 404 and 503 here (500 too where the code sets it), and
  the status set last counts, also where it is set after `finalize`;
* a version component that does not exist leads to an exception, and so to 500;
* a content header that is too long is reported as an error, and the content
  is written after it all the same;
* values of URL parameters other than the empty one are undefined
  (`json_value_encode` copies from the wrong pointer), keys and their number of values are not.

The start can fail on `html.css` without or with several sources, and on a CSS file that cannot be read
(`HtmlUnreadable`). In `Configuration` a text is a sequence of words and references. `SubstConfig` is the one pass of
`substConfigReferenceVariables` over the keys in their order, in place; `Expansion`
is what a reader of the file expects, all references replaced until none is left. The name of the option
`-N` is set in a step of its own afterwards (`NameService`).

Three assumptions say what the constants are: paths are sequences of segments and the
components match `\w+` (`PathAssumption`), URL parameters are sorted, so equal keys are next to
each other (`FormAssumption`: cppcms keeps them in a multimap), and a file has texts for its keys
and settings of the types JSON and the code allow (`FileAssumption`). `Keys` are the keys of one
JSON object, hence distinct (`KeyAssumption`).

### IndexContexts (with MCIndexContexts, IndexContexts_proofs)

The commands of the service before the rewrite: `read` stands for all that read or
write with a transaction of their own, `insert` for inserting and deleting documents
with a transaction id; `begin`, `commit`, `rollback`, `close`, `delete`, `create`, `rename`
and `swap` are themselves. A thread has a place and a command with one or two names.

| Place | Code |
|---|---|
| `prelude` | what `create`, `rename` and `swap` look at before they lock |
| `new prelude`, `new env` | `getOrCreateStrusContext` between `acquire`, that found nothing, and `release` |
| `lock`, `lock two` | `lockIndex` (a name without context is not locked) |
| `close` | `close_strus_environment` before `delete`, `rename`, `swap` go on |
| `env`, `use`, `act` | handles taken; what the command does; with a transaction in hand |
| `unlock two`, `unlock`, `unlock rollback` | `unlockIndex`; the last one is `rollback`'s |
| `drop` | `rollback` deletes the transaction, after the unlock |

A `StrusIndexContext` is an object of its own (`Contexts`): `index[c]` is the name under which it was
put into `context_map`, `lock[c]` its mutex, `trans[c]` its transaction. `getOrCreateStrusContext` is two
steps on a map without lock, so two first uses of a name may both find nothing and make a context each.
As every function that uses a context puts it back into the map when it is done, either may be there
afterwards; a lookup (`Acquire`) therefore gives any of the contexts of its name. `Doubled` are the names
with more than one. The handles of the two are not told apart: what a thread has of such a name
counts as deleted whichever of them is closed.

A mutex is owned by a thread, free, or `Lost`: left locked by a command that returned
early. `stale` is what a thread still points to after another one deleted it: a handle, or a transaction
that was aborted with the handles. That the timer, or `rollback` after it has given the lock back, takes a
transaction from the command that uses it is what the code does (see the hazards), and the state does not
record it. The ghost `skipped` has the names some thread did not lock because they had no context,
as long as commands are on them: the last one that returns ends the overlap (`Forget`). A name has one
transaction id per context. The properties except the names in `skipped` and `Doubled`, because there the code
protects nothing, and say that it is only there.

### LoggerSlots (with LoggerSlots_proofs)

`getThreadId`, one read or write of a slot at a time: find the slot with the own
id; otherwise set the flag of the first free one, then write the id into it. A
slot is never given back. The number 0 stands for `"OVFL"`.

## 3. Runs

| Run | Checks | Instance |
|---|---|---|
| `reqexec` | types, counter, flag, processor, one answer each; reopening only after answers; implements `RequestService` with fairness | 2 workers, event loop, 4 requests, one of them HEAD, no exceptions |
| `shutdown` | counter and flag with exceptions in all five places and a shutdown at any time; requests lost only behind `release_context`; who is not delegated gets his answer; the closure is freed | 2 workers, event loop, 3 requests, one of them HEAD, all faults |
| `delegate` | one response, exact counter, late answers dropped, implements `DelegatedRequest` | up to 4 lists of up to 3 elements |
| `lifecycle` | ends for a reason, serving has an event loop, restarts by SIGHUP, shutdown hits its instance | 4 starts, 3 SIGHUPs while serving, quit, term, failing starts |
| `logger_slots` | prefixes separate and constant, overflow only when full | worker, event loop, main; 2 slots |
| `dispatch` | references resolved; who gets no response, quit answered, error status, content of HEAD, reserved paths, parameters kept | 3 keys with all texts of up to 2 parts, all settings; 3 methods, 10 paths, 3 origins, forms of up to 4 parameters |
| `index_contexts` | types, mutual exclusion, handles alive, transactions end once, locks given back, only swaps in a deadlock | 2 threads, 2 names, 2 contexts, all commands, failing handles and readers |
| `reqexec_throw`, `reqexec_exclusive`, `delegate_again`, `delegate_send_race`, `lifecycle_hup` | one property each, which the code violates | see section 5 |

**Why the bounds are enough to be interesting.**
Two threads get to `processWaitingRequests` at the same time only with two
requests that ask for exclusive access and a third that takes the counter to zero again;
four requests add one more that arrives meanwhile. Two workers and the event loop are the
smallest set where both the worker's and the event loop's end of a request
compete. Follow-up lists of two elements nested to depth four start new counters
while answers to old ones are still missing, and let elements fed to itself and
elements sent follow each other in both orders. Four starts with three signals allow a
restart, a signal during a restart and one left over. Two slots with three threads make
the slots run out, which is what happens in production: `init` creates one slot more
than workers, but main logs during `init` and keeps its slot, so one of workers and
event loop ends with `OVFL`. The paths of `dispatch` contain one for each entry
of the URL map, one that just misses it, and one no word matches; three keys make
chains of references and cycles; four parameters with two keys make a run of equal keys
at the end, and two in a row. Two threads on two names are a command and one it races
with, and the two names a rename or a swap needs, in both orders; two contexts are one for each name, or two for
one name while the other has none. `shutdown` has three requests instead of four because the five faults
multiply its states: one that is delegated or throws, one that waits, and one that arrives meanwhile.

The bounds are the constants `MaxLists`, `MaxStarts`, `MaxHups`, and the sets of
threads, requests, names, contexts, lists, texts, forms and paths (`Contexts` is a bound for TLC, the code
makes as many as it needs; the theorems hold for any set). Symmetry is used in runs with
invariants only, never with liveness: workers and requests that are not HEAD in
`reqexec_exclusive`, threads, names and contexts in `index_contexts`, which has 2.3 million states.

**What the passing runs leave out on purpose.** `reqexec` runs `QuietFairSpec`
because with exceptions `AnsweredOnce`, `WaitingHasProcessor` and the liveness of
`RequestService` are false; `shutdown` has them and shows what is still true. In `delegate` the
first list goes to other servers only, and a first list of several elements does not
fail to be sent. Without these limits worker and event loop write the
counter at the same time, and both `OneResponse` (`delegate_send_race`) and
`CounterIsMissing` fail: with the first list `<<"url", "self">>` the load, decrement
and store of the worker and of the event loop overlap and one decrement is
lost. `lifecycle` lets a SIGHUP arrive only while an instance serves
(`HupAnytime = FALSE`); `lifecycle_hup` is the other case.

**Deadlock** is not checked in models that end (all requests answered, process
gone, request done, closure freed), nor in `index_contexts`, where the old service really may
hang: on a mutex that was left locked, and in two swaps in opposite order.
`LoggerSlots` never ends and is checked for it.

### Fairness

* `RequestExecution`: weak fairness of the work of every thread, and of the event
  loop completing some delegated request. Threads are scheduled by the operating
  system and no handler blocks forever by itself; the only wait is for the list mutex,
  whose holder is a thread that is scheduled too. *Sending* a request is not fair.
* `DelegateRequests`: weak fairness of both threads and of the answers: the
  event loop's library answers every request it took, with an error when the
  server does not.
* `ServiceLifecycle`: weak fairness of main and of a caller in the middle of `shutdown`.
  No signal and no quit ever has to happen.
* `ServiceShutdown`: weak fairness of the work of every thread and of the two steps that end a
  shutdown that has begun (the thread that called it, or main, is scheduled). Nobody
  has to shut down, and after the event loop was stopped nothing is expected of it.
* `LoggerSlots`, `RequestDispatch`, `IndexContexts`: safety only, no fairness.

## 4. Proofs

All theorems hold for every value of the constants that satisfies the named assumptions
of the modules (`ThreadAssumption`, `RequestAssumption`, `FaultAssumption`, `SlotAssumption`,
`IndexAssumption`, `PathAssumption`, `FormAssumption`, `FileAssumption`, `KeyAssumption` and the bounds of
`ServiceLifecycle`). Two theorems assume
`HupAnytime = FALSE` besides; `QuietSpec` instead of `Spec` in a theorem says that nothing throws.

**RequestExecution_proofs**, for any finite sets of workers and requests and any `Faults`:

* `TypeCorrect`: the variables keep their types. Pushing on the waiting list is
  type correct only because a thread that is not idle has a request, which is part of `Owners`.
* `RunningExact`: `RunningIsCounted`. The counter is a sum of two cardinalities and is
  not inductive alone: handing a request to the event loop moves it from one set to
  the other, which keeps the sum only if the request is not delegated
  already. That is `Owners`: a request that is arrived is with one thread, or with the
  event loop, never both. `surplus` grows only where an exception comes out of `issueDelegateRequests`.
* `FlagExact`: `HaltedIffWaiting`. Flag and list agree even while the
  mutex is held (`FlagIsList`), since every critical section changes both, but for a `push_back` that
  throws: then the flag is set without a request, until the list is processed.
* `WaitingServed`: `QuietSpec => []WaitingHasProcessor`. This is where counter,
  flag and mutex come together: a thread that brings the counter to
  zero goes on to look at the flag (so it is itself the processor); a thread that finds the
  flag unset knows by `FlagIsList` that nobody waits; a thread that ends the
  loop has emptied the list. With exceptions it is false: `reqexec_throw` shows why.
* `NeverLost` (`NothingLost`) and `ResumesAfterAnswers` (`ResumeAfterAnswers`), exceptions
  included. Both need `ListAnswered`: what is before the position of a thread in the
  loop has its answer, so that clearing the list drops nobody. `NothingLost` is an equivalence: the
  requests in `lost`, dropped by an exception behind `release_context`, never get an answer, and all others
  have one or a place it will come from.

The inductive invariant is `IInv == TypeOK /\ Owners /\ MutexOwned /\ FlagIsList /\
RunningIsCounted`, with `WaitingHasProcessor`, or `ListAnswered` and `NothingLost`, added
for the later theorems.

**RequestService_proofs**, for `QuietSpec`:

* `AnsweredExactlyOnce`: `AnsweredOnce`. The property adds up cardinalities; the invariant
  (`OnePlace`) only asks for each place whether the request is there, and
  `NoRepetition` (a request is once in the list) with `Owners` gives the cardinalities at the end.
  The list never gets a request twice because one that is pushed was held, and by
  `OnePlace` what is held is not still to do in the list.
* `KeepsPromise`: `ImplementsService`, the safety part of the refinement of `RequestService`.
  Every action is mapped to `Accept`, `Park`, `Answer`, `Reopen` or a stutter; `Answer` is allowed
  because by `OnePlace` who holds a request, or has it in front of him in the list, is
  the first to answer it, and `Reopen` because of `ListAnswered`.

**ServiceShutdown_proofs**: `ShutdownIsExecution`, every behaviour of `ShutdownSpec` is one of
`RequestExecution`, so that its theorems carry over; and `OnlyLost` (`OnlyDelegatedLost`), from
`WaitingHasProcessor` while nothing has thrown, and `NothingLost`: when every thread is idle and nothing is
delegated, there is no place left where a request could wait.

**ServiceLifecycle_proofs**: `LifecycleTypes`; `RestartsCounted` (`RestartsByHup`: one SIGHUP more than
starts while the flag is set and main has yet to look at it); `EndsOnlyForReason` and
`ServingConnected` for `HupAnytime = FALSE`: a caller of `shutdown` that holds the instance
has a reason, be it a flag or a request to stop, until main has left `run`.

**IndexContexts_proofs**, for any threads and names and any commands and failures:
`ContextTypes`, `LockHasOwner` (`LocksGivenBack`), `Excluded` (`MutualExclusion`), `HandlesStayAlive`
(`HandlesLive`), `TransactionsOnce` (`TransactionsEndOnce`), `DeadlockNeedsSwaps`
(`OnlySwapsDeadlock`). The invariant says which commands
are at which place (`Places`), that a thread inside a name owns its mutex unless the name was
skipped and commands have been on it ever since, or has two contexts (`InsideOwns`), and that a transaction that is over belongs to a rollback with the lock
(`OverIsRolledBack`); exclusion then makes every deletion one of nobody else's things. A mutex another
thread waits for is that of a name its owner is inside of, and only a swap waits for a lock
while it is inside of a name: a circle of commands that wait for each other has nothing but
swaps in it.

**LoggerSlots_proofs**, for any set of threads and any positive number of slots:
`SlotTypes` (no access behind the last slot), `PrefixesSeparate`, `PrefixIsOne`,
`OverflowOnlyWhenFull`. The invariant says that a number a thread has used is a slot with its id
(`UsedIsOwned`), that a slot taken but without id yet is taken by one thread
(`OwnIsExclusive`, `FlagHasOwner`), and that a search has not gone past the
thread's own slot (`SearchComplete`, the reason why no thread takes a second one), that an
id is in one slot (`IdUnique`), and that a thread that once overflowed finds every slot taken from then
on (`OverflowIsFinal`).

**DelegateRequests_proofs.** `DelegateTypes` (`TypeOK`) holds for all lists. The other theorems assume `Calm`,
which excludes that worker and event loop write the counter they share without a lock at the same time. They
do not show that doing without a lock is right: where the two overlap, `OneResponse` and `CounterIsMissing`
are false (section 3). `Calm` says: first lists are
sent to other servers only, a first list that may fail to be sent has one element, and all
follow-up lists have one length. The lists of the run `delegate` are such; without the
second part `delegate_send_race` refutes `OneResponse`; a worker that goes on with a list of another length
is the case of `delegate_again`, where the request is never completed. For lists of any length and number, then: `RespondsOnce` (`OneResponse`), `CounterExact`
(`CounterIsMissing`), `LateDropped` (`LateAnswersDropped`) and `DelegationKept` (the safety part of
`ImplementsDelegated`). The invariant `CInv` says where the worker and the event loop thread may be
(`WorkerPlace`, `LoopPlace`: the event loop always works with the counter of the last call, and has work only
after the worker has sent something) and that the request is in one of three phases: `Open`, where each
counter equals what is missing, so that the value loaded cannot change before it is stored; `Ending`,
where one thread goes through its tail; `Over`, where all counters are zero and answers are dropped.

**RequestDispatch_proofs**, for any methods, paths, words, components, hosts, forms, keys and
configuration files: all invariants of the run `dispatch`, `TypeCorrect`, `NothingForgotten`
(`NoRequestForgotten`, with the refused origin and the context dropped by an exception as the
two exceptions), `ShutdownIsAnswered` (`ShutdownAnswered`), `StatusFitsResponse`
(`ErrorsAreErrors`), `HeadGetsNoContent` (`HeadWithoutContent`; a HEAD request answered by delegate
requests does get content), `PathsAreReserved`
(`ReservedPaths`), `ParamsAreGrouped` (`ParamsByKey`) and `ReferencesAreResolved`
(`ReferencesResolved`). The control flow is simple and the invariant short; the work is in what
the operators do with data of any length:

* *Induction.* `LeastNatural` is that a nonempty set of natural numbers has a least
  element, from the well-founded order of the library; a claim for all lengths is stated as a
  set of numbers and proved with it (`InductionTo`). The recursive function of
  `FormToJson` and the folds behind `FlattenSeq`, `SubstConfig` and `Expansion` are choices of some
  function that satisfies an equation, so the existence of one is proved first
  (`RecursionFromEnd`, `FoldRecursion`).
* *The URL map.* `UrlMapEntries` writes the map out, `FirstEntry` says that the first match wins,
  and `DispatchRoutes` that the handler fits the path. That no administrative path reaches
  `exec_request` depends on the order of the entries.
* *Responses.* `ErrorIsAnswered` and `AnswerIsAnswered`: what `report_error` and
  `report_answer` leave in the response, whatever was in it before.
* *URL parameters.* `FormToJsonIsGood`, by induction from the last parameter to the first: the
  list of equal keys in front becomes one member with all of its values (`MemberIsGood`), and since
  equal keys are adjacent none of them comes back behind it (`OthersAreBehind`).
* *References.* `DuringPass` says what the configuration is after each key of the pass: keys behind
  the position are as in the file, those in front were replaced when their turn came.
  Then a reference to the key itself or to a later one with references inserts those references,
  which nobody looks at again (`ForwardIsLeft`). Otherwise the m-th round of `Expansion` agrees
  with the pass on the first m keys (`RoundsArePass`), which gives `BackwardIsExpanded`;
  it needs that replacing references in a text and then in the result is the same as
  replacing them by values in which they are replaced (`NextRound`), for which `FlattenSeq` is taken
  apart (`SubstConcat`, `SubstFlatten`).

The invariant `IInv` is `TypeOK`, with where the request is and what was done so far (`Position`), the handler as
selected for the path (`Routing`), the checks behind the request (`Checked`), the content it
is executed with (`Execution`), the ways to end (`Outcome`), and `HeadWithoutContent`. `NoRequestForgotten`
is not inductive: `Outcome` has to say also that a finished response was finalized and has the status
its text needs, and `Checked` that a refused origin never gets as far as the act.

**Only model-checked:** liveness, that is the fair part of the refinements of `RequestService` and
`DelegatedRequest`, `ShutdownEndsInstance` and `GoesDown`: the prover has no rules for fairness
(`ENABLED`). Every invariant of a passing run, and the safety part of both refinements, is proved;
for `DelegateRequests` under `Calm`, for `WaitingHasProcessor`, `AnsweredOnce` and the refinement of `RequestService`
under `QuietSpec`, for `EndsForReason` and `ServingHasEventLoop` under `HupAnytime = FALSE`. The
violated runs `delegate_send_race`, `delegate_again`, `reqexec_throw` and `lifecycle_hup` show what
happens where these assumptions do not hold.

## 5. Where the code does not do what it says

* **Halted for ever** (`reqexec_throw`). The exception handlers of `runRequest`
  call `doneRunRequest` and drop its result (`applicationImpl.cpp:328`). If the request that
  throws is the last one running while another waits, nobody processes the
  list, and since every new request is rejected nobody ever will. The
  "temporal" reject becomes permanent.
* **Access that is not exclusive** (`reqexec_exclusive`). The flag is tested at
  line 351, the request counted at 261, called later. A request between the two starts while the
  waiting ones are executed.
* **Counter of the wrong list** (`delegate_again`). `goto AGAIN` starts the counter with the
  length of the list it was called with. A shorter follow-up is never completed.
* **Two responses** (`delegate_send_race`). A failure to send in the worker, while the answer
  to an earlier element of the same list is in `putAnswer`, completes the request
  twice and takes it off the running ones twice.
* **SIGHUP during start ends the process** (`lifecycle_hup`). The flag is cleared
  after the instance was published, so the handler's shutdown remains and its reason does not.

Seen while modelling, and not a run of their own:

* The lost decrement of section 3.
* A request whose context was released when an exception comes, by `release_context` itself, by the copy for the
  waiting list, by `push_back`, or by what `issueDelegateRequests` does before the first send
  (`applicationImpl.cpp:284-285`, 306-307), never gets an answer: `CATCH_EXEC_ERROR` has no context
  to report with (`lost`). After a failed `push_back` (`serviceClosure.hpp:139-140`) the service is halted with an empty
  list (`pushFailed`), until a running request ends as the last one. An exception out of `issueDelegateRequests`
  takes a request off the counter twice (`surplus`); the counter then gets to zero with a request still running, or
  passes zero without stopping there.
* A HEAD request that delegates gets content.
* A `/quit` that coincides with a SIGHUP restarts the service,
  although its client was told "service to shutdown" (`RestartsByHup` and `EndsForReason` hold,
  because the SIGHUP was sent and a reason exists). An exception in `processWaitingRequests`
  makes the requests already answered run again next time (`NothingLost` holds, `AnsweredOnce` does not).
* Stopping the event loop before the service (`serviceClosure.hpp:62`) leaves delegated requests
  without answer, and those that wait for exclusive access behind them, which are destroyed with
  the closure.
* "reloading configuration on SIGHUP.." (`strusWebService.cpp:430`) starts a new instance with the
  configuration that was read before the loop (301, 417); the file is not read again.
* `json_value_encode` appends from the wrong pointer; an unclosed brace in a configuration
  string makes `substConfigReferenceVariables` read past its end.
* The name given with `-N` is set after the references were replaced: `{service.name}` in the names of
  log files (`config.js.in:47`, 55) keeps the name of the file. References to numbers, such as
  `{service.port}`, become empty. `config.js.in:11` has `nof_per_second` where
  the code reads `transactions.nof_per_sec` (`serviceClosure.cpp:113`).
* In the service before the rewrite, locks stay with a command that returns early
  (`transaction.cpp:107`, 360; `index.cpp:594`, 601, 656, 663; `document.cpp:567`); the first commands
  on a name do not lock it, but unlock it (`strusContext.cpp:201`); two first uses at the same time make two
  contexts with two mutexes for one name (`strusWebService.cpp:93`); `rollback` deletes the
  transaction after the unlock (`transaction.cpp:323`); the timer takes no lock
  (`strusIndexContext.cpp:63`), nor does `create`; two swaps in opposite order
  wait for each other, and a swap of a name with itself waits for itself (`index.cpp:650`); a
  `rename` that fails reports an error and then success (`index.cpp:608`). The properties of
  `IndexContexts` name these as their exceptions and state what holds otherwise. `LocksGivenBack` does not
  report the early returns themselves, the lock of such a command counts as `Lost`: it says that no other command
  leaves one, on a name with two contexts neither.

## 6. What is not modelled

* cppcms, the request handler and the event loop: libraries. They appear as the
  choices they leave to the code.
* Memory: use after free (iterators into `followDelegateRequests` after it is
  assigned again, the logger deleted before the event loop) has no outcomes to
  enumerate. The hazards name the lines.
* What the reports and log lines say, except where a status or an order depends on it; the cuts of
  `reduceContentSize` and `logMessageBuf`.
* The base URL passed to the request handler, the log mask and the limits of the
  configuration: values copied to a library.
* Analysis of documents and queries, the replies and the quit command of `src.old`; a handle
  deleted between the two calls of a prelude.
* Program options, help and schema output, the message catalogue and `PathIter`; the command line and
  Perl clients, which send one request and print the answer; the demo client and the
  slides, whose scripts are vendored copies of jQuery and reveal.js; `3rdParty`; packaging.

## 7. Plan

Done, in this order, the most important first: `RequestExecution` with its
abstract specification and proofs, `DelegateRequests`, `ServiceLifecycle`, `LoggerSlots`
with proofs, `RequestDispatch`; then `ServiceShutdown`, `Configuration` with URL parameters in
`RequestDispatch`, `IndexContexts`, and the proofs of `ServiceLifecycle`, `ServiceShutdown`,
`IndexContexts`, `DelegateRequests`, of the refinement of `RequestService`, and of `RequestDispatch`
with `Configuration`.

Left: the cuts of log lines at the limits of the buffers, against a reference definition; a
termination measure for `RequestDispatch` and `DelegateRequests`, as the part of liveness that
can be stated without fairness.
