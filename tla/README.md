# A TLA+ model of the TEKlib executive in luaexec

luaexec gives Lua programs tasks, signals and messages.  Its core is the C
library in `src/src`: a hardware abstraction layer (HAL) over POSIX or Win32
threads, and on top of it the executive, with tasks, message ports, locks,
named atoms, modules, memory managers and a time device.  `src/tek/lib/exec_lua.c`
makes it available to Lua.

This directory models that core.  TLC checks each module on a small instance, and
TLAPS proves theorems about some of them for every instance.  All paths below are
relative to the directory that holds `src/`.

Notation: task signals are `ABORT` (1), `BREAK` (2), `SINGLE` (4) and `USER` (8);
the models call the ones they use "single", "user", "abort" and so on.

## The system

| Component | State | Operations | Works with |
|---|---|---|---|
| HAL signals (`src/src/hal/posix/hal.c`, `winnt/hal.c`) | `hth_SigState` of each thread with a mutex and condition variable, or an event | signal, set-signal, wait, timed wait | everything that blocks |
| HAL time device (`posix/hal.c`, `exec_time.c`) | open count, device lock, list of requests, the device task's port | open, close, begin, abort; `TWaitTime`, `TWaitDate` | a device task of its own; signals; ports |
| Message ports (`exec_api.c`, `exec_mod.c`) | list of messages, status flags, reply port | alloc, put, send, insert, get, wait, ack, reply, drop | signals of the port's task |
| Signals and ports as resources (`exec_mod.c`, `exec_api.c`) | `tsk_SigFree`, `tsk_SigUsed`, a port's signal | allocate, free, create and destroy ports | tasks, ports |
| Locks (`exec_api.c`) | owner, nesting count, waiters | `TLock`, `TUnlock` | signal `SINGLE` |
| Exec task (`exec_doexec.c`) | a port for requests, lists of initializing, running and exiting tasks, of modules and atoms | create and destroy tasks, lock and unlock atoms, open and close modules | every task, by messages and signals |
| Ramlib task (`exec_doexec.c`) | list of internal modules | loads and unloads modules | the exec task |
| Startup and shutdown (`init.c`, `hal_mod.c`, `exec_mod.c`, `exec_api.c`) | what has been opened and started so far | `TEKCreate`, the destructor of the application's task | exec and ramlib task, time device |
| Memory managers and pools (`exec_memory.c`) | tracking list, pool of puddles, free list of a puddle | alloc, realloc, free; create and destroy managers and pools | the host's memory |
| teklib (`teklib.c`, `string.c`) | - | lists, tags, time arithmetic, strings | everything |
| Lua tasks (`exec_lua.c`) | registry of named tasks, parents and children, queued messages | run, join, abort, terminate, signal, sendmsg, getmsg, waitmsg | all of the above |
| Web server (`src/tek/class/server.lua`, `httpd.lua`, `cgi.lua`, `fifo.lua`) | intervals and their ids; the state of the parser of a request, buffers | main loop, interval functions, arguments of requests | runs in a Lua task; asks for its signals once a second |
| Other Lua classes (`src/tek/class`, `src/tek/lib`) | - | markup, argument parsing, sessions | text processing |

Interactions.  A task blocks in one way only: `THALWait` on a set of its
signals.  A port signals its task when a message arrives; every task has a *sync
port* whose signal is `SINGLE` and on which it waits for the reply to the one
message it is sending synchronously, and a *user port* whose signal is `USER`.
`TLock` and the time device use the same `SINGLE` signal, so each of the three
relies on the other two to leave it quiet.  Requests to the executive (create a
task, lock an atom, open a module) are the caller's own task structure, sent as a
message to the exec task and replied to when the request is done; the request
data is a union that the next request overwrites.

What is hard.  Signals are sent after the port lock has been released, so a
message can be taken before its signal arrives, and the port be gone when it does.
Lock hand-over trusts a signal without testing the lock again.  A time request may
expire while its task aborts it.  The device task is joined by a task that holds the
device's lock.  The exec task reads task status without a lock, and reads a request
after it has replied to it.  Tasks fail, finish and are destroyed in any order, and
names lead to tasks that are about to end.  Startup can fail at any of some forty
steps, with threads running.  Memory may not be had, at any call.  Nothing is
persistent and messages are not lost, so crash recovery and unreliable delivery are
not among the hazards.  `PROJECT.json` lists the hazards by line.

## Modules

| Module | Models | Composition |
|---|---|---|
| `TaskSignals` | abstract: what signals promise on any host | - |
| `HalSignalPosix` | `hal_signal`, `hal_setsignal`, `hal_wait`, `hal_timedwaitevent` with mutex and condition variable | implements `TaskSignals` |
| `HalSignalWin32` | the same with interlocked operations and an auto-reset event | implements `TaskSignals` |
| `HalSignal` | the choice of a host | composes the two, for one run |
| `Lists` | `Select`: the elements of a sequence that are in a set, as a recursive function | used by `ExecPort` |
| `ListProofs` | lemmas about sequences as lists: add, take the first, remove, insert; about `Select` | used by the proofs below |
| `Messaging` | abstract: messages are posted, taken in order, put back, answered once and collected | - |
| `ExecPort` | ports, message status, `TSendMsg`, on top of atomic signals | implements `Messaging` |
| `ExecUserPort` | signals as a resource; ports that tasks create, wait on and destroy | - |
| `RecursiveMutex` | abstract: a recursive mutex | - |
| `ExecLock` | `TLock`, `TUnlock` | implements `RecursiveMutex` |
| `ExecSync` | locks and ports of the same tasks | composes `ExecLock` and `ExecPort` |
| `ExecSyncProofs` | theorems about locks, about ports, and about both together | extends `ExecSync` and `ListProofs` |
| `TimeDevice` | the POSIX time device and the waits that use it | - |
| `HalProofs` | theorems about signals on both hosts and about the time device | extends `TimeDevice`, `HalSignal` and `ListProofs` |
| `ExecAtom` | one atom and the requests for it | - |
| `ExecServices` | one of ports, user ports, an atom | joins `ExecPort`, `ExecUserPort`, `ExecAtom` for one run |
| `ExecServicesProofs` | theorems about `ExecAtom` and `ExecUserPort`; carries those about all three over to the module the run checks | extends `ExecServices`, instantiates the proofs about ports |
| `ExecTask` | creation and destruction of tasks | - |
| `ExecModule` | one module: opening, loading, waiting, closing, unloading, internal modules | - |
| `TekStart` | `TEKCreate` and shutdown, part by part, with the threads of the system tasks | - |
| `ExecRequests` | one of startup, tasks, a module | joins `TekStart`, `ExecTask`, `ExecModule` for one run |
| `ExecRequestsProofs` | theorems about `ExecTask` and `ExecModule` | extends `ExecRequests` and `ListProofs` |
| `Heap` | abstract: blocks with their contents | - |
| `MemHead` | operators: the static allocator in a piece of memory | - |
| `MemPool` | operators: pools, on top of `MemHead` | extends it |
| `ExecMemory` | managers, messages' memory and a pool, over the host's memory | extends `MemPool`; implements `Heap` |
| `ExecMemoryProofs` | theorems about managers and pools | extends `ExecMemory` and `ListProofs` |
| `NodeList` | abstract: lists as sequences | - |
| `TekList` | lists as pointers | implements `NodeList` |
| `TekTags` | `TForEachTag` and `TGetTag` | - |
| `TekTime` | operators: time and date arithmetic | - |
| `Fifo` | operators: the buffers of the web server | - |
| `CgiPost` | the arguments of a multipart request, which comes a buffer at a time | extends `Fifo` |
| `ExecLibrary` | one of memory, lists, tag lists, dates, requests | joins `ExecMemory`, `TekList`, `TekTags`, `TekTime`, `CgiPost` for one run |
| `ExecLibraryProofs` | theorems about lists; carries those about memory over to the module the run checks | extends `ExecLibrary` and `ExecMemoryProofs` |
| `LuaTask` | families of Lua tasks: run, join, abort, terminate, collection of handles, aborts and errors | - |
| `LuaMsg` | the names of Lua tasks, and the messages and signals sent by handle or by name | - |
| `ServerIds` | ids that are allocated and freed in any order | - |
| `LuaServer` | the main loop of the web server with its intervals | extends `ServerIds` |
| `LuaTasks` | one of families, messages, a server, ids | joins `LuaTask`, `LuaMsg`, `LuaServer`, `ServerIds` for one run |
| `LuaTaskProofs` | theorems about these four | extends `LuaTasks` |

How they read.  Each module names the C variable behind each of its variables.
A critical section under a lock, or one service of a request by the exec task, is
one action; where the code gives a lock up, signals, or re-reads shared state,
the action ends and another begins.  Variables marked *history* are read by
no guard that models the code's own decisions: they say what a caller has been
given so far (a lock it holds, a handle, the answer due), and they also keep
callers to legal calls, such as unlocking only what is held.  Operators whose
comment begins with "Mutant" are plausible bugs; each is used to show that one
property can fail, and none is reachable from `Next`.

`ExecSync` is a composition in earnest: its parts share tasks and signals.
`HalSignal`, `ExecServices`, `ExecRequests`, `ExecLibrary` and `LuaTasks` join modules that do not
interact, so that one run checks them: a variable (`host`, `part`), chosen in the initial
state, says whose behaviour it is, and the other parts stay in their initial state.  There no
step that fairness is about is enabled, so fairness asks nothing of them.

* **HalSignalPosix, HalSignalWin32.**  `sig` is `hth_SigState`; `mask` and `pc`
  say in which wait the thread is and how far.  On POSIX the wait gives the mutex
  up only in `pthread_cond_wait`, which may also wake up spuriously.  On Win32
  publishing a bit and setting the event are two actions, and so are the two
  halves of `hal_setsignal`.  Both are mapped to `TaskSignals` by identity.
  There a running thread may replace its signals only if it is told which of
  them it takes; so a signal that is lost without being reported is a step the
  abstract module does not have.
* **ExecPort.**  `queue`, `flags` and `rport` are the port's list and the
  message's `tmsg_Flags` and `tmsg_RPort`.  `Notify` is the `THALSignal` that
  follows the critical section.  `TWaitPort` tests, waits and tests again.
  `InsertMsg` sets the flags in a second step, after the lock, and signals nobody; only the
  owner of a port that has looked at the message puts it back.
  The refinement of `Messaging` sees only the requests in a user port as its
  inbox (`Select`); replies that share the port are answers not yet collected.
* **ExecUserPort.**  `used` is `tsk_SigUsed`, `sigtask` and `signal` are those fields of a port,
  and a port is memory that is used again.  `target` is the port that `exec_returnmsg` is about to
  signal after it has given up the lock.  A client here waits for the signal before it destroys a
  port; the code needs that (see Findings).
* **ExecLock.**  The critical sections under `tlk_HLock` are one action each,
  and the hand-over sends its signal inside of it.
* **ExecSync.**  The two modules share `sig` and `pc`, everything else is their own.
  `TLock` and `TSendMsg` wait for the same signal, and `TLock` does not look at the
  lock when it wakes up; the reply port of `TSendMsg` is tested again by its loop.
  One restriction is put on the tasks: whoever is inside the lock does not wait for a
  message.  The library's locks are used this way; a task that waits for the server
  of a lock it holds is a deadlock of its own making.
* **TimeDevice.**  `devlock` is a variable because the device task holds it over
  a pass of several actions, while tasks go on adding requests to its port.  Times
  count down: `Tick` lowers every deadline, so no last moment has to be chosen.
  `lag` is the time since the device task has read the clock in this pass.
* **ExecAtom.**  A call and its service are one action, because the exec task
  serves one request at a time.  What remains is the tail of `exec_unlockatom`,
  `SetOwner`, which reads `tra_Task` of a waiter it has already replied to;
  `OtherRequest` is that waiter's next request, which overwrites the union.
  `overwritten` is a history variable: it says that this has happened since the atom was last handed on, and
  does not change what a step does.
* **ExecTask.**  `execpc`, `got` and `scan` are the loop of `exec_main` and the
  two functions that walk its lists.  `thread[c]` is the progress of
  `exec_taskentryfunc`.  The two reads of `tsk_Status` in `exec_childinit` are
  two actions.
* **ExecModule.**  `modlist` is what `texb_ModList` has for the one name: nothing, a
  module, or the load request of its first opener.  `req[t]` is the union
  in the task structure together with the message's reply port, and `saved` is
  `trm_RPort`, where `exec_requestmod` and `exec_closemod` keep the real one while
  the ramlib task has the message.  A module is one member of `Instance` for
  each time it has been loaded.
* **TekStart.**  `todo` is what the calling thread has still to do: `Create` is the way
  down through `init_tek_create`, `Failed` the way back from where it has failed, `Shutdown` is
  `init_tek_destroy`.  Each element gets or puts a part (`owned`), raises a signal, joins a
  thread, or sends the exec task a request and receives the answer.  `stage` and `raised` are the
  threads of the exec and ramlib tasks.  `Needs` says what a part uses until it is gone; it is read off the
  code (`exec_initport` needs the HAL's locks, a task's memory comes from `texb_MsgMemManager`, ...) and
  used by the property only.
* **MemHead, MemPool.**  The allocators as operators from a state to the state they leave.  The
  link and size of a free node are written to the memory that is free, as in the code, so that an
  allocator that touches a block of somebody else is seen.
* **ExecMemory.**  `mem.hal` is what the host has handed out, `mem.info` the `TMemManagerInfo` in front of an
  allocation, `mem.track` the list of a message manager.  Managers, pools and puddles are allocated from it
  like everything else, so whatever needs memory may fail.  The pool's blocks refine `Heap`.
* **TekList.**  `succ` and `pred` with the head and tail nodes of `TList`, so that
  the shared middle pointer is there; `got` is what the last call has returned.
* **TekTags, TekTime.**  All pairs of tag lists of three items (nested, redirected, skipped), all pairs of
  dates of a small range; each is an initial state and the property compares the operators.
  `TForEachTag` and `TGetTag` are recursive in the code and recursive functions here.
* **Fifo, CgiPost.**  A buffer is the table of fragments that `FIFO` has, and the reads join and split them as in
  the code.  A request is a stream of symbols, where a boundary is one symbol and so is the header line that names
  an argument; `Read` takes the next `BufLen` of them, and each turn of the loop in
  `CGI:updatePost` is an action.  `EndPost` may come at any time, when a client goes away.
* **LuaTask.**  `stage` is how far `tek_lib_exec_runchild` and
  `tek_lib_exec_run_dispatch` have come, and `joining`, `sigparent` and `aborted` are the
  locals of `tek_lib_exec_child_sigjoin`.  What Lua code does between two calls of the
  library is left open: it may end, raise an error, catch one.  Signals other than
  `ABORT` and `SINGLE` are only passed on, so `child:terminate` is `child:join` here.
  A child's handle stays in the registry (`luaL_ref`), so that only `lua_close` collects it.
  `Reply` is the exec task's answer, of which `ExecTask` has the details.
* **LuaMsg.**  `data[x]` is the task that the atom `task.x` names, `readers[x]` who holds it shared: a
  sender from `LockTask` until it has put its message, the window in which the task must not go.
  `End`, `LastName`, `NameGone`, `DestroyName` are `lua_close` with `base_gc` and the end of
  `tek_lib_exec_run_dispatch`.
* **ServerIds, LuaServer.**  `pool` is `Ids`, `NextId` and `NumIds`.  A time is what is left until then, so that
  `Tick` lowers all of them.  `due` is what is left to be called of the copy that `expireIntervals` makes, and `kept`
  says that the record in it is still in the server's table too.  The program compares dates, and one of them is
  `NO_TIMEOUT`, 2000000000: `horizon` is the time until then.  Where it is longer than the intervals its length makes no
  difference, and the value `MaxHorizon` stands for all such lengths; `Tick` leaves that value, or keeps it.  The server may
  be started before `NO_TIMEOUT` or after it.  `EndOfPass` gives a time to wait only if an interval is due before
  `NO_TIMEOUT`, as `expireIntervals` does; otherwise `wait` is `None`, for nil.  In a function of an interval or a request
  the application does what it likes: `Register`, `RemoveInterval`, `SetServerState`.  `Ask` is the signal that
  `checkAbort` looks for.

## Runs

| Run | Instance | Shows |
|---|---|---|
| `hal_signal` | 2 threads, 2 signals, either host | no wakeup is lost; both hosts implement `TaskSignals`, liveness included |
| `exec_sync` | 3 tasks that lock, nesting up to 2; one of them sends, another serves and sends; 1 message | no stray `SINGLE` for `TLock` to take, hand-over in order, nobody forgotten, recursive mutex, `TLock` and `TSendMsg` return |
| `exec_services` | a client, a client that is also the server, 2 messages; a task with 3 signals and 2 ports, 2 tasks that reply; 3 tasks and an atom, 2 locks each | no lost wakeup, the answer returned is the one given, `Messaging`; every signal has one owner, no port is gone while somebody will signal it; exclusion unless an owner was read too late, an exact nesting count and no waiter forgotten even then; calls return |
| `exec_atom_race` | 3 tasks and the atom by itself | *violation*: two tasks hold the atom exclusively |
| `exec_requests` | 2 parents, memory for 2 tasks; 3 tasks, 2 handles each, versions 1 and 2, an internal version that comes and goes; a program that starts and ends | tags outlive their readers, no dangling task, exact task count; exact reference count, loaded once, what is given out is loaded and new enough; startup gives all or nothing and takes nothing down that is used; all requests, and `TEKCreate`, return |
| `exec_task_race` | tasks as above | *violation*: a failed task is handed to its parent |
| `time_device` | 2 tasks, waits of 0 to 2 units, a pass of up to 1 unit | `SINGLE` is quiet outside `TWaitTime`, a request is in one place, no signal means expired, the device task is there for its users and does not oversleep, waits return |
| `time_device_close` | the same | *violation*: the last `hal_close` can hang |
| `exec_library` | 3 pieces of memory, blocks of 1, 3 and 5 units, 3 nodes in 2 lists, tag lists of 3 items, all dates of 8 bits; requests of 1 and 2 parts, with bodies of up to 11 symbols and buffers of 5 | host memory has one owner, puddles are tiled and in order, a pool that gets memory serves; pools implement `Heap`, lists `NodeList`; both walks of a tag list agree; dates can be taken apart and composed; arguments arrive as they were sent, except where a separator is split |
| `lua_tasks` | a main program and 2 tasks; one of them receives, a queue of 1; a server with 3 ids, and 6 ids by themselves | parents outlive children, only finished tasks are freed; names lead to tasks that are there, no message is slept over; no id is given out twice, the check for abortion is never lost, no wait is without end before `NO_TIMEOUT` is near; calls return, and a server that is asked to ends |
| `lua_task_join` | families as above | *violation*: a child fails and `child:join` returns as if nothing had happened |
| `lua_main_name` | messages as above | *violation*: the main task loses its name |

A module's `TypeOK` is not in the runs but where a proof rests on it: a wrong type shows up as an
error of evaluation or in the properties that use it.

Bounds.  `MaxNest` bounds nesting, `MaxHandles` the handles of a task, `MaxDt`, `MaxLag` and `Delay` the times, `MaxHorizon` the time until `NO_TIMEOUT` (longer than any delay is enough, see `LuaServer`), `MaxQueue` the
messages in a queue, `MaxPudSize` the size to which a pool may adapt its puddles, `Others` allocations beside the pool, `MaxIds` and
`MaxNumbers` ids in use, `MaxBody` and `MaxPad` the requests; each cuts a
guard and nothing else.  `Receiver` bounds who is sent messages.  Two threads are enough for the signal modules because
a thread's state is touched by its owner and by signallers that do not
distinguish themselves; three atoms' users make a holder, a first and a second
waiter; three tasks on a lock give a queue of two, enough to serve the wrong
one, and its theorems hold for any number.  Two repliers and two ports of one task let a signal
be given away while another reply is under way.  Two requests of the time device are enough for a list with an earlier
and a later deadline and for a second request that arrives within a pass.  Two
parents and two tasks make requests meet in every list.  Three openers make a
module request, a waiter for it and a third task that opens or closes meanwhile;
there are two instances, so that a second load could be seen.  Startup has one caller, as in a
program; it starts and ends as often as it likes, and every `get` may fail.  `BufLen` stands for 8192; bodies and padding of every length up to more than a buffer
put separators, whole and in part, at every place in a buffer and across two.  With three ids one is taken by the
check for abortion, and one can be freed below another.  Six ids leave holes that the search of `freeId` has to pass
over.  `ExecLibrary` is checked up to the symmetry of lists and of nodes without a name; it claims no liveness.
Three pieces of memory hold a pool with a
regular and a large puddle; a puddle has room for free nodes on both sides of a block.  A main program and
two Lua tasks form every kind of family there is (two children, a child and a
grandchild), and their memory is used again.  Only one child receives messages in `lua_tasks`: what
the receiver does depends on no other receiver, and senders are all three tasks.

Deadlock is not checked, because every system may come to rest; that no call in progress
hangs is what the liveness properties say.  Tasks may all wait for a message, a Win32
thread may wait for a signal nobody sends, and so may every task of an atom that was
created and locked again (below); a task that can not be destroyed keeps its parents.
In `ExecModule` tasks may have all the handles they want, in `ExecLibrary` tag lists and dates have no steps and requests end, and in `LuaTask` the main
program ends.

Fairness.  Threads that can run do run (weak fairness of the steps of one
call).  Strong fairness stands for three further facts.  A thread that asks for a
mutex that is free again and again obtains it (`TimeDevice`: `DevLock`, `AbortIO`;
POSIX does not promise this, every scheduler in use provides it).  Users of a lock
or atom leave it again: at every nesting level they come to again and again, they
eventually unlock.  Where `exec_atom_race` has let two tasks in, that is not enough: they may take turns, and
`CallsReturn` claims nothing about an atom with such an owner.  Nor does it claim anything of writers, which readers may
overtake for ever, or of a task that waits for itself.  A server goes on taking and answering messages.  In `ExecTask`,
`SF(RequestsDone)` assumes that requests do not arrive so densely that the exec task
never finds its port empty (nothing in the code prevents that, the parents wait for their replies), and `SF(ReplyMod)` in `ExecModule` that it comes to look at
the second of its ports.  In `TekStart` the call and the two threads go on, and the application calls when it likes.
`SF(Finish)` in `LuaTask` is a demand on Lua code: a task that is not
joining, waiting or failing for ever comes to its end.  Without it there is no reason for
`child:join` to return.  In `LuaServer` the functions of the server and
the application return, and time goes on, although `NO_TIMEOUT` need never be reached (else every wait would end up
beyond it, and nothing would be claimed); nothing is assumed of clients.  `CallsReturn` says of it that a server that has to
end (`HasToEnd`: its state is set, or its task is aborted) ends, if its application does not set the state "run" anew, or
comes to wait for clients without end because nothing is due before `NO_TIMEOUT` (`WaitsForClients`).  In `LuaMsg` only calls are fair; a task that waits to destroy its name can be kept
from it by senders that come one after the other, because shared locks are granted while an
exclusive request waits, and nothing is claimed about it.

## Findings

1. `time_device_close`: `hal_close` joins the device task while it holds
   `hsp_DevLock`.  If the device task has been woken before the abort signal
   (every `hal_abortio` of a running request wakes it), it blocks on that lock and the
   join never returns.
2. `exec_atom_race`: `exec_unlockatom` sets `tatm_Owner` from
   `waiter->tsk_Request` after the reply; the waiter may already have written
   another request there.  A wrong owner can "nest" into a lock it does not hold.
3. `exec_task_race`: `exec_childinit` reads `tsk_Status` twice; a task that fails
   in between is counted as running and returned by `TCreateTask`.  Its destruction
   waits for the status "finished", which it never has.
4. `lua_task_join`: `child_sigjoin` waits for the reply and for the abortion signal, and
   looks only at the first if `TWait` returns both.  The abortion signal, by which a failed
   child (or anyone else) has asked the task to stop, is lost, and `child:join` returns.
5. `lua_main_name`: `tek_lib_exec_base_gc` destroys the atom `task.main` whenever a Lua state that has opened
   the library is closed, that of a child too.  From then on `Exec.sendmsg("main", ...)` finds nobody.

Others came up while modelling and have no runs of their own.

* `exec_newatom` records no owner, so a task that creates an atom and locks it again
  waits for itself (`SelfWait` in `ExecAtom`, an exception `CallsReturn` has to make).
* The device task reads the time before it drains its port, so a wait may end early by
  the duration of one pass (`NoSignalMeansExpired` in `TimeDevice` allows `MaxLag`).
* While a module is being loaded, `exec_requestmod` compares a request with the version
  that the first opener has asked for, because the opener's request stands for the module in the
  list.  A request for a newer version is refused although the module would do
  (`RequestRefused` in `ExecModule`).
* `exec_returnmsg` and `TPutMsg` read the port again after they have released its lock (`exec_mod.c:556`,
  `exec_api.c:702`).  A task that takes the message without waiting for the signal, or that uses
  `TWaitPort` and then destroys the port, frees what is about to be read.  `PortOutlivesSignal` holds
  for tasks that wait for the signal first, as `ExecUserPort` has them do.
* `exec_initport` keeps the signal it has allocated when the lock cannot be had (`lost` in `ExecUserPort`); `exec_createtask` keeps the
  task's memory when a later step fails ("leaked" in `ExecTask`), where `exec_CreateSysTask` frees it.
* `TCreateMemManager` for pooled memory fails in the default build and leaves the pool it has made (`lost` in
  `ExecMemory`); what a manager's user has not returned when the manager is destroyed can no longer be freed.
* `exec_staticrealloc` moves the last block of a memheader even when it shrinks, and may therefore fail to shrink.
* `TForEachTag` returns false for a list that ends in a "more" without a list, and stops a list around it
  there; `TGetTag` goes on.  `TExtractTime` never reports a value out of range: the constants it compares with are unsigned,
  against the comment above it (`teklib.c:495`).
* A name stays in place while its task is closing: a message may be put to a task that will not read
  it (`NamesAreAlive` says that the task is there, not that it listens).
* A child that fails aborts its parent even if it was started with `abort = false`
  (`Fail` in `LuaTask`; `exec_lua.c:703` says otherwise); that only keeps the hook away, and any
  call that waits will still notice.
* `FIFO:readpatlen` looks at as many characters as are to be read and the length of the pattern beyond, but is
  content with what there is when the buffer ends before (`fifo.lua:127`).  If less than a separator was left of
  the buffer before, and the separator begins at the end of the 8192 characters to be read, its first part is returned as
  contents; the separator is not recognized, and the argument goes on into the next part.  `ArgumentsAgree` says when
  this happens (`IsSplit`), that it happens then, and that the arguments are right in every other case.
* An argument without contents does not appear in `Arguments`, because nothing can be read from an empty buffer.
* `removeInterval` does not keep the function from being called once more, if it is due in the same turn.  A
  function of `registerOnce` that has removed itself and registered another interval loses that, because its id
  is the same (`Return` in `LuaServer`).  A delayed `setServerState` stays an interval for ever.
* `expireIntervals` compares dates with `NO_TIMEOUT`, which is the 18th of May, 2033.  Once the next interval is due on that day or later, it
  returns nil in every turn, `socket.select` waits without end, and neither the state of the server nor an abortion is
  looked at until a client comes (`server.lua:145`; `Beyond` in `LuaServer`).  `IntervalsAreKept` and `CallsReturn` hold until then,
  and say so.  A clock that is put back has the same effect (a time to wait that is negative); `LuaServer` has a clock that only goes on.
* A script file that can not be loaded ends a task without an error: `luastatus` stays 0
  (`Finish` in `LuaTask`).  `exec.run` does not close the child's Lua state when `TCreateTask` fails.

## Proofs

Each theorem holds for every value of the constants that satisfies the assumptions that are named; TLC evaluates
these in every run, so they are not empty.  None of the invariants the runs check is inductive as it stands.  Each proof
module states inductive invariants (`IInv`, `PortInv`, `SyncInv`, ...) whose parts have names, has one lemma for each
action, and combines them.

**Signals** (`HalProofs`; any threads, any signals).

* `SignalInvariant`, `NoLostWakeupHolds`: a thread sleeps over a signal it waits for only while somebody is about to wake it.
* `ImplementsTaskSignalsSafety`: every step of either host is a step of `TaskSignals` or none.

On POSIX `NoLostWakeup` and the types are inductive, because the mutex makes test and sleep one step.  On Win32 a
timed wait is still to look at the clock after it has tested its signals: `SleeperIsCalled` extends the claim to that
moment, and `ClockIsForTimed` says that only timed waits get there.

**Locks and ports** (`ExecSyncProofs`; any tasks, messages and nesting; `NoneAssumption`, `NestAssumption`,
`MemberAssumption`, `NoPortAssumption`: `None` is none of the things it is compared with, and clients and servers are tasks).

* Of the lock by itself: `LockTypeCorrect`, `LockInvariant`, `InsideOwnsHolds`, `WokenOwnsHolds`, `WaiterIsServedHolds`,
  `HandOverInOrderHolds` and the refinement `LockImplementsMutex`.
* Of ports by themselves: `PortInvariant`, `PortNoLostWakeup`, `SendReturnsAnswerHolds`, `AnswersAreInPlaceHolds` and the
  refinement `PortsImplementMessaging`.
* Of both with the same tasks: `SyncInvariant`, `SingleIsQuietHolds`, and again `SyncInsideOwns`, `SyncWaiterIsServed`,
  `SyncHandOverInOrder`, `SyncImplementsMutex`, `SyncNoLostWakeup`, `SyncImplementsMessaging`.

A woken waiter enters without looking at the lock, so one has to know that between the signal and its entry
nobody else has touched it: `WokenIsFirst` (its depth is 0 and the count is 1) and `OwnerIsActive` (the owner is
inside or has been signalled; the count is 0 exactly when there is no owner).  `QueueIsConsistent` ties
`tlk_WaitCount` to the list and says that whoever is in the list sleeps and has no signal.  The mutex theorem
maps each action to `Enter`, `Leave` or a stutter.

`TSendMsg` relies on its sync port being empty when it begins.  This needs the way of the one message that can come there:
`MessageInOnePlace` (in one queue, once, or with one task), `SyncPortIsForCur` (a request that will be answered at a sync port
is the one that its task is sending), `QuietBefore` (until then there is neither a message at the port nor a signal, sent
or about to be) and `OneSignalForReply` (then there is exactly one message and one signal, and the signal is still to
be sent, pending or taken).  `OneCall` ties these to where a task is.  Sleeping in `TWaitPort` is safe because the signal
that follows the critical section is owed by a task that is at `notify`.

That ports implement `Messaging` needs one more invariant, `AnswersAreInPlace`: what is queued is a request in a user port, or an
answer in the port it was to be returned to.  `StageIs` reads the abstract stage of a message off the place that `MessageInOnePlace`
gives it.  A step concerns one message, and `OthersKept` says that `Messaging` sees nothing of it at the others; so each action is compared
with its abstract one at that message and at one inbox.  `TGetMsg` is `Take` if a request comes first and `Collect` otherwise.
An inbox is what `Select` leaves of a queue.  What it leaves after an append, a removal of the first and an insertion is shown in
`ListProofs` by induction over the length of the queue, in the one form the provers can follow: a length for which a lemma fails would
have a least one below it (`LeastNat`, from the library's theorem that `<` is well-founded), and no theorem with an operator
as a parameter is needed.

Of each other the components need little.  The lock needs that a task that comes to `TLock` has no signal `SINGLE` (`IdleIsQuiet`),
which `PortInv` implies; ports need that the lock signals only those that wait for it.  So `SyncInv` is the conjunction of `LockInv` and `PortInv`,
and the rest is that a step of one leaves alone what the other relies on (`LockStepPortInv`, `PortStepLeavesWaiters`).

**Signals and ports as resources** (`ExecServicesProofs`; any tasks, ports, messages and signals; `ConstantsOK`: signals
are numbered, and `None` is something else).

* `UserPortInvariant`, and of the module the run checks `ServicesSignalsAreOwned`, `ServicesPortOutlivesSignal`.

That a port is there when `exec_returnmsg` signals it follows from where its message is: `OneMessageOut` and
`MessageIsSomewhere` (a port waits for at most one message, which is with its server or alone in its queue),
`SignalledOnce` (one server is about to signal it, and the signal is not pending yet) and `WaitsForMessage` (whoever has taken the signal finds
the message, and nobody will signal again).  `LowestIsFree` says that `exec_allocsignal` finds a free signal.

**The atom** (`ExecServicesProofs`; any tasks and nesting; `TaskAssumption`, `BoundsAssumption`).  No assumption is made about when
the exec task reads the owner: the theorems are about all behaviours, those of the run `exec_atom_race` included.

* `AtomIsConsistentHolds`: the count is the number of locks and every waiter is queued behind a holder, also when the wrong task has been made the owner;
* `ExclusionInTimeHolds`: an exclusive holder is alone unless its request was overwritten before it was read.  With
  `exec_atom_race`, where it was, this says that this one race is all that can break exclusion;
* `AtomInvariant`, from which both follow.

`ExclusiveHasHolder` says that an exclusive atom is held, and, if no request was overwritten, by one task (`OneHolder`), which allows
for an owner that is not recorded (an atom just created) or not recorded yet.  `OwnerIsNext` says what the exec task is about
to read.  A wrong owner can do no more than hold the atom as well: the last of all locks that are held makes an end of it, which is why
the history variable is reset there.  `SharedHasReaders`, `FreeIsFree` and `Waiting` are the other states.
The nest count is the sum of what the tasks hold; a sum over a set cannot be reasoned about here, so it is the size of the set
`LocksHeld`, which has one member for each lock of each task.  `LocksAdd`, `LocksRemove` and the lemmas about the readers
among the waiters say how an action changes that size.

**The time device** (`HalProofs`; any tasks and times; `NoneAssumption`, `BoundsAssumption`).

* `DeviceInvariant`, `RequestInOnePlaceHolds`, `NoSignalMeansExpiredHolds`, `DeviceIsAlertHolds`.

Expiry and abort both reply to a request, and a signal follows the reply: `ReplyComesOnce` says which of them has or will send it.
`TimeIsKept` bounds how early an answer may be, by what a request has still to wait in each of its places.
`DeviceIsWoken` says that the alarm is set, and that a queued request has been, or is about to be, announced.  That the device task is there
rests on `UsersAreCounted` and `LockHasHolder`: only the last user tells it to end, and holds the lock until it has.

**The services together** (`ExecServicesProofs` again).  `ServicesNoLostWakeup`, `ServicesSendReturnsAnswer`, `ServicesImplementsMessaging`,
`ServicesSignalsAreOwned`, `ServicesPortOutlivesSignal`, `ServicesExclusionInTime` and `ServicesAtomIsConsistent` state the same of the module that the run
`exec_services` checks: its behaviours are behaviours of the three parts.

**Tasks** (`ExecRequestsProofs`; any parents and tasks; `NoneAssumption`).

* `TaskInvariant`, and of the module the run checks `RequestsTaskInvariant`, `TagsOutliveHolds`, `NoDanglingTaskHolds`, `TasksAreCountedHolds`.

A parent may return from `TCreateTask` once its request is answered; that the thread has read the tags by then follows from
`RequestInOneList` (a request is in the port, then in one list of the exec task, and the parent waits as long as it is in
either), `ScanIsOfList` (what the exec task is still to look at in a pass has not left the list) and `StatusIsOfThread` (what
the task's status says of its thread).  `OneOwner` and `TaskIsKnown` say that a task belongs to one parent, and that it is in
the list of tasks exactly when a parent has it, or has given it back and the thread has not ended.

**Modules** (`ExecRequestsProofs`; any tasks, memory and versions; `ModuleAssumption`).

* `ModuleInvariant`, and of the module the run checks `RequestsModuleInvariant`;
* `RefsAreHandlesHolds`: the reference count of a loaded module is the number of its handles;
* `OpenedIsLoadedHolds`: a module is loaded once at a time, and who is given it is given what is listed and new enough.

The count is right only because a request is in one place: `CallInOnePlace` (in one port, or with a load request),
`WaitersAreOpening` (who waits with a load request waits there once, and has not asked for a newer version than its first
opener) and `AnswerPortIsKept` (the caller's reply port comes back from where it was kept).  `ModuleInOneState` says that
either nothing is known of the name, or it is being loaded, or its module is listed; but the module of the last close may
still be in memory then, and the name be opened again before it is unloaded.  That it is unloaded before it is loaded once more is
`UnloadComesFirst`: both requests are in the ramlib task's port, in this order.  `ReferencesAreListed` counts:
`References(x)` is the set of handles, given out or on the way, and each action adds one, removes one, exchanges one
for another, or replaces the first opener's by all openers'.

**Lua tasks** (`LuaTaskProofs`; families of any shape and depth; `RootAssumption`, `NoneAssumption`).

* `TaskInvariant`: the type invariant, and the inductive invariant of which it is part;
* `ParentOutlivesHolds`: a parent has not gone beyond `lua_close` while it has a child;
* `OnlyFinishedIsFreedHolds`: a step that frees a task frees a finished one, without children;
* of the module the run checks, `TasksFamilyInvariant` and `TasksParentOutlives`.

`ParentOutlives` does not say why the joining task may free what it frees.  `FamilyIsTree`
adds that unused memory has no parent; `JoinsOwnChild` that whom a task joins is its child;
and `SingleIsReply` that the signal `SINGLE` means that the request was answered and
the child has finished.  Aborts can not break it, because `JoinAborted` leaves the request out
and waits on.  Steps that only move a task to another stage share one lemma, `MoveIInv`.

**Messages to Lua tasks** (`LuaTaskProofs`; any tasks, names and lengths of queues; `MessageAssumption`: a name is neither a task
nor `None`).

* `MessageInvariant`, and of the module the run checks `TasksMessageInvariant`;
* `NamesAreAliveHolds`: whoever has found a task by its name finds it there until the message is put;
* `NoLostMessageHolds`: no task sleeps over a message.

`ReadersAreSending` and `WaitersAreEnding` say who holds a name's atom and who waits to have it alone: a sender on its way, and a task
at the end of `lua_close`. As the atom cannot be destroyed while it is held, the task stays.  That it is the right atom
is `NamesAreOfTasks`: a task's own name leads to it until it has destroyed it.  The name "main" is the exception, and the
reason for the finding `lua_main_name`: it is taken by any task that opens the library when it is free, so
that a name may lead to a task that has another one, too.  Who uses a handle and no name is the task's parent or its child,
and `SendersFamily` keeps either there.

**The web server** (`LuaTaskProofs`; any number of ids and any delays; `ServerAssumption`: `None`, for nil, is not a
number, and `MaxHorizon` is longer than every delay, as `LuaServer` says it is).

* `ServerInvariant`, and of the module the run checks `TasksServerInvariant`;
* `IntervalsAreKeptHolds`: ids are not given out twice, the check for abortion is kept, no wait is without end unless all
  that is left is due at `NO_TIMEOUT` or later.

`AllocIsSound` and `FreeIsSound` are the lemmas about `allocId` and `freeId`: all ids below the next are in use, and the bound
is not below any that is.  The minimum and maximum the code searches for exist because sets of numbers have a least one
(`LeastInt`, from the library's theorem that `<` is well-founded).  `select` without a timeout would be the result of an interval that is overdue
by more than the turn has taken, or of one that is due at `NO_TIMEOUT` or later, which `DeadlinesAreSound` follows from
the end of the pass through the wait, where both come nearer together: `DueIsAhead` says that what is not going to be called in this turn is ahead of its beginning.  An
interval that was removed, and registered again under the same id while its function was due, is another one, which `kept` tells
apart: the call does not renew it, so it has to be ahead by itself.  `DueIsSound` says that `registerOnce` never removes the
check for abortion.

**Lists** (`ExecLibraryProofs`; any finite set of nodes, any lists; `ListAssumption`: nodes, heads and tails are different
memory, and `None`, for a null pointer, is none of them).

* `ListsInvariant`: the pointers of each list, in both directions, are those of a sequence of nodes, and no node is in two;
* `ListsAreNodeLists`: what each function of `teklib.c` does to the pointers, and returns, `NodeList` does to sequences.

`Links` are the sequences that the pointers represent (`Represents`): `Joins` says so of two neighbours at a time, head and tail
being places of a list like its nodes (`At`), `Ends` that nothing is before a head and behind a tail.  What a program can
see of a list is the way along the pointers, `Chain`.  That it finds the sequence is shown without induction over
data: a function that satisfies the definition of `Chain` is given (`Walks`, `IsWay`), and two that do are equal, or
there would be a least place where they differ.  The operations come in four kinds, one lemma each: a node is put between two neighbours
(`Inserted`), taken from between them (`Removed`), exchanged with the one before it (`Swapped`), or the list is emptied
(`Cleared`); that the neighbour may be a head or a tail needs no case of its own, as in the code.

**Memory** (`ExecMemoryProofs`; any pieces of memory, alignment and sizes; `AlignAssumption`, `SpanAssumption`,
`RoomAssumption`, `NamesAssumption`, `PoolSizeAssumption`, `FlagsAssumption`: pieces of memory are numbered and have room for the blocks
and puddles they are asked for, nobody asks for nothing, and a fixed pool has room for a free node).

* `MemoryInvariant`, `MemoryIsOwned`, `PoolMemoryIsSound`, `PoolAlwaysServes` and the refinement `PoolsAreHeaps`;
* of the module the run checks, `MemoryIsPart`, and with it `LibraryMemoryIsOwned`, `LibraryPuddlesAreSound`, `LibraryPoolServes`,
  `LibraryPoolsAreHeaps` (`ExecLibraryProofs`).

`MemIInv` has a part for each layer.  `Books` says of the managers that every piece of memory has the size its manager has asked for,
and that a message manager's list has what it has handed out; `Owned`, who refers to a piece, where a pool and its puddles come from the
same managers as everything else.  `Ready` is the state of a pool of either kind.  `Sound` says of one puddle that its free nodes are a row of
aligned pieces that do not touch, and that `tmh_Free` is the number of the bytes in them: as with the atom, a sum is the size of
a set, and each operation adds or removes a run of it (`Run`).  `Tiled` relates puddles and blocks: a byte of a puddle is
free or in a block, never both.  `Ordered` is the list of puddles with the large ones last, and `Used` says that none is kept
empty, and that a large one is filled by its block; therefore the search may stop at the first large one.  `Growing` keeps the threshold
at most the size of a puddle, from which `PoolServes` follows.

The proofs go from the row of free nodes upwards: taking from a node and giving one back, with or without its neighbours
(`HasLess`, `HasMore`), the memheader (`Taken`, `Given`), the ways in which `exec_staticrealloc` resizes or moves a block (`Resized`), one puddle
among others (`Replaces`), the pool (`Allocated`, `Released`, `Reallocated`), and the host's memory.  Contents are kept because a block
that is moved is copied to memory that is free and the link and size of a free node are written to memory that is free; so each
step of a pool is one of `Heap`.  The provers do not multiply well: that sums and roundings of sizes are multiples of the alignment is
stated once (`MultipleSum`, `Rounded`, `RoundedDown`).

Only model-checked:

* All liveness (`CallsReturn`, `RequestsReturn`, `WaitTimeReturns`, and the fairness part of `ImplementsTaskSignals`), which
  is out of the proof system's reach, as `ENABLED` is.
* `TagsAndDatesAgree` and `ArgumentsAgree`: what the recursive functions of `TekTags`, and the loops of `Fifo` and `CgiPost`, compute
  for every input.  Their modules are checked over all inputs of their bounds.
* `AllOrNothing` of `TekStart`.  The module has no constants and finitely many states, all of which TLC visits: the run is the proof.

## Not modelled

* The commands of the time device that only read a clock, waits without a timeout, and the Win32 device.
* Port hooks (nothing sets one), reply failure codes beyond the three verdicts.
* What `ENABLE_LAZY_SINGLETON` adds around `TEKCreate` and the last `TDestroy`.  It is on in the default build (`config:96`), and the
  tasks of the Lua library need it (`exec_lua.c:49`): a global handle with a lock, by which the first thread creates the instance
  and the Lua state of each further task is given its own task.  `TekStart` is what the first thread does under that lock.
* `ENABLE_ADVANCED_MEMORY_MANAGERS`, which no configuration sets.
* Copied strings: the string functions of teklib, arguments and results of Lua tasks; `Exec.sendport`, whose
  ports nothing in the repository creates.
* The web server with copas, its sockets' registration, sessions, and the text of requests and answers.
* Host wrappers, which succeed or fail; text processing in C and Lua.

`PROJECT.json` gives the reason for each component.

## Plan

The modules above cover the concurrent core, the memory below it and the Lua layer above it, and the theorems every
safety property that the runs check but `AllOrNothing`, `TagsAndDatesAgree` and `ArgumentsAgree`.  What could follow is

1. of `CgiPost`, that `Read` neither loses nor repeats a symbol, for every length of a buffer;
2. the Win32 time device, which has the same commands over a different wait.
