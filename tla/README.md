# zsystem: models and proofs

zsystem is a small C library (`src/lib/zslib.c`, interface `src/include/zsystem/zslib.h`)
with C++ classes on top (`src/include/zsystem/*.h`, header only) for Linux: threads, System V
semaphores, a message loop, streams over pipes, files and sockets, a wait function over streams
and timers, a server and child processes. The programs under `src/example/` are its only
clients in the repository and its only tests.

This directory holds TLA+ models of its parts, TLC configurations, and proofs for TLAPS.
`PROJECT.json` maps every definition to the lines it models and every hazard to the properties
that watch it. File names without a directory below are those of `src/lib` and
`src/include/zsystem`.

## 1. Inventory

| Component | State | Operations | What makes it correct | Modelled in |
|---|---|---|---|---|
| Semaphore (`zslib.c` 470-611, `zssemaphore.h`) | a SysV set, a heap cell `*references` shared by all duplicates of a handle | create, duplicate, destroy, get, set, op (with timeout) | the set lives exactly as long as a handle; a blocked op survives the destroy of the handle it was made with | `ZsSemaphore`, `SemaphoreClients`; `SemaphoreProofs`, `SemaphoreClientsProofs` |
| Message loop (`zslib.c` 359-463, `zsmessageloop.h`) | list of messages, flag `aborting`, semaphore 0 (mutex) and 1 (counter) | create, post, abort, run, end | mutual exclusion, order, nothing lost, an abort handles what was accepted before and ends the loop, everything freed once and not used after | `MessageQueue`, `ZsMessageLoop`; `MessageLoopProofs` |
| Threads (`zslib.c` 328-352, 1570-1826, `zsthread.h`) | list of threads, `threads_running`, per thread a mutex, a condition, a count of waiters | `zs__execute`, create, execute, wait, abort, available, pause, resume, start, cleanup | the process ends after the last thread and then at once; no thread runs before its execute; a wait that returns means the end; every live thread is found in the map | `ZsThreadMap`, `ZsThread`; `ThreadMapProofs`, `ThreadProofs` |
| Streams (`zslib.c` 971-1480, `zsstream.h`) | two descriptors, bits `closed`, functions per kind, `reader_count`, `writer_count` | create (pipe, system, local, TCP, UDP), state, read, write, close a side, destroy; copy and drop of `ZSReader`, `ZSWriter` | a descriptor is open exactly as long as its side has handles, is never closed twice, readers and writers notice the other end's close | `ZsStream`; `StreamProofs` |
| Wait (`zslib.c` 1847-1977, `zswait.h`) | numbered readers and the earliest timer | create, add a timer, add a reader, do | the number that is returned is that of the first ready reader, or of the earliest timer | `ZsWait`; `ServerProofs` |
| Server (`zslib.c` 626-970, `zsserver.h`) | socket, abort pipe, wait set; per datagram a stream with a buffer | create (local, TCP, UDP), run, abort; read and close of a datagram's stream | every connection or datagram is handed to `on_connect` once and in its turn, an abort ends the server and does not meet its end, a datagram is read to its end | `ZsServer`; `ServerProofs` |
| Process (`zslib.c` 1491-1561, `zsprocess.h`) | pid, descriptors of parent and child, the streams of the child | execute, terminate, kill, the class's constructor, abort and deletion | the child gets exactly the two ends meant for it and nobody else's, the other ends see the end of file, the call ends with the child, an abort hits this child only | `ZsProcess`; `ProcessProofs` |
| Examples (`src/example`) | | clients of the above | | as the clients in the models |

How they interact:

* The message loop's mutex and counter are the two semaphores of one set; each
  `zs__semaphore_op` works on a duplicate of the handle, so posting and the loop change
  `*references` concurrently. `ZsMessageLoop` EXTENDS `ZsSemaphore`.
* The message loop, the server and process objects run in a thread of the thread component.
  Their abort functions are called by `zs__thread_abort` with `thread_map_mutex` locked.
  In `ZsMessageLoop` this is `mapOwner`: one abort at a time, and the loop's thread does not
  leave the map while one is in progress.
* The server waits for its listening socket and its abort pipe with the wait component:
  `ZsServer` EXTENDS `ZsWait`, and has a `mapOwner` too.
* A process takes one end of each of two pipes; calls that fork at the same time copy each
  other's ends, and the locked mutexes and waiters of the thread component (`ZsProcess` has those that
  the cleanup of a thread meets).

What is hard in it: hand-made reference counts without locks, mutexes locked by one thread and
unlocked by another, a condition variable that is waited for without a look at its condition,
memory that a thread frees at its end while others still wait for it, a singly linked list with
a wrong test in its removal, system calls that block with a lock held, poll and read that look
at two different moments, descriptors that are closed in pieces.

## 2. Modules

`ZsSemaphore` (no Next; used by the two below). A call of a thread is a chain of stages: `inc`
(`++*references`), `kernel` (semtimedop), `dec` (`--*references` and, at 0, the removal of the
set and the free of the cell). `Smp = FALSE`: `++`, `--` are the one instruction that the -O2
x86 build has, on one processor. `Smp = TRUE`: load and store are apart, and the test for 0
uses the register or reads the cell again. `Short` narrows `int a_value` to the kernel's
`short`; `ShortMax` is SHRT_MAX and SEMVMX, `RefMod` is 2^32, both small in the instances.
An error of semtimedop other than EINTR and EAGAIN repeats the call (`KernelError`): the thread
stays in `kernel`. A use of freed memory goes on with the old contents or ends the process.

`SemaphoreClients`: threads with `ZSSemaphore` objects: copy, Op, Set, destructor, by any thread on
any object. `via` is the handle that a call still reads, until it has counted its duplicate; from
then on anybody may destroy that handle, also the last one, while the operation is blocked. `raced` is a history variable: two threads were between the load and the test of
`*references` at the same time.

`MessageQueue`: what a message loop promises: a queue open until it is aborted, one message in
the consumer's hand at a time, first in first out, a finish only after an abort with nothing
left. `Safety` is what may happen, `Fairness` adds that the consumer handles and finishes.

`ZsMessageLoop`: `BeginPost`, `Add`, `Unlock`, `Return` are `zs__messageloop_post`;
`BeginAbort`, `Abort`, `Unlock`, `Return` are `zs__messageloop_abort`; the `Loop...` actions are
`zs__messageloop_run` and the end of its thread. `accepted` and `handled` are history variables.
The response may post and abort; so may `after_abort`. `AbortLast` says whether clients use
the loop after they aborted it (the library frees it then, and no client can know when).

`ZsThreadMap`: the list of `zs__thread_map` with its blocks, next pointers and the handle field
of every struct, so that a walk may meet a freed or reused block, or run in a circle.
`zs__thread_map_remove` is modelled as it is written (`a_list->next != a_entry`).

`ZsThread`: one action per section of `zs__thread_create` (count; insert with the thread's mutex
locked; `pthread_create`, which may fail), `zs__thread_execute`, `_available`, `_abort` (the pthread_cancel
branch, and the abort function of a thread whose object or struct is gone; what an abort
function does otherwise is the clients'), `_wait` (find; lock
with `thread_map_mutex` still held; sleep; return), start, cleanup (map, count, broadcast, free)
and `zs__execute`. `Careful = TRUE` restricts the clients: the creator makes the first execute
(others may execute again, up to `MaxExecutes`), they wait only for their own threads, see the end of one before they create the next or
end themselves, never use a handle after they saw the end, and abort only threads with an abort
function. With `Careful = FALSE` any thread calls anything on any handle.

`ZsStream`: `kind` selects the state and close functions (`pipe`; `input`, the read end of a
pipe of another process; `local` and `tcp`, sockets connected to a server). `Create` and
`CreateFails` are the creators of `ZSStream`; a TCP connection whose peer closed is not hung
up for poll until it is reset (`HungUp`). `PollReader`, `Read` are
`ZSReader::operator>>`, `PollWriter`, `Write` `ZSWriter::operator<<`, `Copy`, `Drop`,
`CloseSide`, `Last` the handle counts down to `~ZSStream`. `table` is the process's descriptor
table: `OpenOther` takes the lowest free number, as the kernel does.

`ZsWait`: `AddTimer`, `AddReader` build the struct as `zs__wait_add_timer` and
`zs__wait_add_stream_reader` do, `Blocks` and `Returns` are `zs__wait_do`.

`ZsServer`: `Create` are the steps of `zs__server_create_*`, each of which may fail. `Select`,
`Accept`, `Called` are the loop of `zs__server_run`, with `Receive` for `Accept` that of
`zs__server_run_dgram`; `ReadBuffer` is the client's read of a datagram's stream. `Destroy`, `Free`,
`Leave` its end and the cleanup of the thread; `BeginAbort`, `AbortWrite`, `AbortReturn` are
`zs__thread_abort` with `zs__server_abort`. The callback may abort the server and use the
functions of threads. `Connect`, `Withdraw` are other processes and the kernel.

`ZsProcess`: every process has a table from numbers to what they are (an end of a pipe, a
standard file, free). `Create` is the constructor of `ZSProcess`, or a client's own pipes for
`zs__process_execute`; `Fork` copies the table; `Store`, `CloseFar`, `Wait` are the parent,
`Exec` (close what is not kept, two dup2, execv) and `StrayExit` (execv failed) the child, which
is `astray` then. `Delete`, `Leave` are the end of the thread in the parent. `Lock`, `Unlock` are what
the functions of threads do with `thread_map_mutex`, `threads_running_mutex` and the
`waiting_threads_mutex` of a thread; who has given the last one back in `zs__thread_wait` waits for
the thread (`awaited`). A child that is forked while one of the three is taken that its cleanup
needs (`Needs`), or while its thread is waited for, never gets through its cleanup (`copied`). Under
`thread_map_mutex` `Abort` sends the signal: to the child, to the whole group
(`TerminateGroup`), or through a deleted object (`AbortDeleted`).

`*Proofs`: the theorems of section 4. Each EXTENDS the module it is about. `SemaphoreProofs` holds
the lemmas on the stages of semaphore calls, `ThreadMapProofs` those on a walk over the list of
threads; the wait object is part of `ServerProofs`.

`MC*`: constants for TLC. Operators named in a comment as "Mutant of" are faulty variants of
the operator beside them; no specification uses them.

## 3. Runs

| Run | Instance | Shows |
|---|---|---|
| `sem_up` | 2 threads, 3 handles that either uses and destroys, values 0..3, 16-bit-like wrap at 8, wrong ids; interruptible counts | until two threads change the count at the same time it is exact, the set is never removed in use, also not under an operation whose handle is gone, and always in the end: that race is the only way to go wrong |
| `loop_up` | loop, 2 posters (one message, and two), the loop posts and aborts itself, or a poster aborts; one processor; SEMVMX = 2 | `Tokens`, `InOrder`, memory safety, no leak; an aborted loop that does not end is stuck with the semaphore full; below that the abstract queue with its liveness |
| `loop_smp` | interruptible counts, posts after the abort, two aborts | mutual exclusion, drain and the abstract queue's safety hold whatever happens to the set and the memory |
| `thread_careful` | 3 threads, 3 blocks, careful clients, one thread may be executed twice, any `pthread_create` may fail | exact map, no run before the execute, join means end, freed memory in two situations only, no wake-up lost but by the second execute, no deadlock on the map |
| `thread_any` | 3 threads, any client, any `pthread_create` may fail | `zs__execute` is only woken by the end of the last thread |
| `stream_up` | 2 threads, 2 handles a side, 3 lines, buffer of 1, 4 kinds, failed connections, 3 descriptors | descriptors and struct follow the handles, nothing closed twice, only a failed local connection leaves a descriptor open; readers and writers go on when the other side goes, but for a half-dropped socket and a closed TCP connection |
| `server_up` | TCP and UDP, a client and a callback that abort, 4 connections, 2 descriptors, a backlog of 2, connections that vanish, datagrams of length 0 and 3 with a buffer of 2, creations that fail | no connection is lost or overtaken; nobody reaches a server whose creation failed; datagrams are read to their end; a single abort never meets closed or freed things; it ends the server but for three named exceptions; the wait function against its reference for all of up to 4 registrations |
| `process_up` | 2 calls at once, clients with their own pipes and with `ZSProcess`, closed standard files, fork and execv that fail, one mutex that is taken, a thread that is waited for, aborts | no child has a descriptor that is not meant for it, each pipe is at its number but for one collision of dup2, the other sides see the end of file, a call ends with its child but for a stray child forked under one of three mutexes or with a waiter, aborts miss in two situations only |
| `loop_race` | violation | on more than one processor an update of `*references` is lost and the loop of `example/messageloop/c` never ends (zslib.c:494) |
| `thread_last` | violation | the last thread may signal before `zs__execute` waits, which then waits for ever (zslib.c:344) |
| `thread_map` | violation | a thread that ends while newer threads than it exist cuts others off the map; they cannot be executed (zslib.c:1818) |
| `process_reader` | violation: `ZSProcess` with a reader, as in `example/process/cpp` | the constructor closes the write end of the pipe before the fork, and the program runs without an output (zsprocess.h:54) |

Bounds. All of them are constants named "bound" (`MaxPosts`, `MaxAborts`, `MaxExecutes`,
`MaxLines`, `MaxHandles`, `MaxConnects`, `MaxRegistrations`, `MaxLocks`) or the finite sets. Two semaphore clients suffice for every
interleaving of two counts, and for one to destroy the handle the other is blocked with; three handles
leave two others then. The message
loop needs two posters for their order and three messages for a queue longer than one beside a
message in hand; what depends on more threads is proved for any number of them. Three threads
are the least with which the list has an entry that is neither first nor last. `Capacity = 1`
makes a pipe both full and empty; with three descriptors each number of the stream can be given
out again. With two descriptors and four connections `accept` both succeeds and fails. Two timers and two
readers in every order are the least with which every branch of the wait functions is taken. A
buffer of 2 with datagrams of 0 and 3 has an empty, a cut off and a piecewise read one. Two calls
are what a child needs to inherit somebody else's ends; six numbers hold the standard files and
two pipes (`Place` assumes a free one: `pipe()`'s result is not looked at, zslib.c:995, and a
process without free numbers is not modelled). One mutex is taken once (`MaxLocks`): each of
them alone is enough to block a child, and a wait leaves its thread in `awaited`.
SEMVMX = 2 lets the queue of `loop_up` be below the limit and at it. `sem_up` stops at the first
race (`Unraced`); what follows it is `loop_race`'s subject.

Fairness. The scheduler runs every thread that is inside a call of the library, and the loop's
thread (weak fairness of one thread's next step: `Go(t)`, `RunLoop`, `Library(t)`, `Step(t)`,
`RunServer`, `Abort(t)`, and `Proceed` of processes, which is one weak fairness for all calls, children
and locked mutexes together: no step of `ZsProcess` can be repeated for ever, so that none of them is
left enabled and not taken; the program that a child executes need not end).
Weak fairness is also assumed of the return of the response function and of `on_connect`, a duty of the client. Nobody
is obliged to make a call. The kernel's semaphores and mutexes are not assumed to be fair:
a P or a lock that is enabled now and then only may starve. `thread_last` additionally lets every
thread's function return (`EndingSpec`), because its claim begins when there is no thread left.

`CHECK_DEADLOCK FALSE` is set where the system may really stop: clients that have posted all
they may, handles that are all gone, threads that all ended. The liveness properties say where
it must not.

## 4. Proofs

Every invariant of the passing runs is a theorem `Spec => []...`, for all values of the constants
that the modules' assumptions allow: any threads, handles, descriptors, sizes and bounds. The
assumptions say only that the sets of threads are finite, where they are counted, that
special values are apart, and that there are fewer handles and threads than an unsigned int counts.

| Module | Theorems | Inductive invariant |
|---|---|---|
| `SemaphoreClientsProofs` | `TypeCorrect`, `CountIsExact`, `NeverRemovedInUse`, `RemovedByTheLast` | `Inv` |
| `MessageLoopProofs` | `TypeCorrect`, `MutualExclusion`, `NothingOverlooked`, `OrderKept`, `AbortDrains`, `ImplementsQueue` | `Inv`, `OrderInv` |
| | `UsedBeforeFreed`, `SetRemoved` (if `Careful`) | `CarefulInv` |
| `ThreadProofs` | `TypeCorrect`, `LastThreadEnded` | `Inv` |
| | `CarefulMap`, `CarefulLife`, `CarefulMemory` (if `Careful`) | `CInv` |
| `StreamProofs` | `TypeCorrect`, `OpenWhileHeld`, `NothingRobbed`, `FreedUnused` | `Inv` |
| `ServerProofs` | `TypeCorrect`, `SingleAbort`, `InTurn`, `ReadToTheEnd`, `WaitFindsTheFirst` | `Inv` |
| `ProcessProofs` | `TypeCorrect`, `OnlyItsOwnEnds`, `PipesInPlace`, `AbortsOfTheGroup` | `Inv` |

Two groups have a hypothesis, each called `Careful`, because without it the code does not have
the property. In `ThreadProofs` it is the constant that makes the clients keep the rules listed
under `ZsThread`; the run `thread_map` shows a client without them that destroys the map, so the
hypothesis is a limit of the library, and `thread_careful` checks that it is
satisfiable and leaves behaviours. In `MessageLoopProofs` it says that the abort is the clients'
last call (the library frees the loop then, whoever still posts), and that `++` and `--` are one
instruction (`loop_race` is what happens otherwise); `loop_up` is such an instance. Everything
else holds for all clients, and for `Smp` either way.

The arguments.

*Semaphores.* `*references` alone is not inductive: with `Smp = TRUE` it is compared with what a
thread has in its register. `Inv` says that the thread in the middle of an update has
loaded the current value (`Counted`), that there is one at most until `raced` is set
(`~Overlap`), and that set and cell are there exactly while a handle or the end of a call needs
them. `CallsMade` says that the handle a call was made with is live until the call has counted its
duplicate, which is why the count cannot reach 0 before.

*Message loop.* `Linked` connects the stages of a call with the place it was made from (a thread
at `post` is in a P on semaphore 0, the loop at `waiting` in a P on semaphore 1, and so on).
`Exclusive` with `Linked` is inductive: only a P by a thread that finds the value 1 takes the
mutex, only its owner's V gives it back. `Tokens` needs the exclusion, because the queue's length
and the pending V are changed in two steps by whoever has the mutex. `OrderInv` adds where the
element of the loop may be (`ElementPlace`) and that the loop can end only with the flag set and
the queue empty (`Ending`), which is where `Tokens` pays: at `unlocking` with no element the one
token the loop has taken must be the abort's. `Drained` and the refinement follow; the step
simulation `QueueStep` has one case per action. The races on `*references` touch neither the
semaphore values nor the loop's variables, which is why all this holds for `Smp = TRUE`, where
termination does not. For the memory `CarefulInv` adds that only the aborter is still in a call
(`LastCall`), that it is past its last V on the loop when the loop has found no element, since
the loop had the mutex then (`LeftAlone`), and that `*references` counts the loop's handle and the
calls that have counted theirs (`CellCounted`): what remains of the abort is the end of a duplicate, and the
last of the two destroys frees.

*Threads.* For any clients, `running` is the number of threads that were created and have not
counted themselves down (`Counted`), so the one that counts to 0 is the last, and the main thread
is woken after that only. For careful clients `CInv` adds that the threads in the map form a chain, each the
creator of the next, and that the map lists this chain from the newest to the first thread (`Stacked`), in
blocks that are not freed. A thread ends only when it has seen the end of its only child, so it is the head
of the list, and the removal never reaches the wrong test. `Family` and `Quiet` say who can
have whom as an unseen child, `Named` which handle the walk reads in each struct,
`WaitersAim`, `Held` and `Tame` what waiters, mutexes and freed structs can be like. `CInv` is also an
invariant of `thread_careful`'s instance, which TLC confirmed before it was proved.

*Streams.* A bit in `closed` is set when its side has neither handles nor somebody who has to close it, and
the descriptors that are the stream's in the process's table are those whose bit is not set
(`Bits`). So the bits are exact in the middle of a drop too, where the property says nothing. The
argument uses that handles are dropped one at a time (`OneDrops`, see section 5).

*Server.* `Line` (served, in hand, waiting) stays increasing and covers what arrived (`InLine`,
`Handing`); one thread at most is in the abort (`OneAborts`); the server closes its pipe
only after it read a byte, and a byte is in the pipe only when that abort's write is over, so a first
abort cannot meet the end (`Written`).

*Wait.* `Records` says what the object keeps of the first n registrations; one more keeps it true for
n + 1. The induction is written as the least number of registrations that refutes it, from the
library's first-order `WFMin`, and the same argument shows that the recursive functions `Registered`
and `Walk` exist.

*Processes.* The ends of the pipes in the parent's table are there once (`Unique`), and from the fork
to the execv a child has whatever its parent still has of its pipes, at the same numbers
(`Within`); `Progress` ties the
place of a call to the state of its child. `Redirected` is inductive with these, whatever
numbers the four ends have.

Only model-checked: liveness (`QueueLives`, `OnlyFullStops`, `MapReleased`, `WaitEndsOrFault`, `ReadEnds`,
`WriteEnds`, `ServerEnds`, `ConnectionsTaken`, `EndOfFile`, `CallEnds`), which is out of the
prover's reach, and the four violations, which are counterexamples.

## 5. Abstractions

* pthread_cond_wait is not woken spuriously, and malloc and `pipe` succeed.
* Mutexes are of the default kind; any thread may unlock one (the code does), and unlocking
  a free one is no error, as glibc has it.
* A section under a mutex that cannot block inside is one step.
* Freed memory keeps its contents until it is used again; a use goes either way.
* Messages, lines and connections are numbers or model values. A line is written and read whole.
* On POLLHUP a reader counts as closed even with data left: these data are lost, in the model as
  in the code (zslib.c:1375-1376 says so for sockets).
* What poll and write say of the other end is the Linux kernel's (`OtherEndClosed`, `HungUp`).
  A peer closes a socket whole; a half-close by shutdown is left out.
* The counters of `ZSStream` have no lock; handles are copied and dropped one at a time, as
  in the examples. Without that rule two threads that drop the last reader and the last writer
  may both delete the stream.
* `a_count = 0` for a semaphore set (no set is made, set number 0 is removed at the end) is outside
  the models.
* A process number is not given to a stranger after waitpid; an abort then hits nobody. Of what the
  child of a fork inherits locked, the three mutexes of `zs__thread_cleanup` are modelled, and the
  waiter on the thread's condition: glibc's `pthread_cond_destroy` waits until every waiter
  that the condition counts has left it, and in the child nobody will.
* A client destroys a semaphore handle only when no call has still to duplicate it, as the
  struct `zs__semaphore` is freed at once.
* A call of `zs__semaphore_op` with a timeout is one without: zslib.c:569 gives semtimedop the constant 0,
  and `a_timeout_ptr` is never used, where zslib.c:242 says "if a timeout occured, -1 will be returned".

Seen in the code and written into the properties as their exceptions, each of which the runs
reach: a socket whose writer was dropped is not polled any more (zslib.c:1363), and a TCP
connection that the peer closed is not hung up for poll, so that `operator>>` spins after the
peer's close (`ReadEnds`); `zs__stream_create_local` leaves a socket open when connect fails
(zslib.c:1160, `EndsMatchHandles`); the abort of a server is starved as long as connections
are pending, by a single one when the process has no descriptor left (`ServerEnds`); a second
abort may find the server's structs freed (`AbortFault`); `zs__thread_execute` of a running thread
returns true, where zslib.h:62 says false, and unlocks a mutex that a waiter has
(`WaitEndsOrFault`); a waiter may lock the mutex of a freed struct, and an abort may call the
function of a deleted object (`CarefulFaults`). Of processes: the error output is always
closed; when the parent's output is closed the input's end may have the number 1 and dup2
replaces it (`Redirected`); an abort before the fork, after a failed one or before the number is
stored terminates the whole process group (`AbortsExplained`); a child whose execv failed
goes on in the library with the parent's state and exits with 0, or, forked while one of the three
mutexes was taken or its thread was waited for, never, and the call waits for it (`CallEnds`).

Seen, outside the models: timers must be normalized; `ZSServer::DeleteOnFailure` compares an
unsigned handle with 0 and never sees a failure (zsserver.h:43); a value of 32768 for
`zs__semaphore_op` becomes negative (such calls are made in `sem_up`, no property says what they
should do).

Not modelled: pause and resume (signals without state), addresses and the parsing of them, UDP
streams and what a server's datagram stream writes (`sendto`, no state here), system streams with
two ends, the arguments of processes, the WIN32 branches, build files.

## 6. Plan

A composition of the thread component with the message loop and the server, in place of
`mapOwner`; UDP streams as a kind of `ZsStream`. Action properties of the components (what a
single step may never do), with their proofs from the invariants above.
