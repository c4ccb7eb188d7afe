# A TLA+ model of rust-http-sys

rust-http-sys is an asynchronous HTTP server on the Windows http.sys kernel
driver (`src/crates/httpsys`) and a benchmark for it (`src/tools/httpbench`).
This directory models the parts of it where threads, tasks and the kernel meet,
model-checks them with TLC, and proves their safety with TLAPS for every number
of tasks, threads, slots, requests, connections and engines and for every size.
Every invariant of the passing runs has a theorem, some with a condition on sizes
that section 4 names; what stays with TLC is liveness.

## 1. The system

| Part | Source | State | Operations |
| --- | --- | --- | --- |
| Overlapped operations | `overlapped.rs` | `OverlappedWrap` (status, bytes, `completed`, waker), its `Arc` count, the `OpPool` | `Op::new`, `finish`, `reclaim`, `poll_complete`, `AsyncOverlappedFuture::drop`, `deliver_completion` |
| Completion port | `iocp.rs` | port, threads | `new`, `associate`, `completion_loop`, `drop` |
| Request queue | `queue.rs` | handle, port, pool, `ReceiveMode` | `new`, `receive`, `read_entity_body`, `send_response`, `shutdown`, `drop` |
| Buffers | `buffer.rs` | `BufferPool`, `BodyPool` | `take`, `fit_body_inline`, the drops |
| Request | `request.rs` | buffer, queue reference | `body`, `read_body_chunk`, accessors |
| Response | `response.rs` | plain data | builder, `to_raw`, `as_ptr` |
| Server | `server.rs` | builder, routes, slots, stop flag, shutdown channel | `route`, `run`, `serve`, `slot_loop`, `shutdown`, `join`, `drop` |
| Handles | `init.rs` | initializer, session, URL group | `new`, `add_url`, `drop` |
| Errors | `error.rs` | none | conversion and wording |
| Load generator | `load.rs` | connections, samples | `run`, `connection_loop`, `wait_until_ready` |
| Sweep | `sweep.rs`, `servers.rs`, `cpu.rs` | child processes, samples | `spawn`, `measure`, `stop`, `drop`, report, CSV, charts |
| Rendering | `chart.rs`, `fmt.rs`, `main.rs` | none | layout, formatting, parsing |

How they interact. A slot of the *server* takes a receive buffer and calls
*receive* on the *request queue*; each kernel call is one *overlapped operation*,
submitted by the slot's task, ended by the kernel and delivered by a thread of
the *completion port*. The handler reads the *body* through the same queue and
returns a *response*. Shutting down goes the other way: the application sends a
message, the server thread raises a flag, shuts the queue down, drains or aborts
the slots, and drops the *handles*, the last of which stops the port's threads.

What makes it hard: one `Arc` reference travels through the kernel as a raw
pointer; a completion races the poll that waits for it and the drop that gives
up on it; memory is recycled in four pools; a request may take two receives with
a buffer that is resized in between; shutdown races startup, handlers and
receives; construction has seven fallible steps; and order of destruction is
decided by field order and by who happens to hold the last reference.

## 2. The modules

Each module keeps the source's names. Comments name the function an action
stands for; `PROJECT.json` gives the lines.

**AsyncIo** is what awaiting an operation promises, with no port, count or waker
in it: the kernel settles the operation once, and only then does the task
get its buffer back, with that outcome or with none.

**Overlapped** is the protocol as `overlapped.rs` runs it. Every load, store and
count that another thread can observe is an action: the four stores of
`complete`, the two looks of `poll_complete` and the registration between them,
the cancel and the spin in `drop`. `leak[w]` follows the reference given to the
kernel (task, kernel, port, thread, none); `refs` is the count as `Arc` keeps it.
`outcome` is a history variable. The wrap's address is a member of `Wraps`; an
address with count 0 may be allocated again, so use after free would show.

**IoPort** is the life of the port: creation with partial failure, batched
dequeue, sentinels, join, close. Packets and sentinels share one queue.

**Receive** is `RequestQueue::receive` and the rest of a turn of `slot_loop`:
the copy attempt, `ERROR_MORE_DATA`, the second receive by id, the resized
buffer, 431, 404, the handler that returns or panics, the answer. A buffer is its
length in words and the request its header block describes: as in
`RequestBuffer::new` sizes are rounded up to words and to the room of the header
block, and `capacity` is cut to 32 bits. A request's shape is the size of its
headers and of its body and the length it declares. `hand` and `learnt` are
history: the request the kernel gave the slot, and the shape of its last failed copy.

**BodyRead** is `Request::body` and `read_body_chunk` over the body pool. Bytes are
named by request and position, vectors grow as `Vec` grows, and offered
lengths are cut to 32 bits as `read_entity_body` cuts them.

**Response** is the builder, the view that `to_raw` makes of it with the widths
of `HTTP_RESPONSE_V2` (16-bit header lengths, a 32-bit body length), the
pointers that `as_ptr` stores into that view, and the send, which AsyncIo
carries and which may be aborted at any moment.

**Server** is `run`, `serve`, the slots and the application's `shutdown`, `join`
and drop. A slot's turn is abstracted to check, post, receive, handle, send.

**Handles** is construction, routes and teardown: which kernel objects are open
and in which order they are closed, on every failure path.

**Lifecycle** composes the two: one server from `HttpInitialize` to the last
handle. Every slot holds a reference to the queue and lets it go however its
task ends; the server thread drops the handles one by one after `serve` and
exits after the last.

**Load** is one run of the load generator with connections that break, **Sweep**
the life of the server processes around it, the samples, the CSV and the charts,
**Report** the verdicts of the summary as pure operators, and **Bench** composes
them: the warmup and the measured load run of each point against a server that
may crash under it, and the summary of what came out.

`MCOverlapped`, `MCReceive` and `MCBodyRead` add the sets of inputs and the
symmetries. The theorems about a component are in the module named after it:
`OverlappedInv` (the invariant and the first half of its steps) and
`OverlappedProofs`, `IoPortProofs`, `ReceiveProofs`, `BodyReadProofs`,
`ResponseProofs`, `LifecycleProofs` (Server, Handles and Lifecycle) and
`BenchProofs` (Sweep, Load, Report and Bench).

The models are otherwise composed by interface. Overlapped includes the
dequeue loop of IoPort and is proved to implement AsyncIo; Response sends
through AsyncIo;
Receive, BodyRead and Server take a kernel call as one or two steps, which is
what AsyncIo licenses. IoPort delivers a packet in one step, which is
Overlapped's delivery.

## 3. What is checked

| Run | Shows |
| --- | --- |
| `overlapped` | counts exact, no reuse underneath a thread, buffers lent while the kernel may write, results are the kernel's, no lost wakeup; two tasks, one thread, packets suppressed for inline success |
| `overlapped_refine` | the same protocol with two threads and no suppression implements AsyncIo; `completed` is stored once per submission; queued completions reach their tasks; a dropped future stops spinning |
| `ioport` | the port outlives its threads; no packet lost behind or before a sentinel |
| `receive` | responses go to the request that was received; no request taken from the queue is forgotten, and each is answered in the end, or its client has gone, or its handler has panicked; requests that make the buffer grow are excepted by name (`Grows`), and their response goes to nobody; the size that a 431 reports is never another request's; buffers stay within the ceiling, rounded up to a word, or the room of the header block; a copy that failed is not repeated in vain for requests of that shape with a Content-Length |
| `body_read` | the first read of a body returns every byte once; later ones no foreign bytes; every read stays inside its vector with 32-bit lengths; a recycled vector has at least half the room asked for; the read loop ends |
| `response` | what http.sys was given stays allocated, in place and in bounds while it may read it, also when the send is dropped; what fits the fields is sent as it was built |
| `lifecycle` | slots work inside open handles only, and every registered URL has a handler; handles outlive slots; at most one more request per slot after `stop`; children close before parents, nothing leaked (named exceptions); `join` means closed; a received shutdown message ends the server whatever handlers, receives and the queue do |
| `bench` | a sweep measures its own server; no server is left behind (one named exception); a result has every connection once, with its samples or as an error; percentiles are quantiles; the summary has every sample of every engine and its verdicts agree; the benchmark ends |

### Disagreements between the code and what it says

Four are runs that TLC refutes, with the trace as the argument.

| Run | The code | What is said |
| --- | --- | --- |
| `ioport_drop_many` | one thread can take two sentinels in a batch; the other waits and `drop` never returns | dropping the server stops it (`server.rs:197`) |
| `receive_wipe` | growing the buffer erases the request just received: 404 to request 0 | only reachable if a URL is removed (`server.rs:341`) |
| `bench_samples` | the samples of a broken connection are dropped | "count it and keep the samples we already have" (`load.rs:100`) |
| `server_early_shutdown` | a shutdown sent before `serve` subscribes is lost; `join` never returns | shutdown or drop stops it (`server.rs:197`) |

Others have no run of their own. The property that is checked in their place is
the weaker one that the code does keep.

| The code | What is said | Checked instead |
| --- | --- | --- |
| without a Content-Length the copy mode is switched back on every time | at most one mistake (`queue.rs:39`) | `SettlesAfterOneMistake` for declared lengths |
| a second `body` returns `Ok` without the streamed part | reads the whole body (`request.rs:199`) | `FreshBodyIsWhole`, `OwnBytesInOrder` |
| a vector of exactly 2^32 bytes doubles and its spare room of 2^32 is offered to the kernel as none, because the length is cut to a `u32` (`queue.rs:238`); the empty read is taken for the end, and `body` returns `Ok` without the rest | reads the whole body (`request.rs:199`) | `FreshBodyIsWhole` with bodies below 2^32; its theorem has the condition |
| a recycled vector may be smaller than asked for (the loop makes up for it) | room for at least `capacity` (`buffer.rs:204`) | `HalfTheRoom` |
| a panic ends the slot for good | each slot keeps a receive posted (`server.rs:55`) | `NoRequestAbandoned`, `TakenIsAnswered` and `HandlesOutliveSlots` with panics |
| a builder dropped without `run` terminates http.sys first | the builder keeps it alive (`init.rs:27`) | `TeardownOrder` excepts it |
| a kept Request holds the queue past HttpTerminate | torn down in the right order (`server.rs:225`) | `TeardownOrder` excepts it |
| Drop also runs after `stop` (harmless) | only after bailing out (`sweep.rs:278`) | `Drop` is modelled on both paths |

Edges that the properties name and allow, with no text that says otherwise: the
431's size is 0 when the error comes through the port instead of from the call
(`NeededSuffices`); lengths that exceed their field are cut, so a body of exactly
2^32 bytes is sent as an empty one (`SentIsBuilt` is about what fits); an engine
that answered nothing has a CPU cost of 0 and is called the faster one by that
measure, and a comparison with an undefined number reads "slower"
(`VerdictsAgree` speaks of CPU only where both engines have answered requests);
a server process whose handle cannot be opened is left running (`NoOrphans`).

### Bounds

Bounds are constants of the modules and appear in guards. Overlapped is
unbounded in time (tasks submit for ever). In `overlapped` the wraps are enough
for a pooled, a busy and a freed one at once; in `overlapped_refine` two threads
compete for packets while a task is dropped. IoPort has more threads and packets
than a batch holds. Receive has an initial buffer of 10 bytes, which
the header block of 3 words makes 24, and a ceiling of 44, which is no multiple of
a word, as the defaults have an initial size below the ceiling. With the slack of
16 the declared bodies of 8 and 9 are the last that an initial buffer and the first
that a grown one holds, 28 is the last below the ceiling, and 37 would take more
words than the ceiling rounds up to; there are chunked
requests, unparseable lengths, headers beyond the slack, and headers beyond the
buffer. Each slot can meet both requests, so that the second finds what the
first has left of the mode and the buffer. BodyRead has
bodies that fit inline, the reserve, one chunk and more, and a chunk buffer of
exactly the 32-bit range, here 7. Response has a 16-bit range of 3 and a 32-bit
range of 4, with texts and header counts up to the first, and bodies below, at
and above the second. Lifecycle has two slots, one of which can outlive, panic before or
be aborted after the other, and two kept requests, so that the last reference to
the queue can be the owner's or a kept request's, dropped before or after it. `MaxRequests`,
`MaxCalls`, `MaxRoutes`, `MaxKept`, `MaxPolls` and `MaxProbes` cut
off repetition after the second or third time.

Deadlock is checked where the system goes on for ever (Overlapped, Response) and
off where it ends (a dropped port, a stopped server, a finished benchmark, a
receive path whose handlers have all panicked).

### Fairness

Weak fairness on a task, thread or slot is the executor's or the operating
system's promise to run what can run. In Overlapped strong fairness of
delivery per packet stands for the port's first-in first-out order. A cancelled
operation ends; one that nobody cancelled may stay pending for ever. Handlers may
run for ever, except in Receive, where an answer depends on them: there they
return or panic; clients
may send nothing, and nobody has to shut anything down. The drain timer fires,
and in Lifecycle closing the port returns (section 6). In Bench the clock
advances and a server that accepts a connection answers or closes it: the
benchmark's requests have no timeout of their own, so without this it would not
end.

## 4. What is proved

Each theorem holds for every value of the constants that satisfies the named
assumption of its module. Each argument is an inductive invariant, which TLC
was run on first, one lemma per action or group of alike actions, and one step
per conjunct that the action can disturb.

### Overlapped operations (`OverlappedProofs`)

For any sets of tasks, threads, wraps, error codes and lengths, any pool and
batch size, with and without packet suppression:

* `TypeCorrect`, `ReferencesExact`, `ReuseIsSafe`, `BufferSafe`,
  `ResultsCorrect`, `WakeupsArrive`: the invariants of the run `overlapped`;
* `CompletesOnce`: the action property of `overlapped_refine`.

The only assumption is `ConstantsAssumption` of Overlapped. The properties are not
inductive: that a thread may drop its reference safely depends on nobody else
having the wrap, which depends on where the wrap's reference has been. `IInv` adds

* `OpInv`: a wrap belongs to one operation at a time;
* `RefsInv`: the count of each wrap, as a function of `leak` and of its owner's
  program counter;
* `PoolInv`: unused wraps are fresh and unreferenced;
* `LeakInv`, `KernelInv`, `TaskRefInv`, `ThreadInv`: where the reference is, seen
  from the task, the kernel, the Op that must reclaim it, and the threads;
* `CompletedInv`: `completed` is set exactly from the third store on;
* `ResultInv`: the result's way through `inner`, `status`, `err`, `len`;
* `WakeInv`: a task past its registration is in the waker or will see the flag.

`OverlappedInv` states `IInv` and shows that submission and its undoing preserve
it; `OverlappedProofs` does the same for the threads' handling of references, for
waiting, delivery and the end of an operation, and `Inductive` puts them together.

`Refinement` shows that Overlapped implements AsyncIo (`ImplementsAsyncIo`, also
checked by `overlapped_refine`). A task's abstract phase is a function of its
program counter and of whether the kernel still has the wrap's reference
(`Phase`). `Op::new` is the submission (`OpNewSubmits`); a call that returns
without being pending, or the kernel's completion, settles (`CallSettles`,
`KernelSettles`); taking the result resolves (`ResultResolves`); giving the wrap
back or releasing it leaves (`LeaveLeaves`). Every other step of a task and every
step of a completion thread is invisible (`WaitingStutters`, `ThreadStutters`).
`IInv` is needed to know that a step on one task's wrap changes no other task's
phase (`OthersKeepPhase`) and that the result taken is the kernel's.

### The server and its handles (`LifecycleProofs`)

For any finite set of slots and any number of requests, routes and kept
requests, with or without panics:

* `LifeImplementsServer`: every behaviour of the composition is one of Server, so
  that what is proved of Server holds of it;
* `HandlesAreSafe`, `StopIsPrompt`: `HandlesOutliveSlots` and `OneMoreAtMost`,
  proved of Server;
* `SlotsAreInside`, `ChildrenGoFirst`, `AllIsClosed`, `JoinIsClosed`:
  `SlotsInsideHandles`, `TeardownOrder`, `NothingLeaked` and `JoinMeansClosed`,
  proved of the composition.

`SInv` adds to Server's two properties that a slot which has received a request
since the stop has a check of the flag before its next receive. `LInv` adds to
`SInv` what the handles depend on:

* `BuildInv`: what is open, and the two counts, at each step of the construction;
* `CountInv`: while the server serves, the count of the queue is two (the owner's
  and serve's) plus the kept requests plus the number of live slots. A slot that
  ends can therefore not close the queue. This is where the slots have to be
  finitely many;
* `DownInv`, `UnusedInv`: what is still open in a teardown, as a function of what
  is left to drop, for the two orders of dropping there are;
* `PhaseInv`: slots are alive only in service, and the thread exits last.

The assumptions are `ConstantsAssumption` of Server and `HandlesAssumption` of
Lifecycle.

### The receive path (`ReceiveProofs`)

For any sets of slots and requests, any shapes, sizes and slack
(`ConstantsAssumption` of Receive), the default configuration, in which buffers
grow, among them, with handlers that return, keep their request or panic:

* `BuffersAreBounded`, `ReportedSizeSuffices`: `BuffersBounded` and
  `NeededSuffices`;
* `NothingIsAbandoned`, `AnswersGoRight`: `NoRequestAbandoned` and
  `AnswersItsRequest`;
* `OneMistakeIsEnough`: `SettlesAfterOneMistake`.

The first two have no condition on sizes. The other three ask that the ceiling,
rounded up, be below 2^32 (`SmallBuffers`), which a comment in `capacity` counts on:
a larger buffer would be taken for a small one and replaced at any time. They hold
for any mix of requests; those that make the buffer grow are excepted in the
properties themselves, by a condition on the request (`Grows`), because
`receive_wipe` shows what becomes of them.

`RInv` says how the slot's locals, its buffer and the size it has noted go with
the request it was given (`HandInv`), and that allocations are between the header
block and the ceiling (`BufInv`). `WInv` adds that buffers are never smaller than at
the start (`NotSmaller`), from which only a request that satisfies `Grows` can have its
buffer replaced (`GrownSmall`); that makes `NoWipe` and `NoRequestAbandoned`
inductive. For `OneMistakeIsEnough`, `LInv` follows the slot's one buffer between
the slot and its pool: a slot that has learnt a shape either no longer copies, or
its buffer has room for that shape. A kept request ends what was learnt, because the
next buffer is a new, small one; for a chunked body nothing grows.

### The completion port (`IoPortProofs`)

For any number of threads, any batch size and any packets, with every failure of
creation, association and posting: `PortIsClosedLast`, `BatchesAreFinished` and
`EarlyIsDelivered`, the three invariants of the run `ioport`. The invariant says
that a thread that has seen a sentinel finishes its batch before it leaves, and
that packets queued before the drop are ahead of every sentinel, so that whoever
takes a sentinel leaves no early packet on the port. The lemmas `SetOfAppend`,
`SetOfTail` and `SetOfSplit` say what queueing and a batched dequeue do to the
set of entries. That `drop` returns is not among them: it does not always
(`ioport_drop_many`).

### Body reads (`BodyReadProofs`)

For any number of slots, bodies of any size, any inline part, chunk size and pool
limits:

* `ReadsStayInTheirVectors` and `TakeGivesHalf`: `VectorsInBounds` and
  `HalfTheRoom`, without any condition on sizes;
* `TheFirstCallReadsItAll` and `TheRestIsInOrder`: `FreshBodyIsWhole` and
  `OwnBytesInOrder`, when bodies and pooled vectors are smaller than 2^32
  (`Small`). The attempt to prove them without it led to the case in section 3:
  TLC, given one body beyond the 32-bit range, finds `FreshBodyIsWhole` violated.

The invariant says where the slot is in its body and what its vector holds: the
inline part and the bytes from some point to where the kernel is. `BytesConcat`
joins adjacent ranges. The loop may only end where the body does, which
needs spare room to be offered as more than none.

### Responses (`ResponseProofs`)

For texts, header lists and bodies of any length and any field widths:
`TheKernelReadsLiveMemory` and `ASentResponseIsTheOneBuilt`, the two invariants of
the run `response`. The invariant gives the view and what the kernel reads through
it as functions of the Response, which nobody changes between `to_raw` and the
drop of both.

### The benchmark (`BenchProofs`)

For any number of engines, points, polls and probes: `OnlyItsServerIsMeasured`,
`NoServerIsLeft` and `ReportsAreComplete` (`MeasuresItsServer`, `NoOrphans`,
`ReportComplete`), proved of Sweep; `BenchImplementsSweep`, that the benchmark with
its load runs and crashing servers implements Sweep; and from both
`TheBenchmarkIsSound`. The invariant `SInv` says that only the server started last
can be alive, and that each of the two lists of samples is `UpTo(k)`, all points of
the k engines whose sweep of that kind is complete.

For any number of connections and requests, any latencies and any measured numbers,
proved of Bench:

* `EveryConnectionCounts`: `ResultComplete`. `LInv` says that tasks are joined once
  all are spawned and that the connections joined so far are `Accounted` for (a
  definition of BenchProofs): each
  has ended, `errors` counts the failed ones, and there is a bijection between
  the places of the result and the samples of the others. Joining extends the
  bijection (`Extend`), sorting composes it with a permutation (`Compose`), and a
  connection that still runs has not been joined, so that its steps leave it alone.
* `PercentilesAreQuantiles`: `PercentileSplits`. Once `run` has returned the
  result is ascending, and then the elements up to the index that `percentile_ms`
  computes and those from it on are as many as the quantile asks for (`Quantile`, for
  every percentage).
* `VerdictsAreThoseOfTheNumbers`: `VerdictsAgree`. `best` returns a maximum
  (`BestIsAPeak`), all maxima of an engine are equal (`PeaksAreEqual`), and the
  quotients, with their floors, compare as their terms do (`CrossMultiplied`). It
  needs `SInv`, for the list the report is made of, and the assumption that the
  engines it compares are among those that have run (`EnginesAssumption`).

`Sort` and `BestOf` are defined by what they return, so something has to show that
it exists. Induction over lists is not available, but a least element of a
well-founded order is: of all arrangements of a list the first one in the order of a
dictionary is sorted, since exchanging two elements in the wrong order would give an
earlier one (`SortExists`); and the last of the largest elements comes last when they
are sorted by value and then by place (`LastMax`).

The assumptions are `ConstantsAssumption` of Sweep, and `LoadAssumption` and
`EnginesAssumption` of Bench.

### Only model-checked

Liveness: `CompletionsArrive`, `CancellationReturns`, `TakenIsAnswered`,
`ReadingEnds`, `ShutdownCompletes`, `SweepEnds`. Fairness and ENABLED are outside
the prover.

## 5. What is assumed of the environment

Not in the sources, taken from how they use it: a call that fails at once queues no
packet (`overlapped.rs:273`); the port is first in, first out; a receive that
does not fit fails with MORE_DATA and leaves the request for a receive by id, or
succeeds with part of the body (both are allowed); a receive by id fails only
when the client has gone; a read of a body with a buffer of length 0 returns no bytes; a receive posted after the queue was shut down may fail
or pend; AtomicWaker's register and wake are atomic; an aborted task is dropped
at its next await, and handlers reach one; futures are dropped, not forgotten.
IoPort allows packets during its drop, although a `RequestQueue` with an operation
outstanding cannot be dropped in safe Rust.

## 6. What is not modelled, and why

* The accessors of Request: reads of a buffer that the kernel has filled, without
  state. `AnswersItsRequest` covers which request they read.
* `error.rs`: wording and conversion. The codes that control depends on
  (MORE_DATA, HANDLE_EOF, OPERATION_ABORTED) are actions where they are met.
* The layout of charts, formatting of numbers and parsing of the command line:
  pure functions on strings and floating-point numbers, which TLC does not have.
  Two edges met on the way: a body size of 0 puts the lower end of the
  logarithmic x axis at 0, although a floor is said to keep log scales
  away from it (`chart.rs:89`), and a size such as `4kb` is read by its last letter only
  (`fmt.rs:66`).
* The arithmetic of CPU times (`cpu.rs`); its failures are actions of Sweep.
* The ad hoc load of `main.rs`: one probe and one load run, both of which are in
  Sweep and Load.
* The samples' values beyond the verdicts made from them.

Overlapped keeps its own set of packets with strong fairness in place of IoPort's
queue, and Lifecycle takes the drop of the queue, with the join in
`IoPort::drop`, as one step that returns. With more than one completion thread,
the default, that is an assumption: `ioport_drop_many` shows how the join can
wait for ever. `ShutdownCompletes` is therefore about everything before it: the
slots, the handlers, the queue and the timer.
