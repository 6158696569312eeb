# A verification of Operator Station

TLA+ models of the operator's station (`src/app/PiSubmarine/Operator/Station`),
TLC runs over small instances of them, and TLAPS proofs of what matters most
for all instances. Paths below are relative to that directory.

## The system

| Component | State | Operations | Runs on |
|---|---|---|---|
| `Lease/ThreadWorker` | three maps of `RequestState` under `m_Mutex` | `EnqueueX`, `TryTakeX`, `ProcessPending` | callers' threads; lease thread |
| `Lease/SyncLeaseIssuerProxy` | caches of grants and leases, pending maps, own `m_Mutex` | `AcquireLease`, `RenewLease`, `ReleaseLease` | controller and GUI thread |
| lease clients (`Video/Controller`, UDP clients of control and telemetry) | the lease they hold | acquire, renew, release on stop | controller thread |
| `Video/Controller` | lease, subscription, pipeline, two deadlines, last published status | `Start`, `Stop`, `SetReceiveEndpoint`, `SetSubscriptionEndpoint`, `Tick` | controller thread |
| `Video/GstreamerPipeline`, `QmlVideoSinkTailFactory` | the GStreamer element | `Play`, `Stop`, `IsRunning`; the tail is built on the GUI thread | controller and GUI thread |
| `Time/TickRunner`, `main.cpp` | stop flag, threads, event queues | start of the threads, tick loop, `aboutToQuit` | all three threads |
| `Input/QtKeyboard` | event queue under `m_EventMutex`, key states, pending captures | event filter, `Tick`, `StartCapture`, `StopCapture` | GUI and controller thread |
| `Input/Controller`, multiplexors, `Input/View` | bindings per input and device, pending capture, source in charge, files | `Capture`, `CancelCapture`, completion, load, save | GUI and controller thread |
| `Control/Controller`, `Control/View` | intents (lamp, gimbal, ballast, depth, camera, mode) | slots, `Tick` integrates and submits | GUI and controller thread |
| `Telemetry/*Controller`, `Telemetry/View` | last snapshot; `TimeController`: age of the telemetry | `Refresh`, `LeaseStateChanged` | controller and GUI thread |
| `Composition/*`, `Logging`, QML, build | wiring, formatting, I/O | | |

How they interact: the GUI thread and the controller thread exchange queued
signals (FIFO per receiver). The controller thread ticks all controllers in one
loop, in the order `main.cpp:703-744`, and handles queued events only while it
sleeps between ticks. Whoever needs a lease calls the proxy, which never blocks;
it asks the worker, which posts an event to the lease thread; that thread alone
makes gRPC calls. At shutdown the GUI thread calls into the controller thread
and blocks; a tick that builds a video tail calls into the GUI thread and blocks.

What is hard here: the worker's mutex is dropped during issuer calls and before
events are posted; proxy and worker keep the same facts under two mutexes;
answers are cached and may be stale; RPCs may take effect and fail; one retry
deadline serves three services; every error returns early from a tick; threads
wait for each other at shutdown; key events and "release all keys" travel by two
routes; a snapshot is signalled once, when it changes, and never repeated; an
element of a pipeline changes its owner four times on the way to PLAYING, for a
while it has two, and every step may fail. `PROJECT.json` lists each as a hazard at its line with the properties
that cover it.

What makes each component correct:

- worker: one answer per request, collected once, one issuer call at a time, no
  request forgotten;
- proxy: never waits for an answer that cannot come, never leads to two leases
  for one resource, never hands out a lease that was given up;
- video controller: beliefs and published status are true, stop asks back every
  lease and leaves a stream behind in known ways only, renewals are prompt, it
  recovers;
- shutdown: nothing is destroyed under a running tick, the station ends,
  releases are sent;
- keyboard: the station holds down the keys the operator holds down;
- binding: a capture binds what was pressed for it and ends, the view shows it,
  files survive; control: what is submitted is what the view shows, in range;
- input values: an axis reads the device moved last, and rests when let go;
- pipelines: one sink on the item, nothing leaked but a partial tail, nothing
  released by two owners but after a failed link, a picture in the end; telemetry: stale data is shown as stale, panels show the last snapshot.

## Modules

| Module | Models | Notes |
|---|---|---|
| `LeaseMailbox` | what `IAsyncLeaseIssuer` promises | abstract specification: idle, queued, in flight, done |
| `LeaseWorker` | `ThreadWorker` | a request is `<<kind, key>>`; `posting` is a caller between unlock and `invokeMethod`, `pc` and `current` are the lease thread in `ProcessPending` |
| `LeaseProxy` | `SyncLeaseIssuerProxy` EXTENDS `LeaseWorker` | a call is take, enqueue, post, done; the lease thread runs in between |
| `LeaseSystem` | clients and server EXTENDS `LeaseProxy` | the client protocol is that of `Video/Controller.cpp`; the server grants each lease id once, may fail after taking effect, and may expire a lease |
| `VideoController` | `Video/Controller` | each service call of a tick is a step (`phase`); deadlines count down; `remote` (what the service streams), `leftBehind` (why it may stream what the controller does not know of), `owed` (leases granted and not given back) and `overdue` are history for the properties |
| `Shutdown` | `main.cpp`, `TickRunner`, the tail factory's blocking call | three threads, two event queues; releases by their clients |
| `VideoPlayer` | what `Video/Controller` relies on in `IPipelineBuilder` and `IPipeline` | abstract specification: a rebuild is one step, `VideoController` has its steps |
| `VideoPipeline` | `RebuildPipeline` down to GStreamer's elements: `RtpPipeline`, `FakePipeline`, `GstreamerPipeline`, `QmlVideoSinkTailFactory` | live elements are counted; `made`, `tail` and `player` are the owners, with the bin as a second one in step "linking"; `lost`, `before`, `linkFailed` and `releasedTwice` are history |
| `Keyboard` | `QtKeyboard/System`, `EventFilter` | a component: events taken by a tick in one batch and applied one by one; `raced` is history |
| `AxisMultiplexor` | `Input/AxisMultiplexor` | a component: sources, last values, the source in charge |
| `InputValues` | the two above and a gamepad, composed | one round of the controller thread is gamepad, keyboard, input controller (`main.cpp:720-729`); a capture that ends inside the keyboard's tick replaces its source between two events; `mover` is history |
| `Telemetry` | `Telemetry/Controller`, `TimeController`, `VideoStatusController`, a motor's controller, their view models, `RemoteTelemetry::Tick` | `events` is the controller thread's queue, `signals` that of the GUI thread; `source`, `sourceAge` and `leaseAge` are history |
| `InputBinding` | `Input/Controller` and the binding dialog | a cell is an input and a device; `requests` and `signals` are the two event queues; `saving` is the device whose file is truncated and not yet written, while only `Saved`, the dialog or a crash can move; `capturing` is what each binder captures for; `rushed` is history |
| `OperatorControl` | `Control/Controller` and its view model | `intent` gathers the desired values; `sent` is the last command the sink took; `asked` is history |
| `MC*` | instances for TLC | |
| `LeaseProofs` | theorems about `LeaseWorker`, `LeaseProxy` and `LeaseSystem` | three inductive invariants, each one part of the next |
| `VideoControllerProofs`, `VideoPipelineProofs`, `ShutdownProofs`, `InputValuesProofs`, `InputBindingProofs`, `OperatorControlProofs`, `TelemetryProofs` | theorems about the module each is named after | `InputValuesProofs` has those of `Keyboard` and `AxisMultiplexor` |

Definitions keep the source's names. The `map` of `PROJECT.json` gives the lines
of each. Definitions named `X_Something`, marked as mutants, are plausible bugs of
definition `X`; no specification uses them. They show that the property they are
listed with can fail.

## Runs

| Run | Question | Bounds and why they are enough |
|---|---|---|
| `lease_worker` | Are wake-ups kept and the mailbox implemented, with liveness? | two callers, three kinds of requests with two acquires: every race of two enqueues, a take and a scan; `MaxPosted` 2 is a full queue for both callers |
| `lease_system` | Do clients and caches agree across failing RPCs, stops and expiry, does the worker accept all the proxy asks, and what if the server itself answers NotReady? | two clients, two leases: a lease could reach the wrong client or come back |
| `lease_system_live` | Is a loss noticed, an acquire answered, and what is pending in the proxy outstanding in the worker? | one client, two leases: a loss and one more lease; no symmetry |
| `video_controller` | Is the controller truthful and prompt, what does a stop leave behind, and does it recover? | two leases and endpoints; half lease 2, retry delay 3, ticks of 1 or 2: a delay longer than the half lease, ticks that overshoot both deadlines |
| `shutdown` | Does every order of start and end work? | three clients; four lease events, more than one shutdown posts beside the one of a tick |
| `shutdown_release` | Is the telemetry lease released as `main.cpp:1111-1112` says? (violated) | as above |
| `video_pipeline` | Does a rebuild that may fail anywhere keep one sink, free what it made, with one owner for each release, and end in a picture? | seven elements and a tail of three (`RtpPipeline`, the Windows tail), two endpoints; four lost elements are two tails lost half way; any number is in the proof |
| `input_values` | Does the station hold the operator's keys, and does an axis read what was moved last and rest when let go? | two keys (an axis needs two), two waiting events, a stick with two positions: both devices can hold and replace |
| `input_binding` | Do binder, controller, dialog and files agree, whatever crosses, and after a crash? | one input with both devices: two cells compete for one capture and have a file each; two bindings, one that cannot be restored; two waiting requests (a tap and a cancel, two taps in a rush), three signals before the next tap |
| `operator_control` | Do intents stay in range, do the panels follow, is what was asked for submitted? | every target reaches both its limits, as speeds and limits are one step; all axes together, and lamp and pitch by themselves through the buttons and the centre key; a camera that is on, off, and focused by hand at two positions; one waiting request, so requests do not overtake each other in the run (the theorem has queues of any length); a tick is rejected, not taken by the sink, or taken; ticks and requests wait for the panels to be up to date, slots do not |
| `operator_control_tested` | Does the ballast move as fast as `ControllerTest.cpp` has it? (violated) | speeds of the default `Config` and of the test, in twentieths per second |
| `telemetry` | Is the colour of the time panel honest, do panels follow, is the camera's state shown, is a lost lease shown? | thresholds one and two ticks, two uptimes (a restart goes back to the first), three camera states, one reading of the motor beside the panel's first (`ViewsAlwaysFollow` has any set of readings); a tick may come with one signal waiting, so that two snapshots of one panel are in the queue |

`LeaseProxy` has no run of its own: the program has one caller thread for a proxy,
and `lease_system` runs it with its real callers. The theorems of `LeaseProofs`
about `ProxySpec` hold for any number of callers, and `SystemUsesProxy` carries them
over to the system.

`shutdown_release` is expected to fail: the release the telemetry client asks for
in its destructor is only queued, with an event posted to the lease thread;
`leaseThread.quit()` follows and is not ordered behind that event, so the
thread may end with the request unsent. The lease then lives until it expires.
`shutdown` shows that this is the only way (`LostOnlyWithItsEvent`) and that the
station ends unless the GUI thread waits for a tick that waits for it
(`CrossWait`), or the tick loop is started by an event behind its own stop
(`restarted`). The two are behaviours of the code stated as they are; no text in
the repository rules them out.

`operator_control_tested` is expected to fail: `ControllerTest.cpp:135` wants the ballast
at 0.1 after one second of full deflection under the default `Config`, whose
speed is 0.25 (`Control/Controller.h:35`). The test for the depth target
(`ControllerTest.cpp:165`) disagrees with `Control/Controller.h:36` in the same way.

A rebuild whose link fails releases its elements twice. `gst_bin_add_many`
(`RtpPipeline.cpp:93`, `FakePipeline.cpp:52`) takes the only reference to each, and the
unique_ptrs let go of them only after the link (`RtpPipeline.cpp:119-126`); the early
return in between (`:116`) runs their deleters on what the bin owns. GStreamer may
refuse to dispose of an element that has a parent, or the element is freed twice.
`LinkFails` has both: after the first the build has failed like any other, after the
second the model ends (step "undefined"), as nothing can be said of a corrupted heap.
`NothingElseIsLost` shows that a failed link is the only way to get there, and the
liveness of `Heals` ends at it. No text in the repository promises otherwise.

A stop asks back every lease that was granted, but it may leave a stream behind at
the service (`StoppedHoldsNothing`): a Subscribe that took effect and failed, an
Unsubscribe that failed, the stream of a lease that was taken for lost, and the
stream to an endpoint that was changed since, as `SetSubscriptionEndpoint`
(`Video/Controller.cpp:131`) clears the flag that `Stop` (`:86`) asks. Such a stream ends
with its lease at the server.

`KeysFollow` and `LettingGoStops` exempt keys that are `raced`: a press that waits while
the window is deactivated is applied after all keys were released
(`Input/QtKeyboard/System.cpp:215-273`), and the key stays down until it is pressed
again. The properties show that this is the only way to a stuck key.

`CancelHitsItsAim` holds but for cells that are tapped in a rush. The dialog is
open to taps until it hears of the capture, so a second tap can wait in the
event queue behind the first, start a capture of its own when the first has
ended, and be hit by a cancel the operator meant for the first.

`CrashCostsOneDevice` is as strong as the code is: a binding file is truncated
and written anew, so a crash in between loses all bindings of that device.

`NotReadyWedges` says what an issuer does to the proxy that answers NotReady
itself. Neither issuer of the repository is known to; `FakeIssuer` does not.

### Fairness

- `LeaseWorker`: weak fairness of the lease thread (its event loop runs; gRPC
  calls carry `RpcTimeout`, `Composition/RemoteLease.h`) and of a caller that has
  entered `Enqueue`. Nobody owes the worker a request.
- `LeaseSystem`: in addition, a client that was not stopped keeps being ticked.
  Nothing forces a client to stop or a lease to expire.
- `VideoController`: weak fairness of the tick as a whole; which answer a service
  gives is never forced. `Recovers` speaks of states after which services no
  longer fail (`calm`).
- `Shutdown`: threads run. `SF(SleepHandles)` is an assumption about load:
  `TickRunner::SleepUntil` handles events only if a tick ends before the deadline
  of the next one, so an overloaded station never ends.
- `InputValues`: the controller thread goes on with its rounds (`WF(Round)`). Keys,
  stick, captures and the focus of the window are never forced.
- `VideoPipeline`: a build that has begun goes on, as its calls return and the GUI
  thread serves its queue, and a controller whose pipeline does not run tries
  again. `Heals` speaks of states after which the window stays exposed and nothing
  fails (`calm`); it claims nothing once elements were freed twice.
- `Telemetry`: ticks, the sleep between them, and the GUI thread's queue. Nothing
  forces the client to lose a lease or to regain one, or a provider to answer.
- `InputBinding`: both event loops run, and a save that has begun ends. Nobody need
  tap or press anything, and a binder need never answer but to a cancel.

`MCShutdown*.cfg` switch the deadlock check off, as a station that has exited (or
hangs in one of the two known ways) stops for good. All other runs check it.

## Proofs

Every safety invariant, action property and refinement that a passing run checks is
also proved, for every value of the constants under the named assumptions
(`LeaseWorkerAssumption`, `VideoControllerAssumption`, `VideoPipelineAssumption`,
`KeyboardAssumption`, `InputValuesAssumption`, `BindingAssumption`,
`ControlAssumption`, `TelemetryAssumption` and those of the constants of `Shutdown`:
numbers are naturals, absent values and errors are no leases, readings, pipelines
or bindings, sources and topics of signals are distinct, the warning comes before
the error, a binding file has one entry for each input it names).

- **Worker.** `IInv` is the type, `FlagsExclusive`, `InFlightIsCurrent` (the only
  request in flight is the one the lease thread is in) and `NoLostWakeup`. The
  second is what makes the others inductive: when an answer is stored nothing
  may be queued under the same key. From it follow `TypeCorrect`,
  `FlagsAlwaysExclusive`, `WakeupsNeverLost`, and `WorkerImplementsMailbox`: each
  action is a step of `LeaseMailbox` or a stutter.
- **Proxy.** `ProxyInv` adds that at most one thread is inside a call (m_Mutex), what
  each call is about, and that pending covers what the worker has. The
  equivalence `PendingTracked` needs that the issuer does not answer NotReady, an
  assumption of `ProxyAndWorkerAgree` alone; `NeverRefused` does not.
  `NotReadyWedgesForEver` is the action property for every step.
- **Lease system.** First, every step of the system is a step of the proxy or leaves
  it alone (`SystemUsesProxy`), so `ProxyInv` holds there too. `SystemInv` adds
  `ClientInv`. `ClientAndCacheAgree` speaks of clients between calls and says nothing while
  an answer is under way; `ClientCallInv` says that every call is of one client, which is
  in one call at a time, and `AgreeInv` what the cache holds meanwhile. `GivenUpForGood` needs to know of
  every place where a lease id can be, and that no two of them are another
  client's: `OwnInv` follows each id from the answer in the worker over the cached
  grant to the client that holds it. `ReleaseInv` says that a release is asked for
  by who gives the lease up and by no other. `LeasesAreNotShared` follows as well.
- **Video controller.** The invariant has three parts. `ValuesOK` is the type.
  `HoldInv` ties the phase of a tick to what the controller holds
  (`PhaseInv`: each call is made only when the calls before it are done), and
  with it subscription, pipeline and status. `TimeInv` bounds the lost time:
  between ticks `overdue + retryIn <= RetryDelay`, within a tick the delay is over
  and the loss is at most one tick more. Neither the status nor the promptness
  is inductive without `PhaseInv`. `OutsideInv` says what the controller owes the
  others: the one lease it holds, and a stream of which it knows or of which
  `leftBehind` tells.
- **Video pipeline.** `IInv` is the type, `EachIsOwned`, `LocalsInv` (what the
  function still holds at each step) and `PlayerInv` (what became of the old
  pipeline). The count of owners is what keeps the type, as every release takes
  off a count. `OwnersInv` adds that elements were released by two owners exactly
  if a link has failed; it needs `LocalsInv`, which says that there are elements
  to release when one fails. `NeverTwoSinks` follows from the counts; `PipelineImplementsPlayer` takes a rebuild for one step where it returns,
  and needs `PlayerInv` to know the old pipeline's endpoint then.
- **Shutdown.** `QueueInv` says which calls of the GUI thread can be in the controller
  thread's queue at each step of the shutdown, and that the call there
  is the one the GUI thread waits for. `StopInv` ties the flag of the `TickRunner` to
  it: once the call of its `Stop` was handled no tick is under way, unless it was
  started by an event behind it. Without the queue nothing is known of a call that
  was posted but not handled, so neither `NoTickAfterStop` nor `NoTickOnDestroyed`
  is inductive.
- **Keyboard and axis.** `KeysFollow` is nearly inductive, once the state a key will
  have is a relation on queues (`DownAfter`: the last event about it is a press, or
  there is none and it stays down); it needs that a tick takes events only when
  those of the tick before were applied. The lemmas on `DownAfter` say what one more
  event at the end and one event applied at the front do. For the axis, `ChargeInv`
  says that the source in charge is the one that moved last, also while a round is
  under way and across a capture that moves the sources up in the list, and
  `LookedInv` that between rounds every remembered value is what its source reads.
- **Input binding.** `IInv` is the type, `CaptureIsAwaited` and `FilesFollow`: each file
  holds what its device has `stored`, but for bindings that cannot be restored
  and the file being written. Without it nothing is known of what a crash
  brings back. `CaptureIsAwaited` is what shows that an answer of a binder is
  always to the pending capture, so that the early return of
  `CompleteXCapture` is never taken (`Dropped`). `DialogInv` follows every topic of
  the dialog through the queue of signals, and what was last said of all inputs
  together, which is so except in the middle of a save. `AimInv` follows the
  taps: after an unrushed tap its request is the last one that waits, and a cancel
  behind it is aimed at the same cell.
- **Operator control.** `IInv` is the type, `PanelsFollow`, and that the requests which
  wait lead from what the controller wants to what the operator asked
  (`Leads`). The last makes `LastWordIsSent` hold for requests of any number, and is
  kept by a tick because none of what a tick changes is asked for by a request.
- **Telemetry.** `ViewsFollow` and `CameraStateIsShown` speak of panels no signal waits
  for; nothing is known of those unless one knows of the signals: `ViewsInv` says
  of every topic that the last signal in the queue, or failing one the panel, has
  the controller's snapshot (`Follows`). Six lemmas on queues show that publishing
  and delivering keep it. `ColourInv` compares the age the `TimeController` counts
  with that of the data: never older, and younger only while the lease, or what
  was seen under it, is as young.

Only model-checked: liveness (`ImplementsFairMailbox` beyond its safety part,
`LossIsNoticed`, `AcquireIsAnswered`, `Recovers`, `Heals`, `OnlyKnownHangs`,
`LettingGoStops`, `CancelIsHeard`, `LossIsShown`), which is beyond the prover, and the
freedom from deadlock of the runs that check it, which speaks of ENABLED.

Proved and not run by themselves: `FlagsExclusive`, `ProxyTypeOK`, `NoSecondAcquire`,
`GrantsHaveLeases`, `SystemTypeOK`, `LeasesAreNotShared` and the types of
`VideoController`, `VideoPipeline`, `InputValues`, `InputBinding`, `OperatorControl` and
`Telemetry`.

## Not modelled

- Lease durations in the lease stack: expiry may happen at any time, which
  covers every duration. `VideoController` has the durations.
- The inside of GStreamer, gRPC, UDP clients and `Time::Manager`: libraries, seen
  through how the station calls them. An error on a pipeline's bus is logged and
  changes nothing while the element stays in PLAYING, so a model of `IsRunning`
  cannot tell whether pictures arrive.
- The input controller's variant with one file shared by both devices: `main.cpp`
  makes two input systems with a file each. The gamepad's binder and serializer
  are external; of them the model assumes that they call back once, in a tick
  or within the call, and that they may yield a binding that cannot be restored.
- The controllers and view models of depth, battery, lamp, ballast and proximity:
  each is the motor's with other fields (keep the last reading, emit when it
  differs, store what is sent). Of the telemetry the time view model's `hasLease` and
  the camera's streaming flag and subscriber count, which no QML reads.
- `KeyMultiplexor`, which is `AxisMultiplexor` over key states for fractions.
- The fakes (`Telemetry/FakeProviders.cpp`, `Composition/Fake*.cpp`), which generate
  demonstration values, and the construction of clients from libraries in
  `Composition/Remote*.cpp`.
- Surge and yaw of operator control, which have no state: a movement is accepted
  or rejected. Axes are bound before the first tick and stay bound.
- A write of a binding file that fails (`Input/Controller.cpp:276`; the stream's state is
  not asked): the file then is what a crash in the middle of the save leaves, but
  the station goes on.
- What a double free does (see `LinkFails` above).
- Entries for lease ids nobody asks about again stay in the maps of proxy and worker
  (`Lease/SyncLeaseIssuerProxy.cpp:80`): a few bytes for each lost lease.
- Formatting, QML layout, logging, command line options.

## Plan

Done so far: the lease stack, the video controller and its pipelines, shutdown,
the keyboard, the multiplexor and the values read through them, the binding of
inputs, operator control and telemetry. Next:

1. A composition of `VideoController` with `VideoPlayer`, which would join the two
   halves: the controller allows all that the pipelines were proved to do, and one
   answer more (a pipeline that does not stop), which no pipeline of the repository
   gives.
2. Safety that liveness rests on, stated as invariants and proved: that whoever waits
   is waited for by none but in the two known hangs, and that a client whose
   acquire is pending has its request in the worker.
3. The binding file shared by two devices, should the station come to use it.
