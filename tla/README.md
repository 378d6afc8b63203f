# A verification development of LibreSlicer

LibreSlicer (a fork of PrusaSlicer) turns models into G-code or SLA layers. Most
of its code is sequential geometry on floating point numbers. What is hard to get
right and hard to test is how its threads meet: the window edits the model while
a worker slices it, cancels it at any instant, redirects its output and reuses
its results. The same questions come up in its smaller workers, in the bookkeeping
that decides what has to be computed again or can be undone, and in the files it
must not lose. This directory models those parts in TLA+, checks them with TLC
and proves the safety of all of them with TLAPS.

Paths are relative to the repository's `src/`; `BSP` stands for
`slic3r/GUI/BackgroundSlicingProcess`.

## 1. Inventory

| Component | State | Operations | Interacts with | Hard part |
|---|---|---|---|---|
| Milestones of a print, `libslic3r/PrintBase.hpp` | state of each milestone (Fresh, Started, Canceled, Done, Invalidated), time stamps | `set_started`, `set_done`, `invalidate*`, `query_reset_dirty`, `mark_canceled` | the worker sets, `apply()` invalidates, under the state mutex | a result of old inputs published as Done |
| Background slicing, `BSP.{hpp,cpp}` | `m_state`, `m_mutex`, `m_condition`, cancel status and callback, UI task, export path, upload job | `start`, `stop`, `stop_internal`, `reset`, `apply`, `set_task`, `schedule_*`, `reset_export`, `execute_ui_task`, `thread_proc` | Plater calls it and gets its events; it drives Print or SLAPrint; it hands uploads to the upload queue | two mutexes, one condition variable, cancelation from either side of a lock, a task that runs on the other thread |
| Print, SLAPrint, `libslic3r/Print*.cpp`, `GCode.cpp`, `SLAPrint.cpp` | model and configuration, PrintObjects, results | `apply`, `process`, `export_gcode`, `finalize`, `cleanup`, `clear` | as above | `apply()` writes while milestones it leaves alone are computed; PrintObjects are deleted |
| Plater, `slic3r/GUI/Plater.cpp` | pending edits, timer, what a handler has found out | edit, slice, export, send, cancel, reset, close, completion event | background slicing, UI job worker | handlers of several calls, posted events that are late |
| UI job worker, `slic3r/GUI/Jobs` | two queues, `m_running`, `m_canceled` | `push`, `cancel`, `cancel_all`, `is_idle`, `process_events`, waits, destructor | jobs (arrange, emboss, ...), Plater's idle handler | flags and queues read one by one |
| Milestone cascade, `Print.cpp`, `PrintObject.cpp`, `PrintApply.cpp` | dependencies of milestones and options | `invalidate_step`, `invalidate_state_by_config_options` | milestones | a dependency forgotten |
| Print host queue, `slic3r/Utils/PrintHost.cpp` | job channel, cancel channel, current job, rows of the dialog | enqueue, cancel, upload, shut down | background slicing, upload dialog | cancels that meet the wrong job |
| Undo and redo, `slic3r/Utils/UndoRedo.cpp` | snapshots, object histories, the mark of the saved snapshot | take, undo, redo, release, mark | Plater, gizmos | long sequences, shared histories |
| Simplify gizmo, `slic3r/GUI/Gizmos/GLGizmoSimplify.cpp` | status, configuration, result | start, cancel, finish | its own thread | a result of an old configuration |
| Downloads, `slic3r/GUI/Downloader*.cpp` | `m_state`, three flags, `m_written`, the temporary file, the notification | start, pause, resume, cancel, close | its own thread, `Http`, the notification whose buttons it obeys | pause and cancel racing the thread, events that are late |
| File export, settings file, `libslic3r/utils.cpp`, `AppConfig.cpp` | files | copy, verify, rename, back up, recover | everything that saves | a crash between two steps |

The other components (presets, formats, configuration and macro parsing, the
geometry, G-code generation, notifications, HTTP, drives, command line) are
listed with the reason they are not modelled in `PROJECT.json`, which also lists
the hazards, each at the line where it bites, with the properties that are about
it.

## 2. Modules

| Module | What it is |
|---|---|
| `PrintState` | the states of one milestone and the transitions `PrintState` performs on one |
| `ResultStore` | abstract: what the two threads together promise about results |
| `BackgroundSlicing` | the UI thread inside `BackgroundSlicingProcess`, the worker, and the Print they share |
| `Plater` | the Plater window as the client of `BackgroundSlicing` |
| `JobWorker` | the worker of the UI jobs |
| `PrintSteps` | the milestones of an FFF print: their order, the cascade of invalidation, what cleaning up drops |
| `UndoHistory` | abstract: what an undo stack promises |
| `UndoRedo` | the stack of object histories, and the "modified" flag derived from it |
| `PrintHostQueue` | the upload queue, its thread and its dialog |
| `SimplifyGizmo` | the simplify gizmo and its thread |
| `AppConfig` | the settings file, with crashes and failures |
| `FileGet` | a download, its thread and its notification |
| `MCBackgroundSlicing`, `MCPlater`, `MCUndoRedo`, `MCPrintSteps` | instances for TLC |
| `BackgroundSlicingProofs` | theorems and proofs about `BackgroundSlicing`, `ResultStore` and, since its handlers call the former, `Plater` |
| `JobWorkerProofs`, `UndoRedoProofs`, `PrintStepsProofs`, `PrintHostQueueProofs`, `SimplifyGizmoProofs`, `AppConfigProofs`, `FileGetProofs` | theorems and proofs about one module each |

`PrintState` is extended by `BackgroundSlicing` and `PrintSteps`, `BackgroundSlicing` by
`Plater`; `ResultStore` and `UndoHistory` are instantiated by what implements them.
The others stand alone, as their components do: an upload job is handed over
by `Export` of `BackgroundSlicing` and enters `PrintHostQueue` as `AppendRow`, with
nothing shared afterwards.

### BackgroundSlicing

A step is what a thread does between two points at which the other can tell:
acquiring or releasing a mutex, waiting, changing a shared variable, posting an
event. Calls are named after the method (`StartLock`, `StartGo`, `StopCancel`,
`SiCancel` for `stop_internal()`, `ApplyLock`, ..., `TakeEvent`), the steps of the
worker after what they do (`BeginRun`, `SetStarted`, `SetDone`, `PlanTask`,
`Finish`, ...).

* `mutex` is `m_mutex`. It is granted to anyone when it is free; `sleeping` is the
  set of threads waiting on `m_condition`, and `notify_one()` removes one of them,
  whichever. A notified thread has to reacquire the mutex and look at its
  predicate again.
* `stateMutex` is the state mutex of the print. `apply()`, `set_task()` and
  `schedule_*()` hold it throughout. `stop_internal()`, which they reach through
  the cancelation callback, is entered with it held, hands it over while it
  waits, and takes it back while it already holds `m_mutex` (`SiRelock`). The
  worker needs it for the instant of `set_started()` and `set_done()` only, so
  these are atomic, guarded by its being free.
* `stop_internal()` reads `m_state` before it locks `m_mutex`: `SiCheck` and
  `SiLock` are two steps. Likewise `ApplyInvalidate` changes one milestone and
  calls the callback before it goes on to the next one.
* The UI task of `execute_ui_task()` is the run that planned it; its lambda is an
  event in `queue`, run by `TakeEvent` unless the task was canceled meanwhile.
  The worker may be refused (`try_lock()` fails) by whoever holds `m_mutex`.
* Milestones are numbered in the order `process()` computes them. For an FFF
  print the last is psGCodeExport, with `do_export()`'s exceptions: it goes on
  although it is Done when the temporary file is missing, and removes the old
  file before it writes. `bspsGCodeFinalize` (`finalizeStep`) follows: `Export` is
  copying to the path, or handing over the upload job.
* `fresh` and `wk.torn` are history: which milestones match the inputs, and
  whether the one being computed has had its inputs written meanwhile. A torn
  milestone never becomes fresh, so a race shows in the properties even when
  nothing crashes.

`apply()` picks a class of changes `c`; `Affects[c]` is what it invalidates, and
also what it makes stale. That invalidation reaches all it has to is therefore assumed
here: it is what `PrintSteps` is about.
Other abstractions: `invalidate_multiple()` and `invalidate_all()` withdraw several
milestones and call the callback once, here they are withdrawn one by one, the
callback after each, which admits more interleavings; an `apply()` that finds
nothing to do is left out; `set_task()` is only called for the whole print;
steps of a PrintObject are computed for all objects together; the thumbnails are
one UI task per run, where the code plans one for each thumbnail listed in the
settings, or none (`Thumbnails.hpp:53-55`), each like the one that is modelled;
switching between FFF and SLA is not modelled.

The UI thread is the most general client: in its event loop it may call any
public method at any time. So the properties, and the theorems, hold for every
client that keeps the assertions about its arguments, Plater included.

### ResultStore

Three variables: the milestones published as done, those that are current, and
whether the inputs are being edited. The refinement (`Results`) takes a milestone
as published when it reads Done, `fresh` as current, and the inputs as being
edited from `ApplyLock` to `ApplyWrite`. `SetDone` implements `Publish`, which the
store only allows outside an edit; `ApplyInvalidate` implements `Withdraw`;
`ApplyWrite` implements `EndEdit`, which the store only allows when nothing it
changes is still published.

### Plater

Each handler is a sequence of calls (`calls`), carried out one after the other,
with the worker running on in between. While a call waits, the UI does. The
user, the timer and the posted events come in any order; posted events keep
theirs. `CallDecide` is the rest of `update_background_process()` after `apply()`:
validity and the preference for automatic slicing are nondeterministic. `UiJobs`
makes `start()` possible to refuse because the UI worker is busy. Gizmos, button
states, and dialogs other than those next, which only keep a handler from running,
are left out.

`Suppress` and `Resume` are the constructor and the destructor of
`SuppressBackgroundProcessingUpdate`, between which a menu is open (`PopupMenu()`) or
one of two dialogs of a tab: the timer is stopped, and armed again at the end if it
was armed at the beginning (`wasScheduled`). In between (`suppressed`) nothing else of
the window can be clicked (`MayClick`), but a command of the menu edits and arms the
timer, posted events arrive, and the timer may go off, which then makes no call
(`TimerFires`). One menu is open at a time. `overslept` is history: an edit waits whose
timer went off in this way. `ResetProject` stops the worker and, in a call of its own
(`CallClear`), empties the model and goes through `update()`, which arms the timer, or
for SLA applies at once.

`edits` is one class of changes. An edit on top of those that wait may be of the same
class, or either is a change of the list of objects, which contains the others; two
different changes that leave the list alone are not combined before they are
applied.

### JobWorker

Each step is one access to a queue or to a flag. `ReadIdle` is the three reads of
`is_idle()`, in the order of the code; `CancelAll`, `CancelAllEnds` the two writes of
`cancel_all()`; `Pop`, `Begin`, `PushFinalize`, `NotRunning` the writes of `run()`. A
failing job may or may not have its exception rethrown out of the call that
delivers its finalization. Jobs do not use the worker from `finalize()`.

### PrintSteps

The real milestones of Print and PrintObject, for several objects. `Blocks` is
the body of `process()`; `Cascade` is what the two `invalidate_step()` invalidate
besides the milestone itself; `ObjectOptions`, `PrintOptions` and `CustomGCode` are the
sets of milestones the code invalidates for an option, each combination that
occurs. `Reads` is what a milestone computes from the results of others, taken
from the bodies of the milestones, independently of `Cascade`. `Overlooked` names
the five pairs of `Reads` that the invalidation does not follow
(supports are trimmed by bridging perimeters and bottom surfaces, speeds of
overhangs depend on curled lines, wiping into objects on their copies, the skirt
goes around the wipe tower). Leaving out any one of the five makes
`DoneIsUpToDate` fail: with them, the run and the theorem say that these are all.

A run is a flag, and a cancelation is over before the call that asked for it
returns: the interleavings inside are those of `BackgroundSlicing`. Where results
sit matters more here: `slices` and `typed` are the slices of an object, which
prepare_infill() splits in place and marks afterwards; `fills` are dropped by whom
posInfill does not belong to; `points` are shared by the objects of one ModelObject.

Abstractions: an option is taken at the word of the code, as read by the
milestones it invalidates first (that some are read by others is listed as a
hazard); all objects are of one ModelObject and have the same settings; Canceled
and Invalidated are taken for Fresh after a cleanup, from which nothing tells them;
`set_task()` for single objects is left out, since `Stop` may end a run anywhere;
the slices of one region are not restored alone; ironing appended twice after a
cancelation is not modelled.

### UndoRedo

Each action is a whole command of the user on the UI thread: `TakeSnapshot` and
its callers (`Edit`, `Select`, `EnterGizmo`, `LeaveGizmo`, `NewProject`), `Undo`, `Redo` and
`Save`, with all they call. A history of an object is its set of
intervals, `m_snapshots` a function from time stamps; both are sorted by time in
the code, so nothing is lost. `LimitMemory` may release up to
`MaxReleased` snapshots, since the memory in use is not modelled. A gizmo is not left
once its EnteringGizmo snapshot was released: `reduce_noisy_snapshots()` then walks
past the beginning of the vector, which has no defined outcome. Snapshots have the types the code
distinguishes (action, selection, entering and leaving a gizmo, action in a
gizmo, separator of projects), which decide about thinning and about `m_plater_dirty`. `History` maps the stack to `UndoHistory`: the state a captured
snapshot holds is the one `Loaded` would load at it.

### PrintHostQueue

Three numberings are kept apart: rows of the dialog, jobs as the thread takes
them, and cancel requests, which carry the number of a row. Enqueuing appends the
row and pushes the job in two steps. `ProgressFn` is a call from curl: it drains
the cancel channel, marks waiting jobs through the channel's guard, and aborts
the current one if it is meant. What the host answers is nondeterministic, as is
an exception out of `upload()`, after which the thread has ended. `StopBgThread`,
`Terminating` and `End` are the destructor. Reading the size of the channel is taken
as one step.

### SimplifyGizmo

An action is what a thread does under `m_state_mutex`, or between two locks. A
frame reads the state once (`Render`) and acts by what it read (`Configure`,
`PressClose`, `PressApply`, `EndFrame`), while the thread goes on. `Configure` is the
slider of the level of detail, the only one of the settings that is modelled: the
radio buttons of `use_count` (`GLGizmoSimplify.cpp:276-279`, `307-310`) and the slider of
the decimate ratio (`329-336`) are left out; they change the configuration and have
`process()` called as it does. `Process`,
`StopOutdated`, `Join`, `StartWorker` are the steps of `process()`, `Initialize`,
`ThrowOnCancel`, `Collapse`, `Finish` those of the thread, `WorkerFinished` and `JoinFinished` the
queued call. A mesh is told by its level of detail. Selections are of equally many
volumes; a result for more or fewer is just not shown. Where `update_model()` would
assert or read past its end, the gizmo is `"crashed"`, which is why this
system may stop. `missed` is history: a request to stop the computation at hand came
before the thread began to work, and was overwritten, or after it had finished.

### AppConfig

Settings are told by the number of the save that wrote them, files by that and by
whether they are whole. `windows` is fixed at the start and selects the branches of
`save()`, `load()`, `copy_file()` and `rename_file()`: backup and replacement there,
removal and renaming elsewhere, each a step of its own. Between any two steps
there may be a crash, which may leave the file at hand short, null or missing as
the comments of the code describe; each step may fail where the code handles it.
The user may delete a file he is told is broken. Not modelled: two instances
running, the keys themselves, migration from other versions. The backup is not
consulted when the settings file is missing, and `save()` is taken for done though
the last renaming failed; both are as in the code.

### FileGet

One download: `Start`, `OpenFile`, `Receive`, `CheckCancel`, `Pause`, `Write`, `Complete`, `Fails`
are the thread in `get_perform()`, a step for each access to a flag. `CheckCancel`
and the two after it are one call of `on_progress`, which curl makes whether or not
anything arrived. `session` is the request at hand: where it began, what arrived,
what of it was written. The buttons are those the notification shows, which goes
by events that may be late; `PressCancel` is followed by `SetCancel` or `Cancel` as
`m_stopped` was read, and a join lets the UI do nothing else. A file is a
sequence of its pieces, so that a piece lost, repeated or out of place is seen.
Taken for granted: the server tells the size with the first piece, obeys the
range, and sends no body with an error; without a size `percent_total` divides by
zero. Left out: which free name is taken, several downloads at a time (they share
nothing), the exception of an allocation that fails, opening the folder. Equal
events in a row are one.

## 3. Runs

| Run | Instance | Shows | States |
|---|---|---|---|
| `slicing_fff` | two milestones (one of the PrintObjects, one psGCodeExport), three classes of changes (all, only the last, none), two runs, the temporary file may disappear | all safety properties and the refinement of `ResultStore` | 1.6 million |
| `slicing_sla` | one milestone, one class, two runs, fairness | no deadlock, every call returns, every run ends | 0.3 million |
| `plater` | two milestones, changes of the object list or only of the G-code, two runs | assertions between the calls of a handler, no edit forgotten (with one exception, see below), ended runs are collected | 743,438 |
| `job_worker` | three jobs, one message per job, timed waits | queue order, idleness, cancelation, closing | 0.3 million |
| `undo_redo` | one volume and its mesh, the gizmos, four projects, five time stamps, one snapshot released at a time | the representation, no leaks, the mark of the saved project, refinement of `UndoHistory` | 129,372 |
| `upload_queue` | three jobs, fairness | cancels meet their job, rows and files follow the jobs, the thread ends | 402,591 |
| `simplify` | two selections, two levels, two posted calls, fairness | no result of other settings, the preview catches up (with one exception, see below) | 599,056 |
| `settings` | three saves, three crashes or failures, both systems | the file can be recovered, nothing old is loaded | 5,507 |
| `print_steps` | two objects, the thirteen milestones of the code, all changes | the cascade is complete but for `Overlooked`, data is there | 4,720 |
| `download` | four pieces, written by two, three starts, fairness | nothing is lost or repeated, what is told to stop stops | 10,035 |
| `upload_asked`, `project_modified` | as `plater`; six time stamps and no release | the code disagrees with its own words, see below | |

Why the bounds are enough. In `BackgroundSlicing`, two milestones give the worker
one it has passed and one it is at, which is all a change can affect differently;
three classes invalidate both, the later one, or neither. Two runs let everything
a run leaves behind (cancel status, task, queued events, targets, CANCELED or
FINISHED) meet the next one. One posted event above which the user waits still
lets two be in the queue. In `BackgroundSlicing` and `Plater`, `MaxRuns` only limits
`start()`; `MaxQueue` only limits the user. Three jobs of a `JobWorker` or of a
`PrintHostQueue` are one that ran, one that runs and one that waits; `MaxWaiting` only
keeps the user from asking again for what has not been answered. In `UndoRedo` five
time stamps make room for a jump back, a snapshot that forgets the future, and a
release at the beginning; the projects differ in one object, which may be absent,
and in the gizmo. In `SimplifyGizmo`, two levels and two selections tell a result from
an outdated one, two posted calls let one of an earlier computation wait while
that of the next one is posted. In `AppConfig` three saves and three faults are one
save that succeeds, one that is hit, and one hit again while recovering. In
`FileGet` four pieces let two sessions each leave something unwritten and a third
finish.
`PrintSteps` has the milestones themselves; two objects are one that is ahead and
one that waits (with three, 42,000 states were explored without a violation
before the search was stopped). In every module the proofs remove the bounds for
the properties they establish, which are all but liveness. `JobWorker.cfg` has `Untimed = FALSE`, which leaves the waits without a
time limit to the proofs, where the constant is arbitrary: such a wait need not
return, see below, and liveness would fail for that reason alone.

The system may stop in `simplify` (a crash) and in `settings` (the program is not
running and is not started again), so these two do not check for deadlock.

Where the next state relations differ by a constant (`Sla`, `TempFileLoss`), the
runs together take both values.

### What is checked

* `DoneIsCurrent`, `ImplementsResultStore`: no late `set_done()` survives an edit.
* `NoTornRead`: `apply()` does not stop the worker when it computes something the
  edit does not concern, yet never writes what the worker reads.
* `RebuildIsExclusive`: PrintObjects are deleted only with the worker outside
  `process()`, `export_gcode()` and `finalize()`.
* `ExportIsCurrent`, `ExportTargetIsStable`: what reaches the user's file matches the
  model, and its target does not move meanwhile.
* `TaskFindsWorkerWaiting`: the lambda that captures the worker's locals never
  runs after the worker has left.
* `CancelIsAwaited`: no cancelation is left over for a later run.
* `AssertionsHold`, `SetDoneFindsStarted`, `PlaterAssertions`: assertions of the code.
* `CallsReturn`, `RunsEnd`: no lost wake-up, no deadlock.
* `EditsAreScheduled`: whatever handlers and menus stop the timer, an edit that waits
  has it armed, or gets it back when the menu is closed. One edit is excepted, made
  while updates were suppressed, whose timer went off before they were resumed
  (`overslept`): nobody arms it again, see below.
* `EndedRunsAreCollected`: an ended run never blocks the next one for good.
* `IdleIsDormant`, `JobsAreKept`, `CancelIsNotInherited`, `DestructorReturns`,
  `JobsAreFinalized`: the job worker.
* `ImplementsHistory`, `Valid`, `NothingLeaks`: sharing, cutting and dropping intervals
  never alters a state the user can go back to; and each interval that is kept
  covers the time of a snapshot, so that none is left before, between or behind them
  whose content no snapshot would load.
* `UnmodifiedIsSaved`: a project not shown as modified is that of the file, as long
  as the snapshot it was saved at is on the stack.
* `IdsAlign`, `CancelsHitTheirJob`, `RowTellsOutcome`, `FilesFollowJobs`, `CancelEndsUpload`,
  `ThreadExits`: the upload queue.
* `ResultIsCurrent`: no result of a canceled computation is taken for that of the next.
* `PreviewCatchesUp`: in the end there is the result for the volumes and the level as
  they are. Excepted is a crash of `update_model()` after a request to stop that was
  missed (`missed`), which the code is not free of, see below.
* `RecoverableAfterCrash`, `NothingStaleLoaded`: the settings file.
* `DoneIsUpToDate`, `DoneHasItsData`: the cascade of milestones.
* `KeepsWhatItGot`: the pieces of all sessions make up the file; `resume()`, whose
  `m_cancel` would have a running thread delete them, never finds one running.
* `StopsWhenAsked`: a download that is paused, canceled or closed ends, whatever the
  server does, and the UI never waits for good.

Type invariants: `BackgroundSlicing`, `JobWorker`, `PrintHostQueue`, `SimplifyGizmo` and
`AppConfig` have theirs proved instead of checked, and so do `FileGet` and `UndoRedo`, as
a part of the invariants in their proof modules; `PrintSteps` and `Plater` have them
checked and proved.

### Where the code disagrees with what it says of itself

With a run that shows it:

* `UploadIsAsked`: `BSP.hpp:145-146` schedules an upload for the current slicing;
  when that is canceled or fails, the job stays (`reset_export()` only clears the
  path) and a later slicing sends it.
* `NotModifiedIsSaved`: `UndoRedo.hpp:162` asks whether the project is modified with
  regard to the saved one. When the saved snapshot is released, `release_snapshots()`
  (`UndoRedo.cpp:1094-1095`) moves the mark to the one before, without asking whether
  they differ: a changed project then counts as unmodified.

Met while modelling, with no run of their own:

* `PerimetersOfWholeSlices` (`PrintSteps`): `Print.hpp:434-435` says `m_typed_slices` is set when the
  slices are split. `detect_surfaces_type()` sets it at its end (`PrintObject.cpp:1173`)
  and may be canceled before; perimeters computed next take the split slices.
* `BSP.cpp:232` asserts IDLE, CANCELED or FINISHED after the mutex
  was released and before it is taken again; a `start()` in between sets STARTED.
* `PrintObject.cpp:957` wants the main thread, with slicing
  stopped or paused; `BSP.cpp:260` cleans up on the worker, with `m_mutex` but
  without the state mutex, while `apply()` may be at work.
* `Plater.cpp:4372-4374` says `stop()` just confirms a run
  that is over; a late event stops the next run.
* `Worker.hpp:34` says that `cancel()` cancels the current job;
  `BoostThreadWorker.cpp:52` clears the flag after the job was taken.
* `Worker.hpp:47-49` says that the wait lasts until the queue finishes; a wait that
  consumes the last message before `m_running` is cleared
  (`BoostThreadWorker.cpp:61-63`) waits for one more.
* `EditsAreScheduled` (`Plater`): "Don't want to wake up and trigger reslicing while
  tracking the pop-up menu" (`Plater.cpp:8280`). An edit made while the updates are
  suppressed arms the timer; if that goes off before they are resumed, it is spent
  (`Plater.cpp:2151`), and as `m_was_scheduled` was read before the edit, it is not armed
  again (`Plater.cpp:8316-8319`): the edit waits for the next one, although "Slic3r will
  pre-process objects as soon as they're loaded" (`Preferences.cpp:303`, the tooltip of
  background processing). Without the exception of `overslept` the property is violated
  in three steps: `Suppress`, `Edit`, `TimerFires`.
* `PreviewCatchesUp` (`SimplifyGizmo`): "Stop it. It will restart itself when
  cancellation is done" (`GLGizmoSimplify.cpp:437-438`; `:230-231` says the same of another
  object). When other volumes are selected and the thread has been started but has
  not begun to work, it overwrites the request with `running` (`:495`); when it finishes
  between the look at the status and the request, the request does nothing. In both
  cases `worker_finished()` passes the result of the volumes of before to
  `update_model()`, whose assertion that they are shown (`:674`) fails; without
  assertions it goes on with `end()`. Nothing is restarted.
* `FinishedIsShown` (stated in `SimplifyGizmo`): a result may be there, with nothing
  left to do, while the old mesh is shown.
* `LoadedIsWhole` (`AppConfig`): a wrong or missing checksum is only logged unless the
  file holds nulls (`AppConfig.cpp:306-311`), and a file cut off at the end of a line
  is taken for whole.
* `SearchedHasPoints` (`PrintSteps`): a change that cancels nothing has `apply()` clean
  up between the search for support points and its being done; the points are
  gone, the object counts as searched.
* The five pairs of `Overlooked`, see `PrintSteps` above.
* `FileGet`: a download paused and then canceled leaves its temporary file, since
  only `on_progress` removes it ("remove canceled file", `DownloaderFileGet.cpp:220`);
  one canceled after its pause was taken and before the event was handled is left
  with a button to continue that does nothing; paused after the last piece, the
  notification is full and the file has only its temporary name; one whose cancel
  comes after the last piece is loaded all the same.
* `PrintHostQueue`: a cancel that arrives after its row was appended and before its
  job was pushed is dropped; after an exception out of `upload()`, jobs enqueued
  later never run.

`SetDoneFindsStarted` holds as long as nobody removes the temporary file. With
`TempFileLoss` it does not: `do_export()` (`GCode.cpp:551-559`) then computes a milestone
that is Done, and `set_done()` asserts that it is Started.

### Fairness

`BackgroundSlicing`: weak fairness for the call the UI thread is in (a thread that
can go on does), strong fairness for the worker and for the event loop. Strong,
because a mutex the worker needs, or the event loop itself, may be taken and
released over and over by calls; the operating system grants it some time, and
the window does return to its queue. `ComputeDone` and `ComputeFailed` being part of
it says that the computation of a milestone ends. No client call is ever
obliged. `Plater` gets along with less: weak
fairness for handlers and the worker, strong fairness for the posted events only,
none for the timer. `JobWorker`: weak fairness
for the worker (its queues are locked for an instant) and for calls; strong for
`process_events()`, which the idle handler calls whenever the event loop runs dry.
`PrintHostQueue`: weak fairness for each step of the thread and for handling
each row's events, and for the callback, since curl reports progress of a
stuck transfer, too; none for the end of a transfer, which `CancelEndsUpload`
must do without. `SimplifyGizmo`: weak fairness for the thread and for the code of a
frame once it is being drawn, strong fairness for frames and queued calls, among
which the event loop alternates; none for the user. `FileGet`: weak fairness for the
thread, which curl tells of progress even when a transfer is stuck, and for the
calls of the UI; none for the server, the end of a transfer or the user. `UndoRedo`, `AppConfig` and `PrintSteps`
only have safety properties and state no fairness.

## 4. Proofs

For any number of milestones and runs, any classes of changes and any `Affects`,
with the assumptions of the module only (bounds are naturals, `NSteps` is positive,
the sets are sets of milestones, `"none"` is no class):

| Theorem | Property |
|---|---|
| `TypeCorrect` | `TypeOK` |
| `CancelAwaited` | `CancelIsAwaited` |
| `TaskFindsWorker` | `TaskFindsWorkerWaiting` |
| `AssertionsPass` | `AssertionsHold` |
| `RebuildExclusive` | `RebuildIsExclusive` |
| `ReadsAreWhole` | `NoTornRead` |
| `DoneCurrent` | `DoneIsCurrent` |
| `ExportCurrent` | `ExportIsCurrent` |
| `TargetStable` | `ExportTargetIsStable` |
| `StoreImplemented` | `ImplementsResultStore` |
| `PublishedCurrent` (of `ResultStore`) | `PublishedIsCurrent` |

`SetDoneStarted` (`SetDoneFindsStarted`) needs one hypothesis more, `TempFileLoss => Sla`:
without it the property does not hold, see the end of section 3.

For `Plater`, with the same freedom of the constants, since its steps are those of
its client side by side with those of the worker:

| Theorem | Property |
|---|---|
| `PlaterTypeCorrect` | `PlaterTypeOK` |
| `PlaterAssertionsPass` | `PlaterAssertions` |
| `EditsScheduled` | `EditsAreScheduled` |
| `PlaterIsSafe` | the seven from `CancelIsAwaited` to `ExportIsCurrent` above |
| `PlaterKeepsTarget` | `ExportTargetIsStable` |
| `PlaterIsStore` | `ImplementsResultStore` |

For the other modules, each with the assumptions stated in it only:

| Module | For any | Theorem | Property |
|---|---|---|---|
| `JobWorkerProofs` | jobs, messages, waits with or without a time limit | `TypeCorrect`, `IdleDormant`, `CancelNotInherited`, `JobsKept` | `TypeOK`, `IdleIsDormant`, `CancelIsNotInherited`, `JobsAreKept` |
| `UndoRedoProofs` | objects, projects, snapshots, releases | `StackValid`, `NothingLeaked`, `UnmodifiedSaved`, `HistoryImplemented` | `Valid`, `NothingLeaks`, `UnmodifiedIsSaved`, `ImplementsHistory` |
| `PrintStepsProofs` | objects | `TypeCorrect`, `DoneUpToDate`, `DoneHasData` | `TypeOK`, `DoneIsUpToDate`, `DoneHasItsData` |
| `FileGetProofs` | size of the file and of the pieces, starts | `KeepsAll` | `KeepsWhatItGot` |
| `PrintHostQueueProofs` | jobs, requests | `TypeCorrect`, `Aligned`, `CancelsHit`, `RowsTell`, `FilesFollow` | `TypeOK`, `IdsAlign`, `CancelsHitTheirJob`, `RowTellsOutcome`, `FilesFollowJobs` |
| `SimplifyGizmoProofs` | selections, levels, posted calls | `TypeCorrect`, `ResultCurrent` | `TypeOK`, `ResultIsCurrent` |
| `AppConfigProofs` | saves, faults | `TypeCorrect`, `Recoverable`, `LoadsWhatWasSaved` | `TypeOK`, `RecoverableAfterCrash`, `NothingStaleLoaded` |

What the assumptions say: bounds are naturals, and what stands for "none" is not one
of the real values. `UndoRedo` also says what a project is: a content for each
object, where the model lists the objects there are, a mesh never changes, and the
gizmos may be open or closed over any scene.

The strengthenings. `BackgroundSlicing`:

None of the properties is inductive. The strengthening has two layers:

* `ControlInv`: which control point holds which mutex (`LockInv`), where the worker
  is for each `m_state` (`StateInv`), what a call of the UI thread has established by
  each of its points (`CallInv`: for instance that `stop_internal()`, having seen
  a state other than IDLE without the mutex, still finds a run when it gets it),
  that a cancelation in force is being waited for (`CancelInv`), and that a planned
  task is that of the current run (`TaskInv`). `CancelInv` is the centre: the worker
  clears the cancelation in the same critical section that wakes the waiter.
* `DataInv`: what this means for the milestones. The worker relies on the
  milestones it has passed and on the one it computes (`Relied`). Each is Started
  or Done, unless it was just withdrawn and the UI thread is on its way to stop
  the worker (`Stopping`). By the time `apply()` writes, nothing it changes is relied
  upon. A late `set_done()` is excluded because, with a milestone withdrawn, either
  the state mutex is held or the cancelation is in force.

`TypeOK`, then `ControlInv`, then `DataInv` are shown to be preserved
(`TypeStep`, `ControlStep`, `DataStep`), a case per action. `TypeOK` needs
`CallInv` and `StateInv` as hypotheses: that the counter of runs stays in range
depends on where `start()` is.
For the refinement there is more: the change `apply()` carries is remembered
exactly while it is inside (`EditInv`), and an export is announced by
`bspsGCodeFinalize` (`TargetInv`); then each step maps to one of `ResultStore` or to a
stutter. For `SetDoneStarted`, `FileInv` says that a G-code that reads Done has its temporary
file, and that a milestone the worker is at the computation of does not read Done.

`Plater`: `ClientOfSlicing` shows that each step of a handler is a step of
`BackgroundSlicing`, `CallDecide` aside, which touches none of what the invariants are
about; so these carry over. `PlaterInv` says what the rest of a handler may
rely on: the calls left are always the end of a handler (`Rests`), as long as an
export is to be scheduled none is, whoever is about to clear the target has had the
worker stopped, and an edit that has no timer, will get none from a menu and has not
missed it there is about to be applied.

`JobWorker`: `WorkerInv` ties `m_running` to where the worker is; `IdleInv` is what each of
the three reads of `is_idle()` has established and the worker cannot undo;
`CancelInv` says that a request in force was made for the job at hand, since the
flag is cleared after a job is taken. `JobsAreKept` is inductive relative to these. It
tells the jobs in a queue by their places instead of filtering it, and a step that
moves a job from the end of one place to the beginning of the next keeps their
order (`QueuedTail`, `EndedAppend`, ... say what a queue loses or gains).

`UndoRedo`: `StackInv` is the representation: intervals of an object do not overlap, the
one snapshot that is not captured is the active one at the top, and every set of
time stamps has a least and a greatest member, which is carried along since finite
sets cannot be inducted over. `StateInv` is what it means: every captured snapshot
loads as a project, and from one snapshot to a later one, with no modifying snapshot
from the first on, the scene is the same. From the latter follows what the saved
mark says (`SavedOK`). `UsedInv`, a part of it, is why nothing leaks: each interval
covers the time of a snapshot, ends by the current time, and holds what the snapshots
it covers load. Taking a snapshot keeps it because an interval that is cut is either
continued or has an earlier snapshot left to serve (`TakeUsed`); thinning and releasing
because they drop, at the beginning and between two snapshots that stay, just the
intervals that serve none (`ThinnedUsed`). Taking, loading, thinning and releasing
snapshots are shown one by one to keep the invariant, and to change the loaded
states only as `UndoHistory` does.

`PrintSteps`: the heart is about constants. `CascadeCloses` and `InvalidatedIsClosed` say that
what a change invalidates contains, with a milestone, all that reads it, and
`AffectedIsInvalidated` that it therefore contains all that becomes obsolete.
`InOrder` says that a task that was started has the tasks before it done, and
`ExportIsLast` that a started export has all the others; with these a change
that reaches a milestone reaches whatever was computed after it.
`FillsAreThere` is about the data that clearing and cleaning up drop.

`FileGet`: `FileInv` says what the files hold by what was written and by where the
thread is. `PauseInv` is the reason a resumed download finds no thread running: the
notification offers to continue only after the thread that was paused has
announced its end, which it does once.

`PrintHostQueue`: `QueueInv` is the arithmetic of the three numberings (the k-th job of
the channel is k jobs ahead, and nothing was pushed that has no row); the others
build upon it in layers, `OutcomeInv` (a job is over when the thread has left it),
`CancelInv` (who is marked or aborted was asked for, who is shown as cancelled is
marked or over), `RowInv` (the last event of a row is the last word) and
`FileInv`. `QueueStep`, `OutcomeStep`, `CancelStep`, ... preserve one layer each.

`SimplifyGizmo`: `ResultInv` says what may be in the result by where the thread is,
whatever the status; the status alone does not tell. `FrameInv` adds that a closed
gizmo has no volumes, hence is never on its way through `process()`.

`AppConfig`: `NumbersInv` (no file holds what no save wrote), `CopyInv` (when a file
is removed or renamed there is a second copy of what it will hold), `AgeInv` (the
file is never newer than its backup, nor older than it was last seen) and `LossInv`
(files are only found damaged at the start).

Only model-checked: what must happen eventually (`CallsReturn`, `RunsEnd`,
`EndedRunsAreCollected`, `DestructorReturns`, `JobsAreFinalized`, `CancelEndsUpload`,
`ThreadExits`, `PreviewCatchesUp`, `StopsWhenAsked`), which depends on fairness, hence
on ENABLED, and is out of the prover's reach. Every other property of a passing
run is stated by a theorem.

## 5. Not modelled

* The bulk of the code: slicing, perimeters, infill, supports, SLA algorithms, the
  G-code generator, file formats, configuration and macro parsing. It is sequential
  computation on floating point geometry or parsing, which TLC cannot enumerate
  and whose correctness is not a matter of order; its place in the milestones is
  modelled.
* The window beyond the workflow of slicing: canvas, sidebar, dialogs, presets,
  notifications. Presentation and sequential data management.
* What talks to the operating system or to a server: HTTP client, drives, preset
  updates, single instance check, post-processing scripts. They enter the models
  as nondeterministic answers.
* Vendored libraries, which are most of the repository's lines.
* Of components that are modelled: the milestones of SLAPrint (the SLA run is one
  milestone), the time stamps of warnings, partial tasks, the options of `PrintSteps` one by
  one, hosts other than the OctoPrint protocol (and its second address on
  Windows), a dialog of uploads replaced when the window is recreated.

## 6. Plan

Done: background slicing with its abstract specification and proofs, Plater as
a client, the UI job worker, the upload queue, undo and redo, the simplify gizmo, the
settings file, the cascade of milestones, downloads; theorems for the safety of each
of them. What is left, in this order:

1. Options of `PrintSteps`: which milestones read which option, from the bodies of the
   milestones, instead of the word of `invalidate_state_by_config_options()`.
2. `SLAPrint`: its milestones as a second instance of `PrintSteps`, with
   `slaposSupportPoints` and the hollowing that share a mesh.
3. Proofs: an abstract worker, which takes, finalizes or drops each job once, that
   `JobWorker` and `PrintHostQueue` implement, as `JobsAreKept` and `IdsAlign` suggest.
4. `UIThreadWorker` as a second implementation of an abstract worker, with
   `JobWorker` the first.
