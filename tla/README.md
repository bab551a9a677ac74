# Verification of embedded-platform-core

TLA+ models of the concurrent and stateful parts of this repository, the TLC
runs that check them on small instances, and TLAPS proofs of what matters most
for every instance. `PROJECT.json` is the index: components, runs, the source
lines every definition stands for, mutants (a plausible bug per property, each
of which TLC finds), findings, hazards and theorems.

    tlc -config OsalQueue.cfg MCOsalQueue.tla     # one run
    tlapm OsalQueueProofs.tla                     # one proof module

## 1. The system and its parts

A C framework for embedded panels: an OS abstraction (OSAL) with ports for the
host (POSIX), for RTOSes (RT-Thread) and a Linux stub, a hardware abstraction
(HAL), components on top of both (event bus, timers, configuration, devices,
log, files, languages, recipes), and an LVGL application.

| Part | State it keeps | Operations | Who calls it; what is hard |
|---|---|---|---|
| OSAL queue, host (`ep_host_osal_queue.c`) | ring buffer, `head`, `tail`, `count`; a mutex and two condition variables | create, send, recv, each with a timeout | any threads; signals, late arrivals, timeouts and spurious wake-ups interleave |
| OSAL semaphore, host (`ep_host_osal_sem.c`) | `unsigned int count`, mutex, condition variable | create, wait, post | any threads; lost wake-ups, the width of the count |
| OSAL mutex, thread, time, memory, host | - | thin wrappers | used by everything above |
| OSAL, RT-Thread | `rt_mq`, `rt_sem`, `rt_mutex` objects, 32-bit ticks | the same calls | error mapping, start of a thread before its handle is stored, tick wrap |
| Event bus (`ep_event.c`) | 32 subscriptions under `g_event_lock`, a queue of messages, a dispatcher thread | init, subscribe, publish, the dispatch loop | any threads and the handlers themselves; handlers call back into the bus, and publish into the queue only they drain |
| Timer service (`ep_timer.c`) | 16 entries under `g_timer_lock`, a scan thread | init, start (also restarts), stop, the scan loop | any threads and handlers; time and deadlines are read outside the lock, expiries are published outside it |
| Page manager (`page_manager.c`) | entries with screen pointers, current page, page in transition, switch lock, history of ten | switch, back, freeze, LVGL callbacks | pages and LVGL; animated loads end later, LVGL deletes screens by itself |
| Framework start-up (`ep_framework.c`, `app_core.c`) | which steps have been done | init, start | partial failure and a second call |
| Self-test (`app_selftest.c`) | a flag an event handler sets | run | the flag of an earlier run, an event that comes after the test gave up |
| Configuration (`ep_config.c`) | table of key/value entries | load, get, set | a file applied line by line |
| Devices (`ep_device.c`, `ep_rtos_default_devices.c`) | table of registered devices | register, find by name, find by type | full table, names taken by an application |
| Services (`lcd_sleep_service.c`, `beep_service.c`, `rtc_service.c`) with GPIO/PWM/I2C ports | handles, pins in use | start, sleep, wake, beep, read the clock | a failing step, pins left claimed |
| SQLite VFS (`ep_rtos_sqlite_vfs.c`) | file handles | open, read, close | single stdio calls ordered by SQLite |
| Boot page (`boot_page.c`) | stage, two LVGL timers | create, timer callbacks, destroy | the page change that ends it destroys it inside its timer's callback |
| Home page (`home_page.c`) | recipes, five carousel slots, drag, snap with its LVGL timer, user list; the selection outlives the page in a static variable | press, drag, release, click, timer callback | finger against timer, several steps in one late timer call, integer layout |
| Running page (`running_page.c`) | recipe handed over, strength, rows of parameters | create, clicks on strength and sliders | a recipe written by hand: gaps, reversed or empty ranges, too many rows |
| Settings pages (`settings_*.c`) | selections, tabs, overlays, the rinse and its LVGL timer, a store of texts | clicks, timer callbacks | a timer that changes its callback, LVGL objects that cannot be made |
| Recipes (`ep_simple_recipe.c`) | - | load a list, parse a detail | a bad row fails the whole list, a bad step ends the detail |
| UI start-up (`app_ui.c`) | - | register the nine pages, show the first | |
| Languages, paths, log, files | tables, pure functions | lookups | boundaries of buffers |

Interaction: every component above the OSAL blocks only in OSAL calls. The
timer's scan thread is a publisher of the event bus; handlers run in the
dispatcher thread and may subscribe, publish, start and stop timers. The page
manager and the pages run in the one UI thread and interact with LVGL through
callbacks.

What makes each part correct:

* queue: it is a bounded FIFO, no wake-up is lost, every call returns;
* semaphore: units are conserved, no wake-up is lost, every wait returns;
* event bus: subscribers get every message of their event once and in order,
  the table is used under its lock only, nothing blocks for ever;
* timer: one entry per id, no expiry lost, duplicated or early, a stop or a
  restart is final, an armed timer reaches its handlers;
* page manager: no deleted screen is used, the switch lock is given back, the
  current page is the page shown, and the way back lacks only the levels that
  backs which failed have cost;
* start-up: whatever failed before, a start that succeeds has started
  everything, and nothing twice; the self-test passes only on an event of its
  own, as long as no earlier run gave up; a file is in force up to its first bad
  line;
* pages: no LVGL timer runs on the memory of a page that is gone, and none is
  lost; what a page shows is the state it keeps, also where LVGL could make
  only a part of it; whatever a timer has begun ends.

`PROJECT.json` lists the hazards behind these properties, each at its line.

## 2. Modules

| Module | Models | Uses |
|---|---|---|
| `BoundedFifo` | what the queue promises: calls that take effect at one instant or give up | |
| `OsalQueue` | `ep_host_osal_queue.c` | refines `BoundedFifo` |
| `MCOsalQueue` | symmetry of its threads | `OsalQueue` |
| `OsalSem` | `ep_host_osal_sem.c` | |
| `EventBus` | `ep_event.c` | the queue as `BoundedFifo` |
| `Timer` | `ep_timer.c` | |
| `EventTimer` | the two services together | `EventBus`, `Timer` |
| `PageManager` | `page_manager.c` with the LVGL screens under it | |
| `MCPageManager` | a client that makes every call at any time | `PageManager` |
| `Lvgl` | that LVGL's create functions may fail | |
| `Slider` | the arithmetic of the sliders | |
| `BootPage` | `boot_page.c` | `Lvgl` |
| `Recipes` | `ep_simple_recipe.c` | |
| `Carousel` | the layout and easing of `home_page.c`, in pixels | |
| `HomePage` | `home_page.c` | `Carousel`, `Recipes`, `Lvgl` |
| `RunningPage` | `running_page.c` | `Slider`, `Recipes`, `Lvgl` |
| `SettingsPages` | the settings page, the lists, brightness, details, `settings_common.c`, stores of `multi_lang.c` | `Lvgl` |
| `CleaningPage` | `settings_cleaning_page.c` | `Slider`, `Lvgl` |
| `AppUi` | the nine pages over the page manager | `PageManager` and the pages |
| `MCAppUi` | the application's pages and a set of recipe tables | `AppUi` |
| `ConfigStore` | `ep_config.c` | |
| `DeviceRegistry` | `ep_device.c`, the default devices | |
| `Startup` | `ep_framework.c`, `app_core.c`, the display service with its pin, `app_selftest.c` | `ConfigStore`, `DeviceRegistry` |
| `MCStartup` | a small registry, and configuration files of every kind | `Startup` |
| `OsalQueueProofs`, `OsalSemProofs`, `TimerProofs`, `EventBusProofs`, `EventTimerProofs`, `PageManagerProofs`, `AppUiProofs`, `StartupProofs` | theorems | the module in the name |

Operators marked "Mutant" are faulty variants of the definition that follows
them; no specification uses them.

### How the models read the code

**OsalQueue.** The code holds the mutex except inside
`pthread_cond_timedwait`, so one passage through the mutex is one step: from
the call (or from the return of a wait) to the next wait or to the return.
`pc` says where a call is: `enter` (before the mutex), `wait` (asleep),
`woken` (the wait is about to return 0), `late` (about to return `ETIMEDOUT`),
`ok`/`timeout` (returned). `Start`, `EnterAnd...`, `WokenAnd...` and
`ReturnTimeout` are those passages; `WaitExpires`, `WakeSpuriously` and
`SignalAbsorbed` are what POSIX lets the wait do. `deadline` keeps, per call,
whether the absolute deadline computed once at the start has passed. After
`ETIMEDOUT` the code returns without testing the queue again, and so does
`ReturnTimeout`. `TimeoutAbsorbsSignal` chooses between two platforms: one
whose timed-out waits may consume a signal (POSIX forbids it; a pthread layer
over another kernel need not keep to that) and one whose do not. Creation is `Init`; failures of the pthread calls and
bad arguments return before any state changes and are stuttering steps.

**OsalSem** reads the semaphore the same way. The count is computed modulo
`MaxCount + 1`, as an `unsigned int` is. Timed-out waits that absorb a signal
are not modelled here.

**EventBus.** `phase` follows `ep_event_init`, including a failing thread
creation and the retry. A subscribe call takes the lock and registers (or finds
no slot) in two steps; the dispatcher receives, takes the lock, copies the
matching slots and unlocks, then calls handlers one by one. While a handler
runs (`dpc = "handler"`) the dispatcher may start calls like any client. A
message is its event and the serial number of its publish call; the payload is
left out. `published`, `audience` and `ran` are history.

**Timer.** Sections under `g_timer_lock` are single steps; the deadline
(`request`) and the scanner's clock (`scanNow`) are computed in steps of their
own because the code reads them before it locks. `expired` is the local array
of the scan round, indexed by the slot an entry came from. `ep_event_publish`
with timeout 0 is accepted or not (`ScanPublishes`); in `EventTimer` the bus
decides which. Each start call is an *arming*; `fate` records what became of it.

**PageManager.** One UI thread, so the steps are the calls of the pages and
LVGL's `SCREEN_LOADED` and `DELETE` events. A screen is named by its page.
`alive`, `active` and `loading` are LVGL's side, external, modelled from how the
code uses it: a load without animation takes effect at once, one with animation
later, the old screen is deleted when the new one is active (`auto_del`), and
loading the active screen does nothing. Pages are registered once at start-up
(`app_ui_create`), so registration is part of `Init`. In the application's run
pages are not usable during an animation, because LVGL handles no input while
one is running; `PageManagerAny` drops that assumption.

**AppUi and the pages.** A page's `create` and `destroy` callbacks run inside a
step of the page manager: `Life` reads from `screen` which page a step made and
which one it lost, and applies that page's callback in the same step. Clicks
are steps of the one usable page; a callback of an LVGL timer may come at any
time while LVGL holds the timer, also during an animation. Each page counts the
timers LVGL holds (`lvgl`) apart from its own pointers, so that a timer the
page lost or one that survives the page is seen. Where a `create` function of
LVGL may return NULL (`AllocMayFail`) the outcome is the set of what the code
leaves behind: an overlay without its button, a list with some of its rows, a
tab built up to its first failing part. The pages share the selection that
`home_page.c` keeps in a static variable (`saved`) and the recipe it leaves for
`running_page.c` (`pending`). Any page may fail to be made (`CreateMayFail`); the
settings page may have opened its store by then, which `SettingsFails` accounts
for. A back that fails has already taken its level off the history, as in
`page_manager_back`. `past` is history: the recipe that was in the center when the
home page was deleted, and how many levels failed backs have cost. `halted` is set
where the home page uses a NULL pointer: the carousel's layout takes the container
of every slot, also of one LVGL could not make (`HomeCrashes`); nothing runs after it.

**HomePage.** Presses, drags and releases come in LVGL's order; the snap timer
runs between them. Offsets are counted in units of which `Swipe` make the
distance between two slots; `Swipe = 80` is the code's own scale, pixels, and the
runs use a coarser one that divides it (`HomeAssumption`). `Carousel` computes
positions and sizes in pixels from them, with C's division. How far a callback of
the timer has got is left open between where it was and the target, both ends
included, since eased and rounded progress can equal either; late callbacks, which
commit several steps at once, are among them. A slot has the recipe it stands for
(`slots`) and the picture it shows (`pictures`): laying the carousel out changes the
picture only where the recipe has one and the slot its image (`images`, those LVGL
made), so an older picture may stay. A visit may find the path or the
database failing, and then shows the empty list.

**CleaningPage.** `timer` is the page's pointer and which callback the timer
has; the functions of the page are functions on its state, composed as the code
calls them. `elapsed` counts ticks of the rinse.

**SettingsPages.** Opening the store and its language are the calls of
`settings_page_open_language` and `settings_page_close_state` on the page and the
number of open stores, composed as the code composes them, also where the page
fails after them.

**Recipes, RunningPage.** A recipe table is a sequence of rows nobody writes; a
detail is its steps, a step its parameters, with the cases the parser and the
page tell apart: a missing or short text, a number that is none, a reversed or
empty range, a parameter that comes twice, one row too many. A text is the number it
spells, of any size, or `NoNumber`, which is no integer; `Parsed` is what `strtol`
(which saturates at `LongMax`) and the cast to `int32_t` (`Wrapped`) make of it, and
where the multiplication for a touched slider overflows, the value is any the clamp
after it lets through. A row LVGL makes only in part is not counted but may leave its
group on the screen, with callbacks on the entry the next row takes: `RowAdded` keeps
it as the `stray` until a row made at the same place covers it. `RecipeRow` is the
type of a row; the loops of the parser and of the page are recursive functions,
as are those of `ConfigStore` and `DeviceRegistry`, so that they can be proved about.

**Startup.** A call is the set of its outcomes, each a return code and the
state left behind, and `Then` chains calls up to the first error, as the code
does with `rc`. `Start` is one such chain, from `ep_framework_start` to the
self-test's subscription; it is one step because only the application calls
it, once it has returned. The self-test's polling loop, the timer thread and the
dispatcher are steps of their own, also after a run gave up. An event bears the number
of its run, which in the code it does not: `heard` is history, and the handler sets
the flag for any of them. `ep_timer_start` starts an active timer of an earlier run
anew and otherwise may find no entry free. A pin is found by its name or its alias
(`Entries`), given away once, and made an output by the display service in a
step of its own; on this port that step refuses only a pin nobody has.
Between starts the application may register devices, also before the framework has
set up the registry, and take any of the pins under any name, and the configuration
file may change.
Which thread drains which queue (`drains`) is kept because a failed
`ep_event_init` leaves the queue it created.

## 3. Runs

| Run | Bounds | Question |
|---|---|---|
| `OsalQueue` | 4 threads, 2 items, depth 2, symmetric threads | is the ring a FIFO, and are no wake-ups lost? |
| `OsalQueueLive` | 2 threads, depth 1, fair, absorbing timeouts | does every call return? |
| `OsalQueueLateData` | the same, not absorbing | does a timeout mean the queue was not ready? (no: finding 1) |
| `OsalSem` | 3 waiters, 5 posts, count to 7 | units, wake-ups, returns |
| `OsalSemLimit` | 1 thread, count to 3 | does a post ever lose units? (yes: finding 2) |
| `EventBus` | 1 client and handlers, 2 events, 2 slots, queue of 1, 3 publishes, 3 subscribes; 526 358 states | locking, order, completeness, progress |
| `Timer` | 2 callers, 3 ids, 2 slots, scan period 2, timeouts 0 and 1, time to 3, 3 starts | accounting of starts, expiry |
| `EventTimer` | main, scanner and handlers; 1 id, 1 slot, queue of 1, 2 starts, 3 publishes, time to 2 | from start to handlers |
| `PageManagerApp` | nine pages, four recipe tables of 1 to 5 rows for a page with room for 3, 2 users, rinse of 2 ticks, 4 boot stages, failing pages, allocations and databases, two places on every slider; 443 352 states, about 3 minutes | the application: page changes complete, the way back is accounted for, timers belong to living pages and end, pages show the state they keep |
| `HomeDrag` | the same without failing pages and allocations | does dragging the carousel never open a recipe? (it does: finding 3) |
| `PageManagerAny` | 3 pages, history of 2, failing creation, freezing, calls during animations | any client of `page_manager.h` |
| `Startup` | 4 starts, 8 configuration files, table of 2 entries, 2 default devices in a table of 3, 2 pins with two names each, 2 polls; 1 053 112 states | retries after any failure |

The pages' invariants are grouped by what they say: `ResourcesOwned` (the
timers of boot, home and cleaning page, the store of texts), `SettingsTruthful`
(one overlay, content follows tab, the selection shown, the reset question on
its tab), `CarouselTruthful` (slots follow the selection, each with its own picture
where it has one and an image, no gap or overlap, the list whole or empty),
`RunningTruthful` (the recipe that was tapped, with its picture or none; rows in
order, in range and at most five, what a failed row left behind them),
`SnapFaithful` (a snap keeps its destination and no picture moves backwards, but for
the drag that a snap started against the finger takes back), `TimersFinish` (rinse,
snap and boot end), `StartedOnce` (one thread each, no duplicate device, one user of a
pin whatever it is called). `HomeKeepsRecipe` compares what the carousel shows when it
comes back with what was in its center when the page was deleted, and `WayBack`
accounts for every level of the history. The
type invariants are not run but proved (section 4), where a type invariant is
needed at all.

Why the bounds are enough. The queue needs a sleeper and a woken thread of the
same direction, one that overtakes, and one that signals: four threads. Depth 2
makes the indices wrap, tells "one item" from "full" and lets a signal on the
empty edge only go wrong. For the semaphore, three waiters and more posts than
waiters give the same situation, and `MaxCount` above `Initial + MaxPosts`
keeps the wrap out of the run that is not about it. A bus queue of depth 1 is
full after one publish. Three publishes are one that is being dispatched, one that
fills the queue, and one that a handler makes into the full queue only its own
thread drains; two handlers, in the slots of two events, are enough for every order
of subscribing and publishing there is. Three
subscribes fill the table, and the third finds no slot. A scan period of
two ticks separates "due now" from "due before the next round", time to 3
allows two rounds, and two slots let a slot in front of an active entry become
free, which is where concurrent starts of one id could collide; a third id
finds the table full. In `EventTimer`
one slot and a queue of one make the table full and the bus refuse; its size is
kept down because both services' interleavings multiply. In
`PageManagerApp` three recipes are fewer than the carousel has slots, so that
pictures repeat, and the tables have a list of one, a bad row, rows too many, recipes
with and without a picture, and numbers of every kind `RunningPage` tells apart: all six
parameters can be set, so that the sixth finds no row; `IntMax` 299 and `LongMax` 5999
stand for `INT32_MAX` and `LONG_MAX`, small enough for TLC to touch the overflowing
slider and above the track's 270 pixels. `LostImages` bounds which images LVGL fails to
make (that of the center, the one handed on) and `RowFaults` which rows (one in the
middle, whose entry the next takes, and the last two). `Swipe` 2 and `Snap` 1 make an offset below, at and above each
threshold; two ticks tell a rinse that is interrupted from one that ends; its
history of 10 covers more levels than the application has. A history of 2 in `PageManagerAny`
overflows. In `Startup` four starts allow a failure at each of three
different places before one succeeds, or a run that gives up before one whose event
it may hear; a table of two entries and the device slots are filled by the files
and the application, before or after the defaults. The bounds `MaxPublish`, `MaxSubscribe`, `MaxArmings`, `MaxPosts`
and `MaxTime` limit counters that the code does not limit; when they are used
up, no new call starts and everything under way finishes.

Deadlock is checked except in `PageManagerApp` and `Startup`. The user interface
stops where LVGL could not make the buttons of an overlay of the cleaning page
(the overlay covers everything else), and the start-up is over
after `MaxStarts` starts. The other specifications keep an action that is
always possible (idle threads call, time-outs repeat, pages switch), or, for the
timer, sleeping and scanning, which go on at `MaxTime`.

Symmetry is used in `OsalQueue` only, whose properties are invariants and step
refinement. `PageManager`'s levels are ordered and its runs small; the other
runs check liveness, with which symmetry is not sound.

### Fairness

* Queue and semaphore: `WF` on the steps that carry a started call to its
  return, and on the passing of its deadline. The code justifies it: threads
  are scheduled, and `pthread_cond_timedwait` returns once the absolute
  deadline has passed. No fairness is assumed of callers or signallers.
* Event bus: `WF` on the dispatcher and on calls under way; handlers return.
* Timer: `WF` on the clock and on the scanner.
* Pages: `WF` on the end of an animation and on the LVGL timers of the boot
  page, the snap and the rinse. LVGL runs both from its own loop, whatever the
  user does. The snap is fair at its deadline only: callbacks before it may be
  as few as the loop is slow.
* Start-up: none; its properties are safety.

Nothing assumes that a caller ever makes a call.

### Findings

1. `OsalQueueLateData`: a call whose wait timed out returns `EP_ERR_TIMEOUT`
   although the queue has become ready before it got the mutex back; the queue
   design says a timeout means "still no room" or "still no data".
2. `OsalSemLimit`: at `UINT_MAX` a post wraps the count to 0 and returns
   `EP_OK`; the API reference promises `EP_ERR_BUSY`.
3. `HomeDrag`: a drag released exactly where its snap would end starts no snap
   timer, and the click LVGL sends after the release then opens the running
   page; the design of that page says only a tap does.

## 4. Proofs

All for any values of the constants that satisfy the named assumption of the
module and of the modules it extends (`QueueAssumption`, `SemAssumption`,
`TimerAssumption`, `BusAssumption`, `PageAssumption`, ...: finite threads, positive
sizes, distinct markers), and of what a theorem assumes besides. Some of them
constrain data: `RecipeAssumption` (a text that is no number is no integer),
`NumberAssumption` (`int32_t` is no wider than `long`), `FaultAssumption` (which rows
of the running page fail, and how), `HomeAssumption` (recipe tables are sequences of
rows, a swipe is a whole part of 80 pixels) and `StartupAssumption` (a configuration file is a result of
reading it and a sequence of lines). `EventTimer`'s `ComponentAssumption` is that
of its two components.

* `OsalQueueProofs!TypeCorrect`, `RingCorrect`: types, and that `tail` is
  `head + count` modulo the depth with every occupied slot written by a sender.
  The invariant is inductive together with the types; the argument is the
  arithmetic of one wrap (`WrapIndex`), so that a store adds the slot at `tail`
  to the occupied ones and a fetch gives up the slot at `head`.
* `OsalQueueProofs!WakeupsKept`, `SendersKept`: `NoLostReceiver` and `NoLostSender`, under the
  extra hypothesis `~TimeoutAbsorbsSignal` (with it the statement is false, and
  only the deadline gets the sleepers out: `OsalQueueLive`). Both directions are proved
  together, by counting: a completed call changes `count` by one, wakes at most one
  sleeper of the other direction (`SignalledSide`) and takes at most itself
  from the woken ones of its own (`CallerSide`).
* `OsalQueueProofs!RingImplementsFifo`: `Spec => ImplementsFifo`. The
  refinement mapping reads the ring from `head` on; initial states map to the
  empty FIFO, and each step to a start, put, take, wait, give-up or a stutter.
* `OsalSemProofs!TypeCorrect`, `UnitsKept`, `WakeupsKept`: the same for the
  semaphore; conservation needs `Initial + MaxPosts <= MaxCount`, which is part
  of the property.
* `TimerProofs`: `TypeCorrect`, `OneEntry`, `AccountingKept`, `NotEarly`,
  `Silenced`. None of the invariants is inductive alone. `Bookkeeping` adds
  what they rest on: start calls not made yet have no fate; an entry in a call, in
  the table or in the batch names a timer, belongs to a call made and has that call's deadline;
  the batch is empty outside publishing; the scanner's clock is not ahead. The
  accounting is three ledgers (calls, table, batch), each tied to one fate, with
  lemmas for an arming entering and leaving a ledger. `NotEarly` and `Silenced`
  then follow step by step.
* `EventBusProofs`: `TypeCorrect`, `LockHeldInSections`, `PrefixAlways`,
  `SubscriptionsKept`, `DispatchedInOrder`, `SubscribersReached`, for any
  threads, events, table and queue (with `BusAssumption` and
  `MessageAssumption`). The invariant is built in layers, each
  preserved with the help of those before it: types and which call every thread
  is in; the lock and the sections; serial numbers are unique, also those of
  messages still to be accepted (`SerialInv`); the queue is the end of what was
  accepted, and the dispatcher's message the one before it (`QueueInv`); what
  ran is ordered and lies before that (`OrderInv`); and who was subscribed at
  acceptance still is, is to be called, or was called (`CalledInv`), the link
  between `published` and `ran` that no state of the code shows by itself.
* `PageManagerProofs`: `TypeCorrect`, `PointersValid`, `ShownExist`,
  `CurrentShown`, for any pages, links and history, with failing creation and
  calls during animations. To be inductive they need each other and
  `FreeMeansQuiet`: while the switch lock is free, LVGL loads nothing that
  would delete a screen later.
* `AppUiProofs`, for the composed application:
  * `NothingLeftBehind` (`ResourcesOwned`) and `AppScreens` (the three screen
    invariants again). The pages' steps are shown to be steps or stutters of the
    page manager, so that its invariant carries over; `Linked` adds that a page
    is alive exactly while the page manager has its screen, and per page its
    timers are counted by its pointers. The return of the rinse timer, whose
    callback changes, is the step that needs the status in the invariant.
  * `SettingsShown` (`SettingsTruthful`). `ViewOK` adds why cancelling the overlay
    with the time may build the daily content: it is opened from that tab only, and
    the menu is covered while it is open.
  * `LockGivenBack` (`LockMatchesAnimation`) and `LevelsAccounted` (`WayBack`), under
    `AppConfig`: pages cannot be touched while one slides in, and the history has room
    for two. Pages may fail to be made and backs may lose their level. `PathInv` is the
    reason: the history is one of the `Ways` to the page shown, or to the one coming in,
    and what it lacks of the path from home is what failed backs have cost since the home
    page was shown (`past.lost`).
  * `WaterFollowsRinse` (`WaterAfterFullRinse`). `RinsedOK`: a rinse that runs
    has time left, one that is complete has used it all; whatever interrupts it leaves
    neither status.
  * `CarouselShown` (`CarouselTruthful`), for any tables, capacity and thresholds, and
    whatever images or visits fail. `CarouselInv` is `ListOK` (the slots are the
    neighbours of the selection, modulo the number of recipes, each with its picture
    where it has one), `PlanOK` (the steps
    committed lie behind the snap, the offset is the rest of its way, and that does
    not pass the target; a snap may start against the finger, less than a step away),
    and that the list is the one loaded and `saved` lies in it. What the pixels are follows from arithmetic about C's division: `PictureLeft` and
    `Width` are brought to integer shares of the weight in each of the four segments
    of the curve, where neighbours are shown not to overlap (`NoOverlap`) and the
    outer ones to be outside the screen (`Outside`).
  * `RecipeKept` (`HomeKeepsRecipe`). `LeftInv`: while the home page is gone or shows no
    list, the position saved is that of the recipe that was in the center when it was
    deleted; the selection is saved at two places, and no other page writes it.
  * `SnapTrue` (`SnapFaithful`). A commit moves the selection and the steps left
    together, so that the destination stays the same modulo the number of recipes.
    For the pictures, a step committed moves a weight exactly as far as the offset that
    is taken back for it (`Far`, `FarStep`; rounded down ahead of the last committed step and up behind it, `FarAt`); a pixel of the way is at least twelve weights
    (`FarMore`), and of weights that far apart `PictureLeft` keeps the order
    (`PictureOrder`). Closer together the rounding of its divisions might not. A snap
    started against the finger is compared with the place the picture had before the drag
    (`PictureFollows`): its first call takes the drag back, which is why the property does
    not promise more.
  * `RunningShown` (`RunningTruthful`), under `AppConfig`. `RunningInv`: the recipe
    of the running page is the one saved, and while the home page still slides out beside it
    that one is its selection and stands still. Without `AppConfig` the home page could
    be touched during the slide. Rows are added one by one (`RowAddedGood`), each made,
    failed or left in part, and `StrayOK` keeps what is left in its range and behind the last
    row; that a value is in range is the clamp's, whatever number strtol, the cast or an
    overflow has made of the text (`ParsedNumber`, `ValuesInRange`). What the parser and
    the page keep of any detail, of any length, is proved for their loops by the lemma
    `UpTo`, the induction over a prefix, from the well-foundedness of `<`.
* `EventTimerProofs`, for the two services together.
  * `SystemImplementsParts`: `Spec => B!Spec /\ T!Spec`. The composition
    restricts both components (a handler does not return inside a timer call, the
    timer starts after the bus, a publish of the scanner has a serial to spare), and
    this shows that it does nothing else to them: so all theorems of
    `EventBusProofs` and `TimerProofs` hold of the system. That every step of the
    bus is one of its own needs the timer's invariant, since what
    the scanner publishes must be an event and a serial of the bus.
  * `TypeCorrect`, and `ExpiriesHeardOnce` (`ExpiriesFaithful`) from `OriginInv`, the one link
    between the two states: a message stands for at most one arming, that arming is
    published, and no two messages stand for the same.
  * `LostOnlyWhenFull` (`DroppedOnlyWhenFull`), from `ScannerInv`: during its
    publish the scanner is in a call of the bus that cannot wait.
* `StartupProofs`, for any files, default devices, registry size and number of
  attempts: `StartedAtMostOnce` (`StartedOnce`), `StartedCompletely`
  (`StartComplete`), `LinesApplied` (`PrefixApplied`), `DevicesKeepTheirNumbers`
  (`DevicesStay`). Each call is shown to keep `Sound` in all its outcomes and to change
  only its own fields; `Stage` says what the chain has reached after its k-th call, so
  that a call that fails leaves what the next attempt needs. The loops over lines and
  devices are done by `UpTo`, as above: the registry only grows at its end
  (`DefaultsGrow`), and the table after n lines is the old one with the last
  accepted value of each key (`ContentParsed`). `Alone` is why a self-test passes on its
  own event: as long as no run has given up there is no event of another on its way.

Every invariant and every action property of the passing runs, and
`ImplementsFifo`, is stated by one of these theorems. Only model-checked are the
liveness properties, since fairness is beyond the prover: `EveryCallReturns` and
`ImplementsFairFifo` (queue), `WaitReturns` (semaphore), `EveryMessageDispatched` and
`SubscribeReturns` (bus), `ArmedResolves` (timer), `TimerReachesHandlers`
(both), `TransitionsComplete` and `TimersFinish` (pages). And what a violation
run shows is one behaviour, which needs no proof.

## 5. Not modelled, and what is left

* Fonts and styles. The generated bitmaps and tables of `ui_style` are more than half
  of the implementation's lines (about 19 400 of 33 702) and hold no behaviour,
  so the share of lines the map can cover is bounded accordingly.
* Stubs without state (Linux OSAL and HAL, host HAL), platform paths and
  capabilities, the straight-line platform start-up, the logger's output,
  third-party code, memory allocation and the failure of pthread calls on valid
  objects.
* The RT-Thread ports of the OSAL: queueing and waiting are done by a kernel
  whose source is not here. Its 32-bit tick is a hazard without a property; `Timer`
  assumes a clock that does not run backwards.
* The SQLite VFS: every call is one stdio call, in an order SQLite decides.
* The beep and clock services: sequences of calls into a PWM and an RTC driver
  without state of their own; the power board service writes nothing yet.
* Texts, titles, avatars and the pixels of everything but the carousel and
  the sliders.
* The boot page assumes a stage view that is built completely. What the code does with
  a missing icon is a hazard without a property, as is the missing container of a slot of
  the carousel: `HomeCrashes` stops the model there.
* The older picture a slot keeps under a recipe that has none is in the model;
  `CarouselTruthful` allows it, because the code does it and no document forbids it.
* The mutex and queue a failed `ep_event_init` leaks, and a switch to the page already
  shown, which no page of the application makes.
* `page_manager_send_event` and the registering of a page that is shown, which
  the application does not do.

What would extend the project: the RT-Thread clock under `Timer`'s deadlines;
boot stages with missing parts; a one-shot timer ("armed until
stopped, replaced or expired") as an abstract specification `Timer` implements,
and a semaphore whose wait takes its unit at one instant.
