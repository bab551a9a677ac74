------------------------------- MODULE Startup ------------------------------
(***************************************************************************)
(* From ep_framework_start to the end of app_main: the start-up of the     *)
(* framework (ep_framework.c), of the event bus and timer service          *)
(* (ep_event_init, ep_timer_init), of the services (app_core.c,            *)
(* lcd_sleep_service.c with the GPIO port of RT-Thread), and the self-test *)
(* (app_selftest.c), which waits for an event of the timer.                *)
(*                                                                         *)
(* A call that fails leaves what came before it started; a later call goes *)
(* over all of it again.  While the self-test waits, and after it gave up, *)
(* the timer thread and the event thread go on.                            *)
(***************************************************************************)
EXTENDS ConfigStore, DeviceRegistry

CONSTANTS Files,             \* what the configuration file may hold
          MaxHandlers,       \* EP_EVENT_MAX_HANDLERS
          Polls,             \* APP_WAIT_TIMEOUT_MS / APP_WAIT_STEP_MS
          Extras,            \* devices an application registers
          MaxStarts          \* bound: how often ep_framework_start is called

ASSUME StartupAssumption ==
    /\ {MaxHandlers, Polls, MaxStarts} \subseteq Nat
    /\ Extras \subseteq [name : STRING, type : STRING]
    /\ \A f \in Files : /\ f.read \in {"OK", "INVAL", "BUSY", "UNSUPPORTED"}
                        /\ f.lines \in Seq([type : {"int", "bool", "string", "bad"}, key : STRING, value : Int])

VARIABLES disk,      \* the configuration file
          sys,       \* what is started
          test,      \* the self-test
          starts

vars == <<disk, sys, test, starts>>

Levels == 0..5               \* EP_LOG_LEVEL_ASSERT .. EP_LOG_LEVEL_VERBOSE
Info == 3                    \* EP_LOG_LEVEL_INFO
Pins == {"PD.3", "PE.13"}    \* g_gpio_table
Alias == [lcd_sleep_gpio |-> "PD.3", panel_enable_gpio |-> "PE.13"]

Init == /\ disk \in Files
        /\ sys = [log |-> FALSE, level |-> Info, entries |-> NoEntries,
                  event |-> FALSE, timer |-> FALSE, devices |-> FALSE, slots |-> <<>>,
                  queue |-> 0, drains |-> {}, scans |-> 0, lcd |-> FALSE, handlers |-> 0,
                  pins |-> [p \in Pins |-> [users |-> {}, output |-> FALSE]]]
        /\ test = [running |-> FALSE, result |-> "none", waited |-> 0, done |-> FALSE,
                   armed |-> 0, posted |-> <<>>, heard |-> {}, gaveUp |-> FALSE]
        /\ starts = 0

-----------------------------------------------------------------------------
\* A call is the set of its outcomes [rc, sys]; the first error ends a chain
\* of calls.
Ok(s) == {[rc |-> "OK", sys |-> s]}
Fails(rc, s) == {[rc |-> rc, sys |-> s]}
Then(outcomes, Step(_)) == UNION {IF o.rc = "OK" THEN Step(o.sys) ELSE {o} : o \in outcomes}

\* ep_log_init, with an EasyLogger that may not start.
LogInit(s) == Ok([s EXCEPT !.log = TRUE]) \cup IF s.log THEN {} ELSE Fails("UNSUPPORTED", s)

\* ep_config_init and ep_framework_load_default_config: no file is no error.
LoadDefaults(s) ==
    LET r == LoadFile(s.entries, disk)
    IN  {[rc |-> IF r.rc = "UNSUPPORTED" THEN "OK" ELSE r.rc, sys |-> [s EXCEPT !.entries = r.entries]]}

\* ep_framework_apply_log_config
ApplyLevel(s) == LET l == GetInt(s.entries, "log.level", Info)
                 IN  IF l \in Levels THEN Ok([s EXCEPT !.level = l]) ELSE Fails("INVAL", s)

\* Mutant: the thread is created first, and again by a second call.
EventInitAgain(s) == LET q == [s EXCEPT !.queue = @ + 1]
                     IN  Fails("BUSY", s) \cup Fails("BUSY", [q EXCEPT !.drains = @ \cup {q.queue}])
                           \cup Ok([q EXCEPT !.event = TRUE, !.drains = @ \cup {q.queue}])

\* ep_event_init: a failed mutex, queue or thread leaves what was created.
\* Queues are numbered; drains are those a dispatch thread reads from.
EventInit(s) == LET q == [s EXCEPT !.queue = @ + 1]
                IN  IF s.event THEN Ok(s)
                    ELSE Fails("BUSY", s) \cup Fails("BUSY", q)
                           \cup Ok([q EXCEPT !.event = TRUE, !.drains = @ \cup {q.queue}])

\* ep_timer_init starts the event bus itself if need be.
TimerInit(s) == Then(EventInit(s), LAMBDA t : IF t.timer THEN Ok(t)
                                   ELSE Fails("BUSY", t) \cup Ok([t EXCEPT !.timer = TRUE, !.scans = @ + 1]))

\* ep_device_init and the default devices.
DevicesInit(s) == LET r == RegisterDefaults(s.slots)
                  IN  {[rc |-> r.rc, sys |-> [s EXCEPT !.devices = TRUE, !.slots = r.slots]]}

\* ep_framework_init
FrameworkInit(s) == Then(Then(Then(Then(Then(LogInit(s), LoadDefaults), ApplyLevel), EventInit), TimerInit),
                         DevicesInit)

\* ep_gpio_find_entry: a pin has two names.
Entries(name) == {p \in Pins : p = name \/ (name \in DOMAIN Alias /\ Alias[name] = p)}

\* ep_gpio_request: a pin is given away once, for good, as an input; the driver
\* may not know it.
Request(s, name, user) ==
    IF Entries(name) = {} THEN Fails("UNSUPPORTED", s)
    ELSE UNION {IF s.pins[p].users # {} THEN Fails("BUSY", s)
                ELSE Fails("UNSUPPORTED", s)
                       \cup Ok([s EXCEPT !.pins[p] = [users |-> @.users \cup {user}, output |-> FALSE]]) :
                p \in Entries(name)}

\* ep_gpio_set_direction, to an output: this port refuses only a pin that was
\* not given away.
SetOutput(s, p) == IF s.pins[p].users = {} THEN Fails("INVAL", s) ELSE Ok([s EXCEPT !.pins[p].output = TRUE])

\* lcd_sleep_service_init: a step that fails leaves the pin taken.
LcdInit(s) == IF s.lcd THEN Ok(s)
              ELSE Then(Then(Request(s, "lcd_sleep_gpio", "lcd"), LAMBDA t : SetOutput(t, "PD.3")),
                        LAMBDA t : Ok([t EXCEPT !.lcd = TRUE]))

\* app_core_start: the services before and after that of the display do nothing
\* that can fail.
CoreStart(s) == LcdInit(s)

\* ep_event_subscribe
Subscribe(s) == IF s.handlers = MaxHandlers THEN Fails("BUSY", s) ELSE Ok([s EXCEPT !.handlers = @ + 1])

-----------------------------------------------------------------------------
\* Mutant: the flag is not reset for the next run.
BeginDone(t) ==
    LET reset == [t EXCEPT !.heard = {}]
    IN  {[reset EXCEPT !.running = TRUE, !.result = "none", !.waited = 0, !.armed = starts + 1]}
          \cup IF t.armed = 0 THEN {[reset EXCEPT !.result = "BUSY"]} ELSE {}

\* app_selftest_run from the subscription to its loop, with the flag reset.
\* ep_timer_start finds the timer of an earlier run, which it starts anew, or
\* an entry for it, unless others have all of them.  The event of a run bears
\* its number here; in the code it does not.
Begin(t) ==
    LET reset == [t EXCEPT !.done = FALSE, !.heard = {}]
    IN  {[reset EXCEPT !.running = TRUE, !.result = "none", !.waited = 0, !.armed = starts + 1]}
          \cup IF t.armed = 0 THEN {[reset EXCEPT !.result = "BUSY"]} ELSE {}

\* ep_framework_start up to the loop of the self-test.
Start == /\ ~test.running /\ starts < MaxStarts
         /\ starts' = starts + 1
         /\ \E o \in Then(Then(FrameworkInit(sys), CoreStart), Subscribe) :
               /\ sys' = o.sys
               /\ test' \in IF o.rc = "OK" THEN Begin(test) ELSE {[test EXCEPT !.result = o.rc]}
         /\ UNCHANGED disk

\* The loop of app_selftest_run, and app_core_run after it.
Poll == /\ test.running
        /\ test' = IF test.done THEN [test EXCEPT !.running = FALSE, !.result = "OK"]
                   ELSE IF test.waited < Polls THEN [test EXCEPT !.waited = @ + 1]
                   ELSE [test EXCEPT !.running = FALSE, !.result = "TIMEOUT", !.gaveUp = TRUE]
        /\ UNCHANGED <<disk, sys, starts>>

\* The timer thread: the timer of the self-test expires.
TimerExpires == /\ test.armed # 0
                /\ test' = [test EXCEPT !.armed = 0, !.posted = Append(@, test.armed)]
                /\ UNCHANGED <<disk, sys, starts>>

\* The event thread calls app_timer_done_handler.
Dispatch == /\ test.posted # <<>>
            /\ test' = [test EXCEPT !.posted = Tail(@), !.done = TRUE, !.heard = @ \cup {Head(test.posted)}]
            /\ UNCHANGED <<disk, sys, starts>>

\* The application registers a device, with an ep_device_init of its own where
\* the framework has not got to it; or takes a pin under one of its names.
AppRegisters == \E d \in Extras :
    /\ ~test.running
    /\ sys' = [sys EXCEPT !.devices = TRUE, !.slots = Register(sys.slots, d).slots]
    /\ UNCHANGED <<disk, test, starts>>

AppTakesPin == /\ ~test.running
               /\ \E name \in Pins \cup DOMAIN Alias : \E o \in Request(sys, name, "app") : sys' = o.sys
               /\ UNCHANGED <<disk, test, starts>>

FileReplaced == /\ ~test.running
                /\ disk' \in Files
                /\ UNCHANGED <<sys, test, starts>>

Next == \/ Start \/ Poll \/ TimerExpires \/ Dispatch
        \/ AppRegisters \/ AppTakesPin \/ FileReplaced

Spec == Init /\ [][Next]_vars

-----------------------------------------------------------------------------
\* A file is applied line by line: what is in force is what was before, with
\* the last line for each key, up to a line that was not accepted
\* (docs/superpowers/specs/2026-05-31-config-file-load-design.md).
Last(lines, n, key) == {i \in 1..n : lines[i].key = key /\ \A j \in (i + 1)..n : lines[j].key # key}
Applied(old, new, n) ==
    /\ DOMAIN new = DOMAIN old \cup {disk.lines[i].key : i \in 1..n}
    /\ \A k \in DOMAIN new :
          IF Last(disk.lines, n, k) = {} THEN new[k] = old[k]
          ELSE \A i \in Last(disk.lines, n, k) :
                  new[k] = [type |-> disk.lines[i].type, value |-> disk.lines[i].value]
PrefixApplied ==
    [][sys'.entries # sys.entries =>
          /\ Cardinality(DOMAIN sys'.entries) <= MaxItems
          /\ \E n \in 1..Len(disk.lines) :
                /\ Applied(sys.entries, sys'.entries, n)
                /\ \A i \in 1..n : disk.lines[i].type # "bad"
                /\ n < Len(disk.lines) => /\ ParseLine(sys'.entries, disk.lines[n + 1]) # "OK"
                                          /\ test'.result # "OK" /\ ~test'.running]_vars

\* Whatever failed before: a start that succeeds has started everything, with
\* the log level the configuration asks for.  Its self-test passes only if an
\* event came through the timer and the event bus since it began: its own, and
\* nothing else, unless an earlier run has given up; from then on a late event
\* of another run may be what it hears.
StartComplete == test.running \/ test.result \in {"OK", "TIMEOUT"} =>
    /\ test.result = "OK" => test.heard = {starts} \/ (test.gaveUp /\ test.heard # {})
    /\ sys.log /\ sys.event /\ sys.timer /\ sys.devices /\ sys.lcd
    /\ sys.level = GetInt(sys.entries, "log.level", Info) /\ sys.level \in Levels
    /\ \A i \in DOMAIN Defaults : Find(sys.slots, Defaults[i].name)

\* However often the start is tried again, one thread serves the timers and
\* one the events, and it reads from the queue that is published to.
OneThreadEach == /\ sys.drains = IF sys.event THEN {sys.queue} ELSE {}
                 /\ sys.scans = IF sys.timer THEN 1 ELSE 0

\* A device is registered once, whoever registers it and how often.
NoDuplicateDevice == \A i, j \in DOMAIN sys.slots : sys.slots[i].name = sys.slots[j].name => i = j

\* A device found by its type and number is the same ever after.
DevicesStay == [][\A t \in {Defaults[i].type : i \in DOMAIN Defaults}, n \in 0..(MaxDevices - 1) :
                     FindByType(sys.slots, t, n) \subseteq FindByType(sys'.slots, t, n)]_vars

\* A pin has one user, whatever name it was asked for by, and the display
\* service only works with a pin of its own that it can write.
OnePinUser == /\ \A p \in Pins : Cardinality(sys.pins[p].users) <= 1
              /\ sys.lcd => sys.pins["PD.3"] = [users |-> {"lcd"}, output |-> TRUE]

\* However often the start is tried again, by whom, and whatever failed:
\* threads, devices and the pin are there once.
StartedOnce == OneThreadEach /\ NoDuplicateDevice /\ OnePinUser
=============================================================================
