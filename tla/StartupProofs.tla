---------------------------- MODULE StartupProofs ---------------------------
(***************************************************************************)
(* Proofs about Startup, for any configuration files, any default devices  *)
(* and any number of attempts.  They follow the order of a start: first    *)
(* what each call does to the state it meets (calls, registry, table of    *)
(* the configuration), then how far the chain of calls gets, then the      *)
(* invariant that one attempt leaves to the next.                          *)
(*                                                                         *)
(* The loops over the default devices and over the lines of a file are     *)
(* recursive functions; the lemma UpTo is the induction they need.         *)
(***************************************************************************)
EXTENDS Startup, FiniteSetTheorems, SequenceTheorems, WellFoundedInduction, TLAPS

-----------------------------------------------------------------------------
(* The threads and the pins, call by call.                                 *)

\* sys is a record with these fields, whatever they hold.
Fields == {"log", "level", "entries", "event", "timer", "devices", "slots", "queue", "drains", "scans",
           "pins", "lcd", "handlers"}
Whole(s) == s = [x \in Fields |-> s[x]]

\* A call changes these fields only.
Frame(F, s, t) == \A x \in Fields \ F : t[x] = s[x]

\* What a pin may be: free, or given to one user.
Given == [users : {{}, {"lcd"}, {"app"}}, output : BOOLEAN]

\* The threads that run, and the users of the pins, in the state s of the system.
Single(s) == /\ Whole(s)
             /\ s.event \in BOOLEAN /\ s.timer \in BOOLEAN /\ s.lcd \in BOOLEAN
             /\ s.drains = IF s.event THEN {s.queue} ELSE {}
             /\ s.scans = IF s.timer THEN 1 ELSE 0
             /\ s.pins \in [Pins -> Given]
             /\ s.lcd => s.pins["PD.3"] = [users |-> {"lcd"}, output |-> TRUE]

\* The outcomes of a call all are such states.
Keeps(outcomes) == \A o \in outcomes : Single(o.sys)

LEMMA LogKeeps == ASSUME NEW s, Single(s) PROVE Keeps(LogInit(s))
  BY DEF Keeps, LogInit, Ok, Fails, Single, Whole, Fields

LEMMA EventKeeps == ASSUME NEW s, Single(s) PROVE Keeps(EventInit(s))
<1> DEFINE q == [s EXCEPT !.queue = @ + 1]
           r == [q EXCEPT !.event = TRUE, !.drains = @ \cup {q.queue}]
<1>1. CASE s.event
  BY <1>1 DEF Keeps, EventInit, Ok
<1>2. CASE ~s.event
  <2>1. Single(q)
    BY <1>2 DEF Single, Whole, Fields
  <2>2. Whole(r) /\ r.event = TRUE /\ r.queue = q.queue /\ r.drains = q.drains \cup {q.queue}
        /\ r.timer = q.timer /\ r.scans = q.scans /\ r.pins = q.pins /\ r.lcd = q.lcd
    BY <2>1 DEF Single, Whole, Fields
  <2>3. q.drains = {}
    BY <1>2 DEF Single, Whole, Fields
  <2>4. r.drains = {r.queue}
    BY <2>2, <2>3
  <2> HIDE DEF q, r
  <2>5. Single(r)
    BY <2>1, <2>2, <2>4 DEF Single
  <2> QED
    BY <1>2, <2>1, <2>5 DEF Keeps, EventInit, Ok, Fails, q, r
<1> QED
  BY <1>1, <1>2 DEF Single

\* Calls that change none of the threads and no pin.
LEMMA LoadKeeps == ASSUME NEW s, Single(s) PROVE Keeps(LoadDefaults(s))
  BY DEF Keeps, LoadDefaults, Single, Whole, Fields

LEMMA LevelKeeps == ASSUME NEW s, Single(s) PROVE Keeps(ApplyLevel(s))
  BY DEF Keeps, ApplyLevel, Ok, Fails, Single, Whole, Fields

LEMMA DevicesKeep == ASSUME NEW s, Single(s) PROVE Keeps(DevicesInit(s))
<1> DEFINE t == [s EXCEPT !.devices = TRUE, !.slots = RegisterDefaults(s.slots).slots]
<1>1. Single(t)
  BY DEF Single, Whole, Fields
<1>2. DevicesInit(s) = {[rc |-> RegisterDefaults(s.slots).rc, sys |-> t]}
  BY DEF DevicesInit
<1> QED
  BY <1>1, <1>2 DEF Keeps

LEMMA SubscribeKeeps == ASSUME NEW s, Single(s) PROVE Keeps(Subscribe(s))
  BY DEF Keeps, Subscribe, Ok, Fails, Single, Whole, Fields

\* A thread for the timers is created once, after that for the events.
LEMMA TimerKeeps == ASSUME NEW s, Single(s) PROVE Keeps(TimerInit(s))
<1> DEFINE Step(t) == IF t.timer THEN Ok(t)
                      ELSE Fails("BUSY", t) \cup Ok([t EXCEPT !.timer = TRUE, !.scans = @ + 1])
<1>1. ASSUME NEW t, Single(t) PROVE Keeps(Step(t))
  <2>1. CASE t.timer
    BY <1>1, <2>1 DEF Keeps, Ok
  <2>2. CASE ~t.timer
    <3> DEFINE u == [t EXCEPT !.timer = TRUE, !.scans = @ + 1]
    <3>1. Whole(u) /\ u.timer = TRUE /\ u.scans = t.scans + 1 /\ u.event = t.event /\ u.lcd = t.lcd
          /\ u.queue = t.queue /\ u.drains = t.drains /\ u.pins = t.pins
      BY <1>1 DEF Single, Whole, Fields
    <3>2. u.scans = 1
      BY <1>1, <2>2, <3>1 DEF Single
    <3> HIDE DEF u
    <3>3. Single(u)
      BY <1>1, <3>1, <3>2 DEF Single
    <3> QED
      BY <1>1, <2>2, <3>3 DEF Keeps, Ok, Fails, u
  <2> QED
    BY <1>1, <2>1, <2>2 DEF Single
<1>2. Keeps(EventInit(s))
  BY EventKeeps
<1> QED
  BY <1>1, <1>2 DEF Keeps, TimerInit, Then

\* The state after pin p was given to user, and after the display took its pin.
Taken(s, p, user) == [s EXCEPT !.pins[p] = [users |-> @.users \cup {user}, output |-> FALSE]]
Ready(s) == [[Taken(s, "PD.3", "lcd") EXCEPT !.pins["PD.3"].output = TRUE] EXCEPT !.lcd = TRUE]

\* A request changes nothing, or gives away a pin that was free.
LEMMA RequestOutcome ==
  ASSUME NEW s, NEW name, NEW user, NEW o \in Request(s, name, user)
  PROVE  \/ o.sys = s /\ o.rc \in {"BUSY", "UNSUPPORTED"}
         \/ \E p \in Pins : p \in Entries(name) /\ s.pins[p].users = {}
                           /\ o = [rc |-> "OK", sys |-> Taken(s, p, user)]
<1>1. CASE Entries(name) = {}
  BY <1>1 DEF Request, Fails
<1>2. CASE Entries(name) # {}
  <2>1. PICK p \in Entries(name) :
           o \in IF s.pins[p].users # {} THEN Fails("BUSY", s)
                 ELSE Fails("UNSUPPORTED", s) \cup Ok(Taken(s, p, user))
    BY <1>2, Zenon DEF Request, Taken
  <2>2. p \in Pins
    BY DEF Entries
  <2>3. CASE o = [rc |-> "BUSY", sys |-> s] \/ o = [rc |-> "UNSUPPORTED", sys |-> s]
    BY <2>3
  <2>4. CASE s.pins[p].users = {} /\ o = [rc |-> "OK", sys |-> Taken(s, p, user)]
    BY <2>2, <2>4
  <2>5. \/ o = [rc |-> "BUSY", sys |-> s] \/ o = [rc |-> "UNSUPPORTED", sys |-> s]
        \/ s.pins[p].users = {} /\ o = [rc |-> "OK", sys |-> Taken(s, p, user)]
    <3>1. CASE s.pins[p].users # {}
      BY <2>1, <3>1, Zenon DEF Fails
    <3>2. CASE s.pins[p].users = {}
      BY <2>1, <3>2, Zenon DEF Fails, Ok
    <3> QED
      BY <3>1, <3>2
  <2> QED
    BY <2>3, <2>4, <2>5
<1> QED
  BY <1>1, <1>2

LEMMA TakenSingle ==
  ASSUME NEW s, Single(s), NEW p \in Pins, s.pins[p].users = {}, NEW user \in {"lcd", "app"}
  PROVE  Single(Taken(s, p, user)) /\ Frame({"pins"}, s, Taken(s, p, user))
<1> DEFINE t == Taken(s, p, user)
<1>1. /\ Whole(t) /\ \A x \in Fields \ {"pins"} : t[x] = s[x]
      /\ t.pins = [s.pins EXCEPT ![p] = [users |-> @.users \cup {user}, output |-> FALSE]]
  BY DEF Taken, Single, Whole, Fields
<1>2. s.pins[p].users \cup {user} \in {{"lcd"}, {"app"}}
  OBVIOUS
<1>3. t.pins = [s.pins EXCEPT ![p] = [users |-> s.pins[p].users \cup {user}, output |-> FALSE]]
  BY <1>1
<1>4. [users |-> s.pins[p].users \cup {user}, output |-> FALSE] \in Given
  BY <1>2 DEF Given
<1> HIDE DEF t
<1>5. t.pins \in [Pins -> Given]
  BY <1>3, <1>4 DEF Single
<1>6. s.lcd => p # "PD.3"
  BY DEF Single
<1>7. s.lcd => t.pins["PD.3"] = s.pins["PD.3"]
  BY <1>3, <1>6 DEF Single, Pins
<1>8. /\ t.event = s.event /\ t.timer = s.timer /\ t.lcd = s.lcd /\ t.drains = s.drains
      /\ t.queue = s.queue /\ t.scans = s.scans
  BY <1>1 DEF Fields
<1>9. Single(t)
  BY <1>1, <1>5, <1>7, <1>8 DEF Single
<1> QED
  BY <1>1, <1>9 DEF Frame, t

\* The display service has its pin already, or the call fails and changes
\* nothing, or it takes the pin and can write it.
LEMMA CoreOutcome ==
  ASSUME NEW s, Single(s), NEW o \in CoreStart(s)
  PROVE  \/ o.sys = s /\ o.rc \in {"OK", "BUSY", "UNSUPPORTED"} /\ (o.rc = "OK" => s.lcd)
         \/ o.rc = "OK" /\ o.sys = Ready(s) /\ s.pins["PD.3"].users = {}
<1> DEFINE asked == Request(s, "lcd_sleep_gpio", "lcd")
           Set(t) == SetOutput(t, "PD.3")
           Done(t) == Ok([t EXCEPT !.lcd = TRUE])
<1>1. CASE s.lcd
  <2>1. CoreStart(s) = Ok(s)
    BY <1>1, Zenon DEF CoreStart, LcdInit
  <2> QED
    BY <1>1, <2>1 DEF Ok
<1>2. CASE ~s.lcd
  <2>1. o \in Then(Then(asked, Set), Done)
    BY <1>2, Zenon DEF CoreStart, LcdInit
  <2>2. PICK q \in Then(asked, Set) : IF q.rc = "OK" THEN o \in Done(q.sys) ELSE o = q
    BY <2>1, Zenon DEF Then
  <2>3. PICK r \in asked : IF r.rc = "OK" THEN q \in Set(r.sys) ELSE q = r
    BY <2>2, Zenon DEF Then
  <2>4. CASE r.sys = s /\ r.rc \in {"BUSY", "UNSUPPORTED"}
    <3>1. q = r
      BY <2>3, <2>4
    <3>2. o = r
      BY <2>2, <2>4, <3>1
    <3> QED
      BY <2>4, <3>2
  <2>5. CASE \E p \in Pins : p \in Entries("lcd_sleep_gpio") /\ s.pins[p].users = {}
                            /\ r = [rc |-> "OK", sys |-> Taken(s, p, "lcd")]
    <3>1. PICK p \in Pins : p \in Entries("lcd_sleep_gpio") /\ s.pins[p].users = {}
                            /\ r = [rc |-> "OK", sys |-> Taken(s, p, "lcd")]
      BY <2>5
    <3>2. p = "PD.3"
      BY <3>1 DEF Entries, Pins, Alias
    <3> DEFINE t == Taken(s, "PD.3", "lcd")
               u == [t EXCEPT !.pins["PD.3"].output = TRUE]
               v == [u EXCEPT !.lcd = TRUE]
    <3>3. r.rc = "OK" /\ r.sys = t
      BY <3>1, <3>2
    <3>4. q \in SetOutput(t, "PD.3")
      BY <2>3, <3>3
    <3>5. t.pins["PD.3"].users # {}
      <4>1. t.pins = [s.pins EXCEPT !["PD.3"] = [users |-> @.users \cup {"lcd"}, output |-> FALSE]]
        BY DEF Taken, Single, Whole, Fields
      <4>2. t.pins["PD.3"] = [users |-> s.pins["PD.3"].users \cup {"lcd"}, output |-> FALSE]
        BY <4>1 DEF Single, Pins
      <4> QED
        BY <4>2
    <3> HIDE DEF t
    <3>6. q \in Ok(u)
      BY <3>4, <3>5, Zenon DEF SetOutput
    <3> HIDE DEF u
    <3>7. q.rc = "OK" /\ q.sys = u
      BY <3>6 DEF Ok
    <3>8. o \in Ok(v)
      BY <2>2, <3>7
    <3> HIDE DEF v
    <3>9. o.rc = "OK" /\ o.sys = v
      BY <3>8 DEF Ok
    <3> QED
      BY <3>1, <3>2, <3>9, Zenon DEF Ready, t, u, v
  <2> QED
    BY <2>3, <2>4, <2>5, RequestOutcome
<1> QED
  BY <1>1, <1>2 DEF Single

LEMMA ReadySingle ==
  ASSUME NEW s, Single(s), s.pins["PD.3"].users = {}
  PROVE  Single(Ready(s)) /\ Frame({"pins", "lcd"}, s, Ready(s)) /\ Ready(s).lcd = TRUE
<1> DEFINE t == Taken(s, "PD.3", "lcd")
           u == Ready(s)
<1>1. Single(t) /\ Frame({"pins"}, s, t)
  BY TakenSingle DEF Pins
<1>2. t.pins["PD.3"].users = {"lcd"}
  <2>1. t.pins = [s.pins EXCEPT !["PD.3"] = [users |-> @.users \cup {"lcd"}, output |-> FALSE]]
    BY DEF Taken, Single, Whole, Fields
  <2>2. t.pins["PD.3"] = [users |-> s.pins["PD.3"].users \cup {"lcd"}, output |-> FALSE]
    BY <2>1 DEF Single, Pins
  <2> QED
    BY <2>2
<1> HIDE DEF t
<1>3. u = [[t EXCEPT !.pins["PD.3"].output = TRUE] EXCEPT !.lcd = TRUE]
  BY DEF Ready, t
<1> HIDE DEF u
<1>4. /\ Whole(u) /\ u.lcd = TRUE /\ \A x \in Fields \ {"pins", "lcd"} : u[x] = t[x]
      /\ u.pins = [t.pins EXCEPT !["PD.3"].output = TRUE]
  BY <1>1, <1>3 DEF Single, Whole, Fields
<1>5. t.pins["PD.3"] \in Given
  BY <1>1 DEF Single, Pins
<1>6. [t.pins["PD.3"] EXCEPT !.output = TRUE] = [users |-> {"lcd"}, output |-> TRUE]
  <2> DEFINE g == t.pins["PD.3"]
  <2>1. g \in [users : {{}, {"lcd"}, {"app"}}, output : BOOLEAN] /\ g.users = {"lcd"}
    BY <1>2, <1>5 DEF Given
  <2> HIDE DEF g
  <2>2. [g EXCEPT !.output = TRUE] \in [users : {{}, {"lcd"}, {"app"}}, output : BOOLEAN]
    BY <2>1
  <2>3. [g EXCEPT !.output = TRUE].users = {"lcd"} /\ [g EXCEPT !.output = TRUE].output = TRUE
    BY <2>1
  <2> DEFINE k == [g EXCEPT !.output = TRUE]
  <2> HIDE DEF k
  <2>4. k \in [users : {{}, {"lcd"}, {"app"}}, output : BOOLEAN] /\ k.users = {"lcd"} /\ k.output = TRUE
    BY <2>2, <2>3 DEF k
  <2>5. k = [users |-> {"lcd"}, output |-> TRUE]
    BY <2>4
  <2> QED
    BY <2>5 DEF g, k
<1>7. u.pins = [t.pins EXCEPT !["PD.3"] = [users |-> {"lcd"}, output |-> TRUE]]
  BY <1>4, <1>6
<1>8. u.pins \in [Pins -> Given] /\ u.pins["PD.3"] = [users |-> {"lcd"}, output |-> TRUE]
  BY <1>1, <1>7 DEF Single, Given, Pins
<1>9. /\ u.event = t.event /\ u.timer = t.timer /\ u.drains = t.drains
      /\ u.queue = t.queue /\ u.scans = t.scans
  BY <1>4 DEF Fields
<1>10. Single(u)
  BY <1>1, <1>4, <1>8, <1>9 DEF Single
<1> QED
  BY <1>1, <1>4, <1>10 DEF Frame, u

\* The pin is asked for again only by a start that has not got it.
LEMMA CoreKeeps == ASSUME NEW s, Single(s) PROVE Keeps(CoreStart(s))
  BY CoreOutcome, ReadySingle DEF Keeps

-----------------------------------------------------------------------------
(* Induction over the lines of a file and over the default devices.        *)

\* A set of numbers that has 0 and with each number the next one.
LEMMA UpTo ==
  ASSUME NEW n \in Nat, NEW S, 0 \in S, \A k \in 0..(n - 1) : k \in S => k + 1 \in S
  PROVE  n \in S
<1> DEFINE R == {p \in Nat \X Nat : p[1] < p[2]}
           T == (0..n) \ S
<1>1. IsWellFoundedOn(R, Nat)
  <2>1. OpToRel(<, Nat) = R
    BY Zenon DEF OpToRel
  <2> QED
    BY <2>1, NatLessThanWellFounded, Zenon
<1>2. ASSUME T # {} PROVE FALSE
  <2>1. PICK x \in T : \A y \in T : <<y, x>> \notin R
    <3>1. T \subseteq Nat
      OBVIOUS
    <3> HIDE DEF T, R
    <3> QED
      BY <1>1, <1>2, <3>1, WFMin
  <2>2. x # 0 /\ x - 1 \in 0..(n - 1) /\ x \in Nat
    BY <2>1
  <2>3. <<x - 1, x>> \in R
    BY <2>2
  <2>4. x - 1 \notin T
    BY <2>1, <2>3
  <2> QED
    BY <2>1, <2>2, <2>4
<1> QED
  BY <1>2

-----------------------------------------------------------------------------
(* The device registry.                                                    *)

Device == [name : STRING, type : STRING]
NoDuplicates(slots) == \A i, j \in DOMAIN slots : slots[i].name = slots[j].name => i = j
Registry(slots) == slots \in Seq(Device) /\ NoDuplicates(slots)
Extends(old, new) == Len(old) <= Len(new) /\ \A i \in 1..Len(old) : new[i] = old[i]
AllFound(slots, n) == \A i \in 1..n : Find(slots, Defaults[i].name)

LEMMA ExtendsTwice ==
  ASSUME NEW a \in Seq(Device), NEW b \in Seq(Device), NEW c \in Seq(Device), Extends(a, b), Extends(b, c)
  PROVE  Extends(a, c)
  BY DEF Extends

LEMMA FoundLater ==
  ASSUME NEW a \in Seq(Device), NEW b \in Seq(Device), Extends(a, b), NEW name, Find(a, name)
  PROVE  Find(b, name)
  BY DEF Extends, Find

\* A device that is registered is the last of the slots.
LEMMA RegisterGrows ==
  ASSUME NEW slots, Registry(slots), NEW d \in Device
  PROVE  LET r == Register(slots, d)
         IN  /\ Registry(r.slots) /\ Extends(slots, r.slots) /\ r.rc \in {"OK", "BUSY"}
             /\ r.rc = "OK" => Find(r.slots, d.name)
<1>1. CASE Find(slots, d.name) \/ Len(slots) = MaxDevices
  BY <1>1 DEF Register, Registry, Extends
<1>2. CASE ~(Find(slots, d.name) \/ Len(slots) = MaxDevices)
  <2> DEFINE new == Append(slots, d)
  <2>1. new \in Seq(Device) /\ Len(new) = Len(slots) + 1 /\ new[Len(slots) + 1] = d
        /\ \A i \in 1..Len(slots) : new[i] = slots[i]
    BY DEF Registry
  <2>2. \A i \in 1..Len(slots) : slots[i].name # d.name
    BY <1>2 DEF Find, Registry
  <2>3. Register(slots, d) = [rc |-> "OK", slots |-> new]
    BY <1>2 DEF Register
  <2>4. Len(slots) \in Nat /\ DOMAIN slots = 1..Len(slots) /\ DOMAIN new = 1..(Len(slots) + 1)
    BY <2>1 DEF Registry
  <2> HIDE DEF new
  <2>5. NoDuplicates(new)
    BY <2>1, <2>2, <2>4 DEF Registry, NoDuplicates
  <2>6. Extends(slots, new)
    BY <2>1, <2>4 DEF Extends
  <2>7. Find(new, d.name)
    BY <2>1, <2>4 DEF Find
  <2> QED
    BY <2>1, <2>3, <2>5, <2>6, <2>7 DEF Registry
<1> QED
  BY <1>1, <1>2

\* The row n of the table that RegisterDefaults defines, f the rows before it.
DefaultRow(slots, f, n) == IF n = 0 THEN [rc |-> "OK", slots |-> slots]
                           ELSE IF f[n - 1].rc = "OK" THEN RegisterDefault(f[n - 1].slots, Defaults[n])
                           ELSE f[n - 1]
DefaultRows(slots, f, k) == f = [n \in 0..k |-> DefaultRow(slots, f, n)]

LEMMA DefaultRowsExist ==
  ASSUME NEW slots, NEW m \in Nat
  PROVE  \E f : DefaultRows(slots, f, m)
<1> DEFINE S == {k \in 0..m : \E f : DefaultRows(slots, f, k)}
<1>1. 0 \in S
  <2>1. DefaultRows(slots, [n \in 0..0 |-> [rc |-> "OK", slots |-> slots]], 0)
    BY DEF DefaultRows, DefaultRow
  <2> QED
    BY <2>1
<1>2. ASSUME NEW k \in 0..(m - 1), k \in S PROVE k + 1 \in S
  <2>1. PICK f : DefaultRows(slots, f, k)
    BY <1>2
  <2> DEFINE g == [n \in 0..(k + 1) |-> IF n = k + 1 THEN DefaultRow(slots, f, n) ELSE f[n]]
  <2>2. ASSUME NEW n \in 0..(k + 1) PROVE g[n] = DefaultRow(slots, g, n)
    <3>1. n # 0 => g[n - 1] = f[n - 1]
      OBVIOUS
    <3>2. DefaultRow(slots, g, n) = DefaultRow(slots, f, n)
      BY <3>1 DEF DefaultRow
    <3>3. n \in 0..k => f[n] = DefaultRow(slots, f, n)
      BY <2>1 DEF DefaultRows
    <3>4. n # k + 1 => n \in 0..k
      OBVIOUS
    <3> QED
      BY <3>2, <3>3, <3>4
  <2>3. DefaultRows(slots, g, k + 1)
    BY <2>2 DEF DefaultRows
  <2> QED
    BY <2>3
<1> HIDE DEF S
<1>3. m \in S
  BY <1>1, <1>2, UpTo
<1> QED
  BY <1>3 DEF S

\* However far the default devices get, the registry stays one, what was in it
\* keeps its slot, and a success finds them all there.
LEMMA DefaultsGrow ==
  ASSUME NEW slots, Registry(slots)
  PROVE  LET r == RegisterDefaults(slots)
         IN  /\ Registry(r.slots) /\ Extends(slots, r.slots) /\ r.rc \in {"OK", "BUSY"}
             /\ r.rc = "OK" => AllFound(r.slots, Len(Defaults))
<1> DEFINE m == Len(Defaults)
           f == CHOOSE f : DefaultRows(slots, f, m)
           Good(k) == /\ Registry(f[k].slots) /\ Extends(slots, f[k].slots) /\ f[k].rc \in {"OK", "BUSY"}
                      /\ f[k].rc = "OK" => AllFound(f[k].slots, k)
           S == {k \in 0..m : Good(k)}
<1>1. m \in Nat
  BY DeviceAssumption
<1>2. DefaultRows(slots, f, m)
  BY <1>1, DefaultRowsExist
<1>3. RegisterDefaults(slots) = f[m]
  BY DEF RegisterDefaults, DefaultRows, DefaultRow
<1> HIDE DEF f
<1>4. 0 \in S
  <2>1. f[0] = [rc |-> "OK", slots |-> slots]
    BY <1>1, <1>2 DEF DefaultRows, DefaultRow
  <2> QED
    BY <1>1, <2>1 DEF Extends, AllFound, Registry
<1>5. ASSUME NEW k \in 0..(m - 1), k \in S PROVE k + 1 \in S
  <2>1. f[k + 1] = DefaultRow(slots, f, k + 1) /\ k + 1 \in 0..m /\ (k + 1) - 1 = k /\ k + 1 # 0
    BY <1>1, <1>2 DEF DefaultRows
  <2> DEFINE old == f[k].slots
             d == Defaults[k + 1]
             r == RegisterDefault(old, d)
  <2>2. Good(k)
    BY <1>5
  <2>3. CASE f[k].rc # "OK"
    <3>1. f[k + 1] = f[k]
      BY <2>1, <2>3 DEF DefaultRow
    <3> QED
      BY <2>1, <2>2, <2>3, <3>1
  <2>4. CASE f[k].rc = "OK"
    <3>1. f[k + 1] = r
      BY <2>1, <2>4 DEF DefaultRow
    <3>2. d \in Device
      <4>1. k + 1 \in 1..Len(Defaults) /\ Defaults \in Seq(Device)
        BY <1>1, DeviceAssumption DEF Device
      <4> QED
        BY <4>1, ElementOfSeq
    <3>3. /\ Registry(r.slots) /\ Extends(old, r.slots) /\ r.rc \in {"OK", "BUSY"}
          /\ r.rc = "OK" => Find(r.slots, d.name)
      <4>1. CASE Find(old, d.name)
        BY <2>2, <4>1 DEF RegisterDefault, Extends, Registry
      <4>2. CASE ~Find(old, d.name)
        BY <2>2, <3>2, <4>2, RegisterGrows DEF RegisterDefault
      <4> QED
        BY <4>1, <4>2
    <3>4. old \in Seq(Device) /\ r.slots \in Seq(Device) /\ slots \in Seq(Device)
      BY <2>2, <3>3 DEF Registry
    <3>5. Extends(slots, r.slots)
      BY <2>2, <3>3, <3>4, ExtendsTwice
    <3> HIDE DEF r, old
    <3>6. r.rc = "OK" => AllFound(r.slots, k + 1)
      <4> SUFFICES ASSUME r.rc = "OK", NEW i \in 1..(k + 1) PROVE Find(r.slots, Defaults[i].name)
        BY DEF AllFound
      <4>1. CASE i = k + 1
        BY <3>3, <4>1
      <4>2. CASE i # k + 1
        <5>1. Find(old, Defaults[i].name)
          BY <2>2, <2>4, <4>2 DEF AllFound, old
        <5> QED
          BY <3>3, <3>4, <5>1, FoundLater
      <4> QED
        BY <4>1, <4>2
    <3> QED
      BY <2>1, <3>1, <3>3, <3>5, <3>6
  <2> QED
    BY <2>3, <2>4
<1> HIDE DEF S
<1>6. m \in S
  BY <1>1, <1>4, <1>5, UpTo
<1>7. Good(m)
  BY <1>6 DEF S
<1> QED
  BY <1>3, <1>7

-----------------------------------------------------------------------------
(* The configuration file.                                                 *)

ConfigLine == [type : {"int", "bool", "string", "bad"}, key : STRING, value : Int]

\* A table of at most MaxItems entries.
ConfigTable(e) == e = [k \in DOMAIN e |-> e[k]] /\ IsFiniteSet(DOMAIN e) /\ Cardinality(DOMAIN e) <= MaxItems

\* Applied, for any file: the first n lines were applied to the table old.
AppliedFrom(lines, old, new, n) ==
    /\ DOMAIN new = DOMAIN old \cup {lines[i].key : i \in 1..n}
    /\ \A k \in DOMAIN new :
          IF Last(lines, n, k) = {} THEN new[k] = old[k]
          ELSE \A i \in Last(lines, n, k) : new[k] = [type |-> lines[i].type, value |-> lines[i].value]

\* An accepted line makes the table that of one more line.
LEMMA PutApplies ==
  ASSUME NEW lines \in Seq(ConfigLine), NEW old, NEW e, NEW n \in Nat, n + 1 <= Len(lines),
         AppliedFrom(lines, old, e, n), ConfigTable(e), Prepare(e, lines[n + 1]) = "OK"
  PROVE  /\ AppliedFrom(lines, old, Put(e, lines[n + 1]), n + 1)
         /\ ConfigTable(Put(e, lines[n + 1]))
<1> DEFINE l == lines[n + 1]
           new == Put(e, l)
<1>1. DOMAIN new = DOMAIN e \cup {l.key} /\ new = [k \in DOMAIN new |-> new[k]]
      /\ new[l.key] = [type |-> l.type, value |-> l.value]
      /\ \A k \in DOMAIN e \ {l.key} : new[k] = e[k]
  BY DEF Put
<1>2. ConfigTable(new)
  <2>1. IsFiniteSet(DOMAIN new)
        /\ Cardinality(DOMAIN new) = IF l.key \in DOMAIN e THEN Cardinality(DOMAIN e) ELSE Cardinality(DOMAIN e) + 1
    <3>1. IsFiniteSet(DOMAIN e)
      BY DEF ConfigTable
    <3> HIDE DEF new, l
    <3>2. IsFiniteSet(DOMAIN e \cup {l.key})
          /\ Cardinality(DOMAIN e \cup {l.key}) = IF l.key \in DOMAIN e THEN Cardinality(DOMAIN e)
                                                 ELSE Cardinality(DOMAIN e) + 1
      BY <3>1, FS_AddElement
    <3> QED
      BY <1>1, <3>2
  <2>2. l.key \in DOMAIN e \/ Cardinality(DOMAIN e) < MaxItems
    BY DEF Prepare
  <2>3. Cardinality(DOMAIN e) \in Nat
    BY FS_CardinalityType DEF ConfigTable
  <2>4. Cardinality(DOMAIN new) <= MaxItems
    BY <2>1, <2>2, <2>3, ConfigAssumption DEF ConfigTable
  <2> QED
    BY <1>1, <2>1, <2>4 DEF ConfigTable
<1>3. 1..(n + 1) = 1..n \cup {n + 1}
  OBVIOUS
<1>4. {lines[i].key : i \in 1..(n + 1)} = {lines[i].key : i \in 1..n} \cup {l.key}
  BY <1>3
<1> HIDE DEF new
<1>5. DOMAIN new = DOMAIN old \cup {lines[i].key : i \in 1..(n + 1)}
  BY <1>1, <1>4 DEF AppliedFrom
<1>6. Last(lines, n + 1, l.key) = {n + 1}
  BY <1>3 DEF Last
<1>7. ASSUME NEW k, k # l.key PROVE Last(lines, n + 1, k) = Last(lines, n, k)
  <2>1. ASSUME NEW i \in 1..n PROVE (i + 1)..(n + 1) = (i + 1)..n \cup {n + 1}
    OBVIOUS
  <2> QED
    BY <1>3, <1>7, <2>1 DEF Last
<1> HIDE DEF l
<1>8. ASSUME NEW k \in DOMAIN new
      PROVE  IF Last(lines, n + 1, k) = {} THEN new[k] = old[k]
             ELSE \A i \in Last(lines, n + 1, k) : new[k] = [type |-> lines[i].type, value |-> lines[i].value]
  <2>1. CASE k = l.key
    BY <1>1, <1>6, <2>1 DEF l
  <2>2. CASE k # l.key
    BY <1>1, <1>7, <2>2 DEF AppliedFrom
  <2> QED
    BY <2>1, <2>2
<1>9. AppliedFrom(lines, old, new, n + 1)
  BY <1>5, <1>8 DEF AppliedFrom
<1> QED
  BY <1>2, <1>9 DEF new, l

\* The row n of the table that ParseContent defines, f the rows before it.
LineRow(e, lines, f, n) ==
    IF n = 0 THEN [rc |-> "OK", entries |-> e]
    ELSE LET s == f[n - 1]
             rc == ParseLine(s.entries, lines[n])
         IN  IF s.rc # "OK" THEN s
             ELSE IF rc = "OK" THEN [s EXCEPT !.entries = Put(@, lines[n])]
             ELSE [s EXCEPT !.rc = rc]
LineRows(e, lines, f, k) == f = [n \in 0..k |-> LineRow(e, lines, f, n)]

LEMMA LineRowsExist ==
  ASSUME NEW e, NEW lines, NEW m \in Nat
  PROVE  \E f : LineRows(e, lines, f, m)
<1> DEFINE S == {k \in 0..m : \E f : LineRows(e, lines, f, k)}
<1>1. 0 \in S
  <2>1. LineRows(e, lines, [n \in 0..0 |-> [rc |-> "OK", entries |-> e]], 0)
    BY DEF LineRows, LineRow
  <2> QED
    BY <2>1
<1>2. ASSUME NEW k \in 0..(m - 1), k \in S PROVE k + 1 \in S
  <2>1. PICK f : LineRows(e, lines, f, k)
    BY <1>2
  <2> DEFINE g == [n \in 0..(k + 1) |-> IF n = k + 1 THEN LineRow(e, lines, f, n) ELSE f[n]]
  <2>2. ASSUME NEW n \in 0..(k + 1) PROVE g[n] = LineRow(e, lines, g, n)
    <3>1. n # 0 => g[n - 1] = f[n - 1]
      OBVIOUS
    <3> HIDE DEF g
    <3>2. LineRow(e, lines, g, n) = LineRow(e, lines, f, n)
      BY <3>1 DEF LineRow
    <3>3. n \in 0..k => f[n] = LineRow(e, lines, f, n)
      BY <2>1 DEF LineRows
    <3>4. n # k + 1 => n \in 0..k
      OBVIOUS
    <3> QED
      BY <3>2, <3>3, <3>4 DEF g
  <2>3. LineRows(e, lines, g, k + 1)
    BY <2>2 DEF LineRows
  <2> QED
    BY <2>3
<1> HIDE DEF S
<1>3. m \in S
  BY <1>1, <1>2, UpTo
<1> QED
  BY <1>3 DEF S

\* What parsing m lines of a file makes of the table e: the lines up to one
\* that was not accepted are applied, and all of them if the result is OK.
Parsed(e, lines, r, m) ==
    /\ r.rc \in {"OK", "INVAL", "BUSY"} /\ r = [rc |-> r.rc, entries |-> r.entries]
    /\ ConfigTable(r.entries)
    /\ \E n \in 0..m : /\ AppliedFrom(lines, e, r.entries, n)
                       /\ \A i \in 1..n : lines[i].type # "bad"
                       /\ n = 0 => r.entries = e
                       /\ r.rc = "OK" <=> n = m
                       /\ n < m => ParseLine(r.entries, lines[n + 1]) # "OK"

LEMMA ContentParsed ==
  ASSUME NEW e, ConfigTable(e), NEW lines \in Seq(ConfigLine)
  PROVE  Parsed(e, lines, ParseContent(e, lines), Len(lines))
<1> DEFINE m == Len(lines)
           f == CHOOSE f : LineRows(e, lines, f, m)
           S == {k \in 0..m : Parsed(e, lines, f[k], k)}
<1>1. m \in Nat
  OBVIOUS
<1>2. LineRows(e, lines, f, m)
  BY <1>1, LineRowsExist
<1>3. ParseContent(e, lines) = f[m]
  BY DEF ParseContent, LineRows, LineRow
<1> HIDE DEF f
<1>4. 0 \in S
  <2>1. f[0] = [rc |-> "OK", entries |-> e]
    BY <1>1, <1>2 DEF LineRows, LineRow
  <2>2. AppliedFrom(lines, e, e, 0)
    <3>1. 1..0 = {}
      OBVIOUS
    <3>2. \A k : Last(lines, 0, k) = {}
      BY <3>1 DEF Last
    <3>3. {lines[i].key : i \in 1..0} = {}
      BY <3>1
    <3> QED
      BY <3>2, <3>3 DEF AppliedFrom
  <2> QED
    BY <1>1, <2>1, <2>2 DEF Parsed
<1>5. ASSUME NEW k \in 0..(m - 1), k \in S PROVE k + 1 \in S
  <2> DEFINE s == f[k]
             l == lines[k + 1]
             t == f[k + 1]
  <2>1. t = LineRow(e, lines, f, k + 1) /\ k + 1 \in 0..m /\ (k + 1) - 1 = k /\ k + 1 # 0
    BY <1>1, <1>2 DEF LineRows
  <2>2. Parsed(e, lines, s, k)
    BY <1>5
  <2>3. l \in ConfigLine
    BY <1>1, <2>1, ElementOfSeq
  <2>4. CASE s.rc # "OK"
    <3>1. t = s
      BY <2>1, <2>4 DEF LineRow
    <3> QED
      BY <2>1, <2>2, <2>4, <3>1 DEF Parsed
  <2>5. CASE s.rc = "OK" /\ ParseLine(s.entries, l) = "OK"
    <3>1. t = [s EXCEPT !.entries = Put(@, l)]
      BY <2>1, <2>5 DEF LineRow
    <3>2. t = [rc |-> "OK", entries |-> Put(s.entries, l)]
      BY <2>2, <2>5, <3>1 DEF Parsed
    <3>3. l.type # "bad" /\ Prepare(s.entries, l) = "OK"
      BY <2>5 DEF ParseLine
    <3>4. AppliedFrom(lines, e, s.entries, k) /\ \A i \in 1..k : lines[i].type # "bad"
      BY <2>2, <2>5 DEF Parsed
    <3>5. AppliedFrom(lines, e, Put(s.entries, l), k + 1) /\ ConfigTable(Put(s.entries, l))
      BY <1>1, <2>1, <2>2, <3>3, <3>4, PutApplies DEF Parsed
    <3>6. \A i \in 1..(k + 1) : lines[i].type # "bad"
      BY <3>3, <3>4
    <3>7. Parsed(e, lines, t, k + 1)
      BY <2>1, <3>2, <3>5, <3>6 DEF Parsed
    <3> QED
      BY <2>1, <3>7
  <2>6. CASE s.rc = "OK" /\ ParseLine(s.entries, l) # "OK"
    <3>1. t = [s EXCEPT !.rc = ParseLine(s.entries, l)]
      BY <2>1, <2>6 DEF LineRow
    <3>2. ParseLine(s.entries, l) \in {"INVAL", "BUSY"}
      BY <2>6 DEF ParseLine, Prepare
    <3>3. t = [rc |-> ParseLine(s.entries, l), entries |-> s.entries]
      BY <2>2, <3>1 DEF Parsed
    <3>4. Parsed(e, lines, t, k + 1)
      BY <2>1, <2>2, <3>2, <3>3 DEF Parsed
    <3> QED
      BY <2>1, <3>4
  <2> QED
    BY <2>4, <2>5, <2>6
<1> HIDE DEF S
<1>6. m \in S
  BY <1>1, <1>4, <1>5, UpTo
<1> QED
  BY <1>3, <1>6 DEF S

-----------------------------------------------------------------------------
(* How far a start gets.                                                   *)

Codes == {"OK", "INVAL", "BUSY", "UNSUPPORTED"}

LEMMA LogFrame ==
  ASSUME NEW s, Single(s), NEW o \in LogInit(s)
  PROVE  Frame({"log"}, s, o.sys) /\ o.rc \in Codes /\ (o.rc = "OK" => o.sys.log = TRUE)
  BY DEF LogInit, Ok, Fails, Single, Whole, Fields, Frame, Codes

LEMMA LoadFrame ==
  ASSUME NEW s, Single(s), NEW o \in LoadDefaults(s)
  PROVE  LET r == LoadFile(s.entries, disk)
         IN  /\ Frame({"entries"}, s, o.sys) /\ o.sys.entries = r.entries
             /\ o.rc = IF r.rc = "UNSUPPORTED" THEN "OK" ELSE r.rc
<1> DEFINE r == LoadFile(s.entries, disk)
<1>1. o = [rc |-> IF r.rc = "UNSUPPORTED" THEN "OK" ELSE r.rc, sys |-> [s EXCEPT !.entries = r.entries]]
  BY DEF LoadDefaults
<1> HIDE DEF r
<1> QED
  BY <1>1 DEF Single, Whole, Fields, Frame, r

LevelInForce(s) == s.level = GetInt(s.entries, "log.level", Info) /\ s.level \in Levels

LEMMA LevelFrame ==
  ASSUME NEW s, Single(s), NEW o \in ApplyLevel(s)
  PROVE  Frame({"level"}, s, o.sys) /\ o.rc \in Codes /\ (o.rc = "OK" => LevelInForce(o.sys))
<1> DEFINE l == GetInt(s.entries, "log.level", Info)
<1>1. CASE l \in Levels
  <2>1. o = [rc |-> "OK", sys |-> [s EXCEPT !.level = l]]
    BY <1>1 DEF ApplyLevel, Ok
  <2>2. o.sys.level = l /\ o.sys.entries = s.entries /\ Frame({"level"}, s, o.sys) /\ o.rc = "OK"
    BY <2>1 DEF Single, Whole, Fields, Frame
  <2> QED
    BY <1>1, <2>2 DEF Codes, LevelInForce
<1>2. CASE l \notin Levels
  BY <1>2 DEF ApplyLevel, Fails, Frame, Codes
<1> QED
  BY <1>1, <1>2

LEMMA EventFrame ==
  ASSUME NEW s, Single(s), NEW o \in EventInit(s)
  PROVE  Frame({"event", "queue", "drains"}, s, o.sys) /\ o.rc \in Codes /\ (o.rc = "OK" => o.sys.event = TRUE)
<1> DEFINE q == [s EXCEPT !.queue = @ + 1]
           r == [q EXCEPT !.event = TRUE, !.drains = @ \cup {q.queue}]
<1>1. CASE s.event
  <2>1. o = [rc |-> "OK", sys |-> s]
    BY <1>1 DEF EventInit, Ok
  <2> QED
    BY <1>1, <2>1 DEF Frame, Codes, Single
<1>2. CASE ~s.event
  <2>1. \/ o = [rc |-> "BUSY", sys |-> s] \/ o = [rc |-> "BUSY", sys |-> q] \/ o = [rc |-> "OK", sys |-> r]
    BY <1>2, Zenon DEF EventInit, Ok, Fails
  <2>2. Frame({"queue"}, s, q) /\ Whole(q)
    BY DEF Frame, Single, Whole, Fields
  <2> HIDE DEF q
  <2>3. Frame({"event", "drains"}, q, r) /\ r.event = TRUE
    BY <2>2 DEF Frame, Whole, Fields
  <2> HIDE DEF r
  <2> QED
    BY <2>1, <2>2, <2>3 DEF Frame, Codes
<1> QED
  BY <1>1, <1>2

LEMMA TimerFrame ==
  ASSUME NEW s, Single(s), NEW o \in TimerInit(s)
  PROVE  /\ Frame({"event", "queue", "drains", "timer", "scans"}, s, o.sys) /\ o.rc \in Codes
         /\ o.rc = "OK" => o.sys.event = TRUE /\ o.sys.timer = TRUE
<1> DEFINE Step(t) == IF t.timer THEN Ok(t)
                      ELSE Fails("BUSY", t) \cup Ok([t EXCEPT !.timer = TRUE, !.scans = @ + 1])
<1>1. PICK p \in EventInit(s) : IF p.rc = "OK" THEN o \in Step(p.sys) ELSE o = p
  BY Zenon DEF TimerInit, Then
<1>2. Frame({"event", "queue", "drains"}, s, p.sys) /\ p.rc \in Codes /\ (p.rc = "OK" => p.sys.event = TRUE)
  BY EventFrame
<1>3. Single(p.sys)
  BY EventKeeps DEF Keeps
<1>4. CASE p.rc # "OK"
  BY <1>1, <1>2, <1>4 DEF Frame
<1>5. CASE p.rc = "OK"
  <2>1. Frame({"timer", "scans"}, p.sys, o.sys) /\ o.rc \in Codes /\ (o.rc = "OK" => o.sys.timer = TRUE)
    <3> DEFINE t == p.sys
               u == [t EXCEPT !.timer = TRUE, !.scans = @ + 1]
    <3>1. CASE t.timer
      <4>1. o = [rc |-> "OK", sys |-> t]
        BY <1>1, <1>5, <3>1 DEF Ok
      <4> QED
        BY <1>3, <3>1, <4>1 DEF Frame, Codes, Single
    <3>2. CASE ~t.timer
      <4>1. o = [rc |-> "BUSY", sys |-> t] \/ o = [rc |-> "OK", sys |-> u]
        BY <1>1, <1>5, <3>2, Zenon DEF Ok, Fails
      <4>2. Frame({"timer", "scans"}, t, u) /\ u.timer = TRUE
        BY <1>3 DEF Frame, Single, Whole, Fields
      <4> HIDE DEF t, u
      <4>3. o.sys = t \/ (o.sys = u /\ o.rc = "OK")
        BY <4>1
      <4>4. o.rc \in Codes /\ (o.rc = "OK" => o.sys = u)
        BY <4>1 DEF Codes
      <4> QED
        BY <4>2, <4>3, <4>4 DEF Frame, t
    <3> QED
      BY <3>1, <3>2
  <2>2. o.sys.event = p.sys.event
    BY <2>1 DEF Frame, Fields
  <2> QED
    BY <1>2, <1>5, <2>1, <2>2 DEF Frame
<1> QED
  BY <1>4, <1>5

LEMMA DevicesFrame ==
  ASSUME NEW s, Single(s), NEW o \in DevicesInit(s)
  PROVE  LET r == RegisterDefaults(s.slots)
         IN  /\ Frame({"devices", "slots"}, s, o.sys) /\ o.sys.slots = r.slots /\ o.rc = r.rc
             /\ o.sys.devices = TRUE
<1> DEFINE r == RegisterDefaults(s.slots)
<1>1. o = [rc |-> r.rc, sys |-> [s EXCEPT !.devices = TRUE, !.slots = r.slots]]
  BY DEF DevicesInit
<1> HIDE DEF r
<1> QED
  BY <1>1 DEF Single, Whole, Fields, Frame, r

LEMMA CoreFrame ==
  ASSUME NEW s, Single(s), NEW o \in CoreStart(s)
  PROVE  Frame({"pins", "lcd"}, s, o.sys) /\ o.rc \in Codes /\ (o.rc = "OK" => o.sys.lcd = TRUE)
<1>1. CASE o.sys = s /\ o.rc \in {"OK", "BUSY", "UNSUPPORTED"} /\ (o.rc = "OK" => s.lcd)
  BY <1>1 DEF Frame, Codes, Single
<1>2. CASE o.rc = "OK" /\ o.sys = Ready(s) /\ s.pins["PD.3"].users = {}
  BY <1>2, ReadySingle DEF Codes
<1> QED
  BY <1>1, <1>2, CoreOutcome

LEMMA SubscribeFrame ==
  ASSUME NEW s, Single(s), NEW o \in Subscribe(s)
  PROVE  Frame({"handlers"}, s, o.sys) /\ o.rc \in Codes
  BY DEF Subscribe, Ok, Fails, Single, Whole, Fields, Frame, Codes

-----------------------------------------------------------------------------
\* Loading a file changes the table, if at all, by some of its first lines,
\* and by all of them unless the load fails.
LEMMA FileApplied ==
  ASSUME NEW e, ConfigTable(e), disk \in Files
  PROVE  LET r == LoadFile(e, disk)
         IN  /\ r.rc \in Codes /\ ConfigTable(r.entries)
             /\ r.entries # e =>
                   \E n \in 1..Len(disk.lines) :
                      /\ Applied(e, r.entries, n)
                      /\ \A i \in 1..n : disk.lines[i].type # "bad"
                      /\ n < Len(disk.lines) => /\ ParseLine(r.entries, disk.lines[n + 1]) # "OK"
                                                /\ r.rc \notin {"OK", "UNSUPPORTED"}
<1> DEFINE r == LoadFile(e, disk)
<1>1. disk.lines \in Seq(ConfigLine) /\ disk.read \in Codes
  BY StartupAssumption DEF ConfigLine, Codes
<1>2. CASE disk.read # "OK" \/ disk.lines = <<>>
  BY <1>1, <1>2 DEF LoadFile, Codes
<1>3. CASE disk.read = "OK" /\ disk.lines # <<>>
  <2>1. r = ParseContent(e, disk.lines)
    BY <1>3 DEF LoadFile
  <2> HIDE DEF r
  <2>2. Parsed(e, disk.lines, r, Len(disk.lines))
    BY <1>1, <2>1, ContentParsed
  <2>3. PICK n \in 0..Len(disk.lines) : /\ AppliedFrom(disk.lines, e, r.entries, n)
                                        /\ \A i \in 1..n : disk.lines[i].type # "bad"
                                        /\ n = 0 => r.entries = e
                                        /\ r.rc = "OK" <=> n = Len(disk.lines)
                                        /\ n < Len(disk.lines) => ParseLine(r.entries, disk.lines[n + 1]) # "OK"
    BY <2>2 DEF Parsed
  <2>4. r.rc \in {"OK", "INVAL", "BUSY"} /\ ConfigTable(r.entries)
    BY <2>2 DEF Parsed
  <2>5. Len(disk.lines) \in Nat
    BY <1>1
  <2>6. r.entries # e => n \in 1..Len(disk.lines)
    BY <2>3, <2>5
  <2>7. Applied(e, r.entries, n)
    BY <2>3 DEF Applied, AppliedFrom
  <2> QED
    BY <2>3, <2>4, <2>5, <2>6, <2>7 DEF r, Codes
<1> QED
  BY <1>2, <1>3

Sound(s) == Single(s) /\ Registry(s.slots) /\ ConfigTable(s.entries)

\* A state t that a start from s may leave behind.
Came(s, t) == /\ Sound(t)
              /\ Extends(s.slots, t.slots)
              /\ t.entries \in {s.entries, LoadFile(s.entries, disk).entries}

\* What the first k calls of the start from s have done by t.
Stage(k, s, t) ==
    /\ t.log = TRUE
    /\ k = 1 => t.entries = s.entries
    /\ k >= 2 => LET r == LoadFile(s.entries, disk)
                 IN  t.entries = r.entries /\ r.rc \in {"OK", "UNSUPPORTED"}
    /\ k >= 3 => LevelInForce(t)
    /\ k >= 4 => t.event = TRUE
    /\ k >= 5 => t.timer = TRUE
    /\ k >= 6 => t.devices = TRUE /\ AllFound(t.slots, Len(Defaults))
    /\ k >= 7 => t.lcd = TRUE

Leads(k, s, outcomes) ==
    \A o \in outcomes : Came(s, o.sys) /\ o.rc \in Codes /\ (o.rc = "OK" => Stage(k, s, o.sys))

\* A call that leaves the registry and the table of entries alone.
LEMMA FrameCame ==
  ASSUME NEW s, NEW t, NEW u, Came(s, t), Single(u), NEW F, Frame(F, t, u), "slots" \notin F, "entries" \notin F
  PROVE  Came(s, u)
  BY DEF Came, Sound, Frame, Fields

LEMMA LogLeads ==
  ASSUME NEW s, Sound(s) PROVE Leads(1, s, LogInit(s))
<1> SUFFICES ASSUME NEW o \in LogInit(s)
             PROVE  Came(s, o.sys) /\ o.rc \in Codes /\ (o.rc = "OK" => Stage(1, s, o.sys))
  BY DEF Leads
<1>1. Came(s, s)
  BY DEF Came, Sound, Extends, Registry
<1>2. Single(o.sys)
  BY LogKeeps DEF Keeps, Sound
<1>3. Frame({"log"}, s, o.sys) /\ o.rc \in Codes /\ (o.rc = "OK" => o.sys.log = TRUE)
  BY LogFrame DEF Sound
<1>4. Came(s, o.sys)
  BY <1>1, <1>2, <1>3, FrameCame
<1>5. o.sys.entries = s.entries
  BY <1>3 DEF Frame, Fields
<1> QED
  BY <1>3, <1>4, <1>5 DEF Stage

LEMMA LoadLeads ==
  ASSUME disk \in Files, NEW s, Sound(s), NEW t, Came(s, t), Stage(1, s, t)
  PROVE  Leads(2, s, LoadDefaults(t))
<1> SUFFICES ASSUME NEW o \in LoadDefaults(t)
             PROVE  Came(s, o.sys) /\ o.rc \in Codes /\ (o.rc = "OK" => Stage(2, s, o.sys))
  BY DEF Leads
<1> DEFINE r == LoadFile(s.entries, disk)
<1>1. r.rc \in Codes /\ ConfigTable(r.entries)
  BY FileApplied DEF Sound
<1>2. t.entries = s.entries
  BY DEF Stage
<1>3. Frame({"entries"}, t, o.sys) /\ o.sys.entries = r.entries
      /\ o.rc = IF r.rc = "UNSUPPORTED" THEN "OK" ELSE r.rc
  BY <1>2, LoadFrame DEF Came, Sound
<1>4. Single(o.sys)
  BY LoadKeeps DEF Keeps, Came, Sound
<1> HIDE DEF r
<1>5. o.sys.slots = t.slots /\ o.sys.log = t.log
  BY <1>3 DEF Frame, Fields
<1> QED
  BY <1>1, <1>3, <1>4, <1>5 DEF Came, Sound, Stage, Codes, r

LEMMA LevelLeads ==
  ASSUME NEW s, NEW t, Came(s, t), Stage(2, s, t)
  PROVE  Leads(3, s, ApplyLevel(t))
<1> SUFFICES ASSUME NEW o \in ApplyLevel(t)
             PROVE  Came(s, o.sys) /\ o.rc \in Codes /\ (o.rc = "OK" => Stage(3, s, o.sys))
  BY DEF Leads
<1>1. Single(o.sys)
  BY LevelKeeps DEF Keeps, Came, Sound
<1>2. Frame({"level"}, t, o.sys) /\ o.rc \in Codes /\ (o.rc = "OK" => LevelInForce(o.sys))
  BY LevelFrame DEF Came, Sound
<1>3. Came(s, o.sys)
  BY <1>1, <1>2, FrameCame
<1>4. o.sys.entries = t.entries /\ o.sys.log = t.log
  BY <1>2 DEF Frame, Fields
<1> QED
  BY <1>2, <1>3, <1>4 DEF Stage

LEMMA EventLeads ==
  ASSUME NEW s, NEW t, Came(s, t), Stage(3, s, t)
  PROVE  Leads(4, s, EventInit(t))
<1> SUFFICES ASSUME NEW o \in EventInit(t)
             PROVE  Came(s, o.sys) /\ o.rc \in Codes /\ (o.rc = "OK" => Stage(4, s, o.sys))
  BY DEF Leads
<1>1. Single(o.sys)
  BY EventKeeps DEF Keeps, Came, Sound
<1>2. Frame({"event", "queue", "drains"}, t, o.sys) /\ o.rc \in Codes /\ (o.rc = "OK" => o.sys.event = TRUE)
  BY EventFrame DEF Came, Sound
<1>3. Came(s, o.sys)
  BY <1>1, <1>2, FrameCame
<1>4. o.sys.entries = t.entries /\ o.sys.log = t.log /\ o.sys.level = t.level
  BY <1>2 DEF Frame, Fields
<1> QED
  BY <1>2, <1>3, <1>4 DEF Stage, LevelInForce

LEMMA TimerLeads ==
  ASSUME NEW s, NEW t, Came(s, t), Stage(4, s, t)
  PROVE  Leads(5, s, TimerInit(t))
<1> SUFFICES ASSUME NEW o \in TimerInit(t)
             PROVE  Came(s, o.sys) /\ o.rc \in Codes /\ (o.rc = "OK" => Stage(5, s, o.sys))
  BY DEF Leads
<1>1. Single(o.sys)
  BY TimerKeeps DEF Keeps, Came, Sound
<1>2. /\ Frame({"event", "queue", "drains", "timer", "scans"}, t, o.sys) /\ o.rc \in Codes
      /\ o.rc = "OK" => o.sys.event = TRUE /\ o.sys.timer = TRUE
  BY TimerFrame DEF Came, Sound
<1>3. Came(s, o.sys)
  BY <1>1, <1>2, FrameCame
<1>4. o.sys.entries = t.entries /\ o.sys.log = t.log /\ o.sys.level = t.level
  BY <1>2 DEF Frame, Fields
<1> QED
  BY <1>2, <1>3, <1>4 DEF Stage, LevelInForce

LEMMA DevicesLead ==
  ASSUME NEW s, Sound(s), NEW t, Came(s, t), Stage(5, s, t)
  PROVE  Leads(6, s, DevicesInit(t))
<1> SUFFICES ASSUME NEW o \in DevicesInit(t)
             PROVE  Came(s, o.sys) /\ o.rc \in Codes /\ (o.rc = "OK" => Stage(6, s, o.sys))
  BY DEF Leads
<1> DEFINE r == RegisterDefaults(t.slots)
<1>1. /\ Registry(r.slots) /\ Extends(t.slots, r.slots) /\ r.rc \in {"OK", "BUSY"}
      /\ r.rc = "OK" => AllFound(r.slots, Len(Defaults))
  BY DefaultsGrow DEF Came, Sound
<1>2. Single(o.sys)
  BY DevicesKeep DEF Keeps, Came, Sound
<1>3. Frame({"devices", "slots"}, t, o.sys) /\ o.sys.slots = r.slots /\ o.rc = r.rc /\ o.sys.devices = TRUE
  BY DevicesFrame DEF Came, Sound
<1> HIDE DEF r
<1>4. Extends(s.slots, r.slots)
  BY <1>1, ExtendsTwice DEF Came, Sound, Registry
<1>5. o.sys.entries = t.entries /\ o.sys.log = t.log /\ o.sys.level = t.level /\ o.sys.event = t.event
      /\ o.sys.timer = t.timer
  BY <1>3 DEF Frame, Fields
<1> QED
  BY <1>1, <1>2, <1>3, <1>4, <1>5 DEF Came, Sound, Stage, LevelInForce, Codes

LEMMA CoreLeads ==
  ASSUME NEW s, NEW t, Came(s, t), Stage(6, s, t)
  PROVE  Leads(7, s, CoreStart(t))
<1> SUFFICES ASSUME NEW o \in CoreStart(t)
             PROVE  Came(s, o.sys) /\ o.rc \in Codes /\ (o.rc = "OK" => Stage(7, s, o.sys))
  BY DEF Leads
<1>1. Single(o.sys)
  BY CoreKeeps DEF Keeps, Came, Sound
<1>2. Frame({"pins", "lcd"}, t, o.sys) /\ o.rc \in Codes /\ (o.rc = "OK" => o.sys.lcd = TRUE)
  BY CoreFrame DEF Came, Sound
<1>3. Came(s, o.sys)
  BY <1>1, <1>2, FrameCame
<1>4. o.sys.entries = t.entries /\ o.sys.log = t.log /\ o.sys.level = t.level /\ o.sys.event = t.event
      /\ o.sys.timer = t.timer /\ o.sys.devices = t.devices /\ o.sys.slots = t.slots
  BY <1>2 DEF Frame, Fields
<1> QED
  BY <1>2, <1>3, <1>4 DEF Stage, LevelInForce

LEMMA SubscribeLeads ==
  ASSUME NEW s, NEW t, Came(s, t), Stage(7, s, t)
  PROVE  Leads(7, s, Subscribe(t))
<1> SUFFICES ASSUME NEW o \in Subscribe(t)
             PROVE  Came(s, o.sys) /\ o.rc \in Codes /\ (o.rc = "OK" => Stage(7, s, o.sys))
  BY DEF Leads
<1>1. Single(o.sys)
  BY SubscribeKeeps DEF Keeps, Came, Sound
<1>2. Frame({"handlers"}, t, o.sys) /\ o.rc \in Codes
  BY SubscribeFrame DEF Came, Sound
<1>3. Came(s, o.sys)
  BY <1>1, <1>2, FrameCame
<1>4. o.sys.entries = t.entries /\ o.sys.log = t.log /\ o.sys.level = t.level /\ o.sys.event = t.event
      /\ o.sys.timer = t.timer /\ o.sys.devices = t.devices /\ o.sys.slots = t.slots /\ o.sys.lcd = t.lcd
  BY <1>2 DEF Frame, Fields
<1> QED
  BY <1>2, <1>3, <1>4 DEF Stage, LevelInForce

\* The whole chain of calls of a start.
LEMMA StartLeads ==
  ASSUME disk \in Files, NEW s, Sound(s)
  PROVE  Leads(7, s, Then(Then(FrameworkInit(s), CoreStart), Subscribe))
<1> DEFINE a == LogInit(s)
           b == Then(a, LoadDefaults)
           c == Then(b, ApplyLevel)
           d == Then(c, EventInit)
           e == Then(d, TimerInit)
           f == Then(e, DevicesInit)
           g == Then(f, CoreStart)
<1>1. Leads(1, s, a)
  BY LogLeads
<1> HIDE DEF a
<1>2. Leads(2, s, b)
  BY <1>1, LoadLeads DEF Leads, Then
<1> HIDE DEF b
<1>3. Leads(3, s, c)
  BY <1>2, LevelLeads DEF Leads, Then
<1> HIDE DEF c
<1>4. Leads(4, s, d)
  BY <1>3, EventLeads DEF Leads, Then
<1> HIDE DEF d
<1>5. Leads(5, s, e)
  BY <1>4, TimerLeads DEF Leads, Then
<1> HIDE DEF e
<1>6. Leads(6, s, f)
  BY <1>5, DevicesLead DEF Leads, Then
<1> HIDE DEF f
<1>7. Leads(7, s, g)
  BY <1>6, CoreLeads DEF Leads, Then
<1> HIDE DEF g
<1>8. Leads(7, s, Then(g, Subscribe))
  BY <1>7, SubscribeLeads DEF Leads, Then
<1>9. FrameworkInit(s) = f
  BY DEF FrameworkInit, a, b, c, d, e, f
<1> QED
  BY <1>8, <1>9 DEF g

-----------------------------------------------------------------------------
(* The invariant.                                                          *)

TestFields == {"running", "result", "waited", "done", "armed", "posted", "heard", "gaveUp"}

\* As long as no run has given up: the event of the last one is on its way
\* while it runs, or has been heard, and nothing else is.
Nothing == test.armed = 0 /\ test.posted = <<>>
Alone == IF test.running
         THEN \/ test.armed = starts /\ test.posted = <<>> /\ test.heard = {}
              \/ test.armed = 0 /\ test.posted = <<starts>> /\ test.heard = {}
              \/ Nothing /\ test.heard = {starts}
         ELSE Nothing /\ (test.result = "OK" => test.heard = {starts})

TestSound == /\ test = [x \in TestFields |-> test[x]]
             /\ test.running \in BOOLEAN /\ test.done \in BOOLEAN /\ test.gaveUp \in BOOLEAN
             /\ starts \in Nat
             /\ test.done => test.heard # {}
             /\ test.result = "OK" => test.heard # {}
             /\ test.running => test.result # "OK"
             /\ ~test.gaveUp => Alone

Up(s) == s.log /\ s.event /\ s.timer /\ s.devices /\ s.lcd /\ LevelInForce(s) /\ AllFound(s.slots, Len(Defaults))
Started == test.running \/ test.result \in {"OK", "TIMEOUT"}

Inv == disk \in Files /\ Sound(sys) /\ TestSound /\ (Started => Up(sys))

LEMMA InitInv == Init => Inv
<1> SUFFICES ASSUME Init PROVE Inv
  OBVIOUS
<1>1. Sound(sys)
  <2>1. /\ sys.event = FALSE /\ sys.timer = FALSE /\ sys.lcd = FALSE
        /\ sys.drains = {} /\ sys.scans = 0 /\ sys.slots = <<>> /\ sys.entries = NoEntries
        /\ sys.pins = [p \in Pins |-> [users |-> {}, output |-> FALSE]]
    BY DEF Init
  <2>2. DOMAIN sys = Fields /\ sys = [x \in DOMAIN sys |-> sys[x]]
    BY DEF Init, Fields
  <2>3. sys.pins \in [Pins -> Given]
    <3>1. [users |-> {}, output |-> FALSE] \in Given
      BY DEF Given
    <3> QED
      BY <2>1, <3>1
  <2>6. Single(sys)
    BY <2>1, <2>2, <2>3 DEF Single, Whole
  <2>4. Registry(sys.slots)
    BY <2>1 DEF Registry, NoDuplicates
  <2>5. ConfigTable(sys.entries)
    BY <2>1, FS_EmptySet, ConfigAssumption DEF ConfigTable, NoEntries
  <2> QED
    BY <2>4, <2>5, <2>6 DEF Sound
<1>2. TestSound /\ ~Started
  BY DEF Init, TestSound, TestFields, Started, Alone, Nothing
<1> QED
  BY <1>1, <1>2 DEF Init, Inv

\* What an attempt to start does.
LEMMA StartStep ==
  ASSUME Inv, Start
  PROVE  \E o \in Then(Then(FrameworkInit(sys), CoreStart), Subscribe) :
            /\ sys' = o.sys /\ Came(sys, sys') /\ o.rc \in Codes /\ (o.rc = "OK" => Stage(7, sys, sys'))
            /\ ~test.running
            /\ test' \in IF o.rc = "OK" THEN Begin(test) ELSE {[test EXCEPT !.result = o.rc]}
<1>1. PICK o \in Then(Then(FrameworkInit(sys), CoreStart), Subscribe) :
         sys' = o.sys /\ test' \in IF o.rc = "OK" THEN Begin(test) ELSE {[test EXCEPT !.result = o.rc]}
  BY DEF Start
<1>2. Came(sys, o.sys) /\ o.rc \in Codes /\ (o.rc = "OK" => Stage(7, sys, o.sys))
  BY StartLeads DEF Inv, Leads
<1> QED
  BY <1>1, <1>2 DEF Start

\* A device of the application.
LEMMA RegisterStep ==
  ASSUME Inv, AppRegisters
  PROVE  /\ Sound(sys') /\ Extends(sys.slots, sys'.slots) /\ Frame({"devices", "slots"}, sys, sys')
         /\ Started' = Started /\ (Up(sys) => Up(sys'))
<1>1. PICK d \in Extras : sys' = [sys EXCEPT !.devices = TRUE, !.slots = Register(sys.slots, d).slots]
  BY DEF AppRegisters
<1> DEFINE new == Register(sys.slots, d).slots
<1>2. Registry(new) /\ Extends(sys.slots, new)
  BY StartupAssumption, RegisterGrows DEF Inv, Sound, Device
<1> HIDE DEF new
<1>3. sys' = [sys EXCEPT !.devices = TRUE, !.slots = new]
  BY <1>1 DEF new
<1>4. sys'.slots = new /\ sys'.devices /\ Single(sys') /\ Frame({"devices", "slots"}, sys, sys')
  BY <1>3 DEF Inv, Sound, Single, Whole, Fields, Frame
<1>5. /\ sys'.entries = sys.entries /\ sys'.log = sys.log /\ sys'.level = sys.level /\ sys'.event = sys.event
      /\ sys'.timer = sys.timer /\ sys'.lcd = sys.lcd
  BY <1>4 DEF Frame, Fields
<1>6. Sound(sys')
  BY <1>2, <1>4, <1>5 DEF Inv, Sound
<1>7. AllFound(sys.slots, Len(Defaults)) => AllFound(new, Len(Defaults))
  BY <1>2, FoundLater DEF AllFound, Inv, Sound, Registry
<1>8. Started' = Started
  BY DEF AppRegisters, Started
<1> QED
  BY <1>2, <1>4, <1>5, <1>6, <1>7, <1>8 DEF Up, LevelInForce

LEMMA PinStep ==
  ASSUME Inv, AppTakesPin
  PROVE  Single(sys') /\ Frame({"pins"}, sys, sys')
<1>1. PICK name : \E o \in Request(sys, name, "app") : sys' = o.sys
  BY DEF AppTakesPin
<1>2. PICK o \in Request(sys, name, "app") : sys' = o.sys
  BY <1>1
<1>3. CASE o.sys = sys
  BY <1>2, <1>3 DEF Inv, Sound, Frame
<1>4. CASE \E p \in Pins : sys.pins[p].users = {} /\ o = [rc |-> "OK", sys |-> Taken(sys, p, "app")]
  <2>1. PICK p \in Pins : sys.pins[p].users = {} /\ o = [rc |-> "OK", sys |-> Taken(sys, p, "app")]
    BY <1>4
  <2>2. sys' = Taken(sys, p, "app")
    BY <1>2, <2>1
  <2> QED
    BY <2>1, <2>2, TakenSingle DEF Inv, Sound
<1> QED
  BY <1>3, <1>4, RequestOutcome

LEMMA NextInv == Inv /\ [Next]_vars => Inv'
<1> SUFFICES ASSUME Inv, [Next]_vars PROVE Inv'
  OBVIOUS
<1>1. CASE UNCHANGED vars
  BY <1>1 DEF vars, Inv, TestSound, Started, Alone, Nothing
<1>2. CASE Start
  <2>1. PICK o \in Then(Then(FrameworkInit(sys), CoreStart), Subscribe) :
            /\ sys' = o.sys /\ Came(sys, sys') /\ o.rc \in Codes /\ (o.rc = "OK" => Stage(7, sys, sys'))
            /\ ~test.running
            /\ test' \in IF o.rc = "OK" THEN Begin(test) ELSE {[test EXCEPT !.result = o.rc]}
    BY <1>2, StartStep
  <2>2. disk' = disk /\ Sound(sys')
    BY <1>2, <2>1 DEF Start, Came
  <2>3. CASE o.rc = "OK"
    <3>1. test' \in Begin(test) /\ starts' = starts + 1
      BY <1>2, <2>1, <2>3 DEF Start
    <3>2. /\ test' = [x \in TestFields |-> test'[x]]
          /\ test'.done = FALSE /\ test'.heard = {} /\ test'.posted = test.posted /\ test'.gaveUp = test.gaveUp
          /\ test'.result # "OK"
          /\ \/ test'.running = TRUE /\ test'.armed = starts'
             \/ test'.running = FALSE /\ test'.armed = 0
      BY <2>1, <3>1 DEF Begin, Inv, TestSound, TestFields
    <3>3. ~test.gaveUp => test.posted = <<>>
      BY <2>1 DEF Inv, TestSound, Alone, Nothing
    <3>4. starts' \in Nat
      BY <3>1 DEF Inv, TestSound
    <3>5. TestSound'
      BY <3>2, <3>3, <3>4 DEF Inv, TestSound, Alone, Nothing
    <3>6. Up(sys')
      BY <2>1, <2>3 DEF Stage, Up
    <3> QED
      BY <2>2, <3>5, <3>6 DEF Inv
  <2>4. CASE o.rc # "OK"
    <3>1. test' = [test EXCEPT !.result = o.rc] /\ starts' = starts + 1
      BY <1>2, <2>1, <2>4 DEF Start
    <3>2. /\ test' = [x \in TestFields |-> test'[x]]
          /\ test'.result = o.rc /\ test'.running = FALSE /\ test'.done = test.done
          /\ test'.heard = test.heard /\ test'.gaveUp = test.gaveUp
          /\ test'.armed = test.armed /\ test'.posted = test.posted
      BY <2>1, <3>1 DEF Inv, TestSound, TestFields
    <3>3. o.rc \notin {"OK", "TIMEOUT"}
      BY <2>1, <2>4 DEF Codes
    <3>4. starts' \in Nat
      BY <3>1 DEF Inv, TestSound
    <3>5. ~test.gaveUp => Nothing
      BY <2>1 DEF Inv, TestSound, Alone
    <3>6. TestSound' /\ ~Started'
      BY <3>2, <3>3, <3>4, <3>5 DEF Inv, TestSound, Started, Alone, Nothing
    <3> QED
      BY <2>2, <3>6 DEF Inv
  <2> QED
    BY <2>3, <2>4
<1>3. CASE Poll
  <2>1. UNCHANGED <<disk, sys>> /\ test.running
    BY <1>3 DEF Poll
  <2>2. TestSound'
    BY <1>3 DEF Poll, Inv, TestSound, TestFields, Alone, Nothing
  <2> QED
    BY <2>1, <2>2 DEF Inv, Started
<1>4. CASE TimerExpires
  <2>1. UNCHANGED <<disk, sys, starts>> /\ test.armed # 0
        /\ test' = [test EXCEPT !.armed = 0, !.posted = Append(@, test.armed)]
    BY <1>4 DEF TimerExpires
  <2>2. /\ test' = [x \in TestFields |-> test'[x]]
        /\ \A x \in TestFields \ {"armed", "posted"} : test'[x] = test[x]
        /\ test'.armed = 0 /\ test'.posted = Append(test.posted, test.armed)
    BY <2>1 DEF Inv, TestSound, TestFields
  <2>3. /\ test'.running = test.running /\ test'.result = test.result /\ test'.done = test.done
        /\ test'.heard = test.heard /\ test'.gaveUp = test.gaveUp
    BY <2>2 DEF TestFields
  <2>4. ~test.gaveUp => Alone'
    <3> SUFFICES ASSUME ~test.gaveUp PROVE Alone'
      OBVIOUS
    <3>1. test.running /\ test.armed = starts /\ test.posted = <<>> /\ test.heard = {}
      BY <2>1 DEF Inv, TestSound, Alone, Nothing
    <3>2. test'.posted = <<starts>>
      BY <2>2, <3>1
    <3> QED
      BY <2>1, <2>2, <2>3, <3>1, <3>2 DEF Alone
  <2> QED
    BY <2>1, <2>2, <2>3, <2>4 DEF Inv, TestSound, Started
<1>8. CASE Dispatch
  <2>1. UNCHANGED <<disk, sys, starts>> /\ test.posted # <<>>
        /\ test' = [test EXCEPT !.posted = Tail(@), !.done = TRUE, !.heard = @ \cup {Head(test.posted)}]
    BY <1>8 DEF Dispatch
  <2>2. /\ test' = [x \in TestFields |-> test'[x]]
        /\ \A x \in TestFields \ {"posted", "done", "heard"} : test'[x] = test[x]
        /\ test'.done = TRUE /\ test'.posted = Tail(test.posted)
        /\ test'.heard = test.heard \cup {Head(test.posted)}
    BY <2>1 DEF Inv, TestSound, TestFields
  <2>3. /\ test'.running = test.running /\ test'.result = test.result /\ test'.armed = test.armed
        /\ test'.gaveUp = test.gaveUp
    BY <2>2 DEF TestFields
  <2>4. ~test.gaveUp => Alone'
    <3> SUFFICES ASSUME ~test.gaveUp PROVE Alone'
      OBVIOUS
    <3>1. test.running /\ test.armed = 0 /\ test.posted = <<starts>> /\ test.heard = {}
      BY <2>1 DEF Inv, TestSound, Alone, Nothing
    <3>2. Tail(<<starts>>) = <<>> /\ Head(<<starts>>) = starts
      OBVIOUS
    <3>3. test'.posted = <<>> /\ test'.heard = {starts}
      BY <2>2, <3>1, <3>2
    <3> QED
      BY <2>1, <2>3, <3>1, <3>3 DEF Alone, Nothing
  <2>5. test'.heard # {}
    BY <2>2
  <2> QED
    BY <2>1, <2>2, <2>3, <2>4, <2>5 DEF Inv, TestSound, Started
<1>5. CASE AppRegisters
  <2>1. UNCHANGED <<disk, test, starts>>
    BY <1>5 DEF AppRegisters
  <2>2. Sound(sys') /\ Started' = Started /\ (Up(sys) => Up(sys'))
    BY <1>5, RegisterStep
  <2>3. TestSound'
    BY <2>1 DEF Inv, TestSound, Alone, Nothing
  <2> QED
    BY <2>1, <2>2, <2>3 DEF Inv
<1>6. CASE AppTakesPin
  <2>1. Single(sys') /\ Frame({"pins"}, sys, sys')
    BY <1>6, PinStep
  <2>2. /\ sys'.entries = sys.entries /\ sys'.log = sys.log /\ sys'.level = sys.level /\ sys'.event = sys.event
        /\ sys'.timer = sys.timer /\ sys'.devices = sys.devices /\ sys'.lcd = sys.lcd /\ sys'.slots = sys.slots
    BY <2>1 DEF Frame, Fields
  <2>3. UNCHANGED <<disk, test, starts>>
    BY <1>6 DEF AppTakesPin
  <2> QED
    BY <2>1, <2>2, <2>3 DEF Inv, Sound, TestSound, Alone, Nothing, Started, Up, LevelInForce
<1>7. CASE FileReplaced
  BY <1>7 DEF FileReplaced, Inv, TestSound, Alone, Nothing, Started
<1> QED
  BY <1>1, <1>2, <1>3, <1>4, <1>5, <1>6, <1>7, <1>8 DEF Next

LEMMA InvAlways == Spec => []Inv
  BY InitInv, NextInv, PTL DEF Spec

-----------------------------------------------------------------------------
\* However often the start fails and is tried again: one thread dispatches,
\* from the queue that is published to, and one serves the timers
\* (ep_event_init, ep_timer_init); no device is in two slots, whoever registered
\* it and however often (ep_device_register); and a pin has one user at most,
\* whatever name it is asked for by, and the display service only works with a
\* pin of its own that it has made an output (ep_gpio_request,
\* ep_gpio_set_direction, lcd_sleep_service.c).
THEOREM StartedAtMostOnce == Spec => []StartedOnce
<1>1. Inv => StartedOnce
  <2> SUFFICES ASSUME Inv PROVE OneThreadEach /\ NoDuplicateDevice /\ OnePinUser
    BY DEF StartedOnce
  <2>1. OneThreadEach
    BY DEF Inv, Sound, Single, OneThreadEach
  <2>2. NoDuplicateDevice
    BY DEF Inv, Sound, Registry, NoDuplicates, NoDuplicateDevice
  <2>3. Cardinality({}) = 0 /\ Cardinality({"lcd"}) = 1 /\ Cardinality({"app"}) = 1
    BY FS_EmptySet, FS_Singleton
  <2>4. ASSUME NEW p \in Pins PROVE Cardinality(sys.pins[p].users) <= 1
    <3>1. sys.pins[p] \in Given
      <4>1. sys.pins \in [Pins -> Given]
        BY DEF Inv, Sound, Single
      <4> QED
        BY <4>1
    <3> DEFINE u == sys.pins[p].users
    <3>2. u \in {{}, {"lcd"}, {"app"}}
      BY <3>1 DEF Given
    <3> HIDE DEF u
    <3>3. u = {} \/ u = {"lcd"} \/ u = {"app"}
      BY <3>2
    <3>4. Cardinality(u) \in {0, 1}
      BY <2>3, <3>3, Zenon
    <3>5. \A c \in {0, 1} : c <= 1
      OBVIOUS
    <3> QED
      BY <3>4, <3>5 DEF u
  <2>6. OnePinUser
    BY <2>4 DEF Inv, Sound, Single, OnePinUser
  <2> QED
    BY <2>1, <2>2, <2>6
<1> QED
  BY <1>1, InvAlways, PTL

\* Whatever failed before, a start that succeeds has started everything, with
\* the level the configuration asks for and every default device in the
\* registry.  Its self-test passes on the event of its own timer and on no
\* other, until a run has given up; after that it may pass on an event that came
\* late, for app_timer_done_handler cannot tell them apart (ep_framework_start,
\* app_selftest_run).
THEOREM StartedCompletely == Spec => []StartComplete
<1>1. Inv => StartComplete
  <2> SUFFICES ASSUME Inv, Started
               PROVE  /\ test.result = "OK" => test.heard = {starts} \/ (test.gaveUp /\ test.heard # {})
                      /\ sys.log /\ sys.event /\ sys.timer /\ sys.devices /\ sys.lcd
                      /\ sys.level = GetInt(sys.entries, "log.level", Info) /\ sys.level \in Levels
                      /\ \A i \in DOMAIN Defaults : Find(sys.slots, Defaults[i].name)
    BY DEF StartComplete, Started
  <2>1. Up(sys)
    BY DEF Inv
  <2>3. test.result = "OK" => test.heard = {starts} \/ (test.gaveUp /\ test.heard # {})
    BY DEF Inv, TestSound, Alone
  <2>2. DOMAIN Defaults = 1..Len(Defaults)
    BY DeviceAssumption
  <2> QED
    BY <2>1, <2>2, <2>3 DEF Up, LevelInForce, AllFound
<1> QED
  BY <1>1, InvAlways, PTL

\* A file is applied line by line, on the first attempt as on a later one: the
\* table changes by the first lines up to one that was not accepted, with the
\* last value for each key, and the start that met such a line does not succeed
\* (ep_config_parse_content, ep_framework_load_default_config).
THEOREM LinesApplied == Spec => PrefixApplied
<1> DEFINE Whole1 == sys'.entries # sys.entries =>
          /\ Cardinality(DOMAIN sys'.entries) <= MaxItems
          /\ \E n \in 1..Len(disk.lines) :
                /\ Applied(sys.entries, sys'.entries, n)
                /\ \A i \in 1..n : disk.lines[i].type # "bad"
                /\ n < Len(disk.lines) => /\ ParseLine(sys'.entries, disk.lines[n + 1]) # "OK"
                                          /\ test'.result # "OK" /\ ~test'.running
<1>1. ASSUME Inv, [Next]_vars PROVE Whole1
  <2>1. CASE sys'.entries = sys.entries
    BY <2>1
  <2>2. CASE sys'.entries # sys.entries
    <3>1. ~UNCHANGED vars /\ ~(Poll \/ TimerExpires \/ Dispatch \/ FileReplaced)
      BY <2>2 DEF vars, Poll, TimerExpires, Dispatch, FileReplaced
    <3>2. ~AppRegisters
      BY <1>1, <2>2, RegisterStep DEF Frame, Fields
    <3>3. ~AppTakesPin
      BY <1>1, <2>2, PinStep DEF Frame, Fields
    <3>4. PICK o \in Then(Then(FrameworkInit(sys), CoreStart), Subscribe) :
            /\ sys' = o.sys /\ Came(sys, sys') /\ o.rc \in Codes /\ (o.rc = "OK" => Stage(7, sys, sys'))
            /\ ~test.running
            /\ test' \in IF o.rc = "OK" THEN Begin(test) ELSE {[test EXCEPT !.result = o.rc]}
      BY <1>1, <3>1, <3>2, <3>3, StartStep DEF Next
    <3> DEFINE r == LoadFile(sys.entries, disk)
    <3>5. sys'.entries = r.entries
      BY <2>2, <3>4 DEF Came
    <3>6. o.rc = "OK" => r.rc \in {"OK", "UNSUPPORTED"}
      BY <3>4 DEF Stage
    <3>7. \E n \in 1..Len(disk.lines) : /\ Applied(sys.entries, r.entries, n)
                                        /\ \A i \in 1..n : disk.lines[i].type # "bad"
                                        /\ n < Len(disk.lines) =>
                                              (ParseLine(r.entries, disk.lines[n + 1]) # "OK" /\ r.rc \notin {"OK", "UNSUPPORTED"})
      BY <1>1, <2>2, <3>5, FileApplied DEF Inv, Sound
    <3> HIDE DEF r
    <3>8. ASSUME o.rc # "OK" PROVE test'.result # "OK" /\ ~test'.running
      <4>1. test' = [test EXCEPT !.result = o.rc]
        BY <3>4, <3>8
      <4> QED
        BY <1>1, <3>4, <3>8, <4>1 DEF Inv, TestSound, TestFields
    <3>9. Cardinality(DOMAIN sys'.entries) <= MaxItems
      BY <3>4 DEF Came, Sound, ConfigTable
    <3>10. \E n \in 1..Len(disk.lines) : /\ Applied(sys.entries, sys'.entries, n)
                                         /\ \A i \in 1..n : disk.lines[i].type # "bad"
                                         /\ n < Len(disk.lines) =>
                                               (ParseLine(sys'.entries, disk.lines[n + 1]) # "OK" /\ test'.result # "OK" /\ ~test'.running)
      <4>1. PICK n \in 1..Len(disk.lines) : /\ Applied(sys.entries, r.entries, n)
                                            /\ \A i \in 1..n : disk.lines[i].type # "bad"
                                            /\ n < Len(disk.lines) =>
                                                  (ParseLine(r.entries, disk.lines[n + 1]) # "OK" /\ r.rc \notin {"OK", "UNSUPPORTED"})
        BY <3>7
      <4>2. Applied(sys.entries, sys'.entries, n)
        BY <3>5, <4>1
      <4>3. n < Len(disk.lines) =>
               (ParseLine(sys'.entries, disk.lines[n + 1]) # "OK" /\ test'.result # "OK" /\ ~test'.running)
        BY <3>5, <3>6, <3>8, <4>1
      <4> QED
        BY <4>1, <4>2, <4>3
    <3> QED
      BY <3>9, <3>10
  <2> QED
    BY <2>1, <2>2
<1>2. Inv /\ [Next]_vars => [Whole1]_vars
  BY <1>1
<1> QED
  BY <1>2, InvAlways, PTL DEF Spec, PrefixApplied

-----------------------------------------------------------------------------
\* The slots before those of an old registry count the same devices in the new.
LEMMA SameNumber ==
  ASSUME NEW old \in Seq(Device), NEW new \in Seq(Device), Extends(old, new), NEW t, NEW n
  PROVE  FindByType(old, t, n) \subseteq FindByType(new, t, n)
<1> SUFFICES ASSUME NEW i \in FindByType(old, t, n) PROVE i \in FindByType(new, t, n)
  OBVIOUS
<1>1. i \in 1..Len(old) /\ old[i].type = t
      /\ Len(SelectSeq(SubSeq(old, 1, i - 1), LAMBDA d : d.type = t)) = n
  BY DEF FindByType
<1>2. i \in DOMAIN new /\ new[i].type = t
  BY <1>1 DEF Extends
<1>3. SubSeq(new, 1, i - 1) = SubSeq(old, 1, i - 1)
  BY <1>1 DEF Extends
<1>4. Len(SelectSeq(SubSeq(new, 1, i - 1), LAMBDA d : d.type = t)) = n
  BY <1>1, <1>3
<1> QED
  BY <1>2, <1>4 DEF FindByType

\* A device found by its type and number is the same ever after: whoever
\* registers devices, and whatever starts fail, nothing moves or leaves its slot
\* (ep_device_register, ep_device_find_by_type).
THEOREM DevicesKeepTheirNumbers == Spec => DevicesStay
<1> DEFINE Kept == \A t \in {Defaults[i].type : i \in DOMAIN Defaults}, n \in 0..(MaxDevices - 1) :
                      FindByType(sys.slots, t, n) \subseteq FindByType(sys'.slots, t, n)
<1>1. ASSUME Inv, [Next]_vars PROVE Kept
  <2>1. Inv' /\ sys.slots \in Seq(Device) /\ sys'.slots \in Seq(Device)
    BY <1>1, NextInv DEF Inv, Sound, Registry
  <2>2. Extends(sys.slots, sys'.slots)
    <3>1. CASE Start
      BY <1>1, <3>1, StartStep DEF Came
    <3>2. CASE AppRegisters
      BY <1>1, <3>2, RegisterStep
    <3>3. CASE sys'.slots = sys.slots
      BY <2>1, <3>3 DEF Extends
    <3>4. CASE AppTakesPin
      BY <1>1, <3>3, <3>4, PinStep DEF Frame, Fields
    <3>5. CASE Poll \/ TimerExpires \/ Dispatch \/ FileReplaced \/ UNCHANGED vars
      BY <3>3, <3>5 DEF Poll, TimerExpires, Dispatch, FileReplaced, vars
    <3> QED
      BY <1>1, <3>1, <3>2, <3>4, <3>5 DEF Next
  <2> QED
    BY <2>1, <2>2, SameNumber
<1>2. Inv /\ [Next]_vars => [Kept]_vars
  BY <1>1
<1> QED
  BY <1>2, InvAlways, PTL DEF Spec, DevicesStay
=============================================================================
