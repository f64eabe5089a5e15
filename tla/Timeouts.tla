------------------------------ MODULE Timeouts ------------------------------
(***************************************************************************)
(* The clock of both programs: the SysTick interrupt, msDelay(), and the   *)
(* list of timeouts that main()'s loop works off with sys_check_timeouts().*)
(* The TCP timer runs while there are connections and polls them, which    *)
(* the web server depends on; the ARP and IP timers are cyclic.            *)
(*                                                                         *)
(* The time is an unsigned number that wraps. The interrupt ticks between  *)
(* any two steps, also while a handler runs, as long as the loop comes     *)
(* round every MaxLag ticks.                                               *)
(***************************************************************************)
EXTENDS Integers, SequencesExt

CONSTANTS
    Conns,         \* protocol control blocks of TCP
    Cyclic,        \* the cyclic timers but TCP's
    Tcp,           \* the TCP timer
    Interval,      \* the period of every timer
    PollInterval,  \* pollinterval of the web server's connections
    Delays,        \* arguments of msDelay
    TimeMod,       \* 2^32
    MaxLag         \* bound: ticks from one sys_check_timeouts to the next

Timers == Cyclic \cup {Tcp}

\* The differences that TIME_LESS_THAN takes for a number in the past.
LWIP_MAX_TIMEOUT == TimeMod \div 2 - 1

ASSUME TimeoutsAssumption ==
    /\ Tcp \notin Cyclic
    /\ Interval \in [Timers -> Nat \ {0}]
    /\ PollInterval \in Nat \ {0} /\ MaxLag \in Nat \ {0}
    /\ TimeMod \in Nat \ {0} /\ TimeMod % 2 = 0
    /\ \A h \in Timers : Interval[h] + 2 * MaxLag <= LWIP_MAX_TIMEOUT
    /\ Delays \subseteq 1 .. LWIP_MAX_TIMEOUT

VARIABLES
    systick_timems,
    next_timeout,  \* the timeouts: [h |-> timer, time |-> when it is due]
    timer_active,  \* tcpip_tcp_timer_active
    tcp_timer,     \* its last bit
    pcb,           \* every block: none, active or time_wait
    polltmr,
    pc,            \* where the main loop is
    now,           \* sys_check_timeouts: when it was called
    current,       \* the timeout whose handler runs
    to,            \* msDelay: when it ends
    lag,           \* history: ticks since sys_check_timeouts was called
    ran,           \* history: how often each timer ran in this call
    age,           \* history: ticks since a connection was polled (or began), up to a period
    polled,        \* history: whether a connection has been polled
    delayed        \* history: the length of the delay and the ticks it lasted

clockVars == <<systick_timems, lag, age, delayed>>
listVars == <<next_timeout, timer_active>>
tcpVars == <<tcp_timer, pcb, polltmr, polled>>
checkVars == <<now, current, ran>>
timeVars == <<clockVars, listVars, tcpVars, checkVars, pc, to>>

Period == 2 * PollInterval * Interval[Tcp]

TimesTypeOK ==
    /\ systick_timems \in 0 .. TimeMod - 1
    /\ next_timeout \in Seq([h : Timers, time : 0 .. TimeMod - 1])
    /\ timer_active \in BOOLEAN /\ tcp_timer \in 0 .. 1
    /\ pcb \in [Conns -> {"none", "active", "time_wait"}]
    /\ polltmr \in [Conns -> 0 .. PollInterval - 1]
    /\ pc \in {"init", "main", "delay", "check", "handler"}
    /\ now \in 0 .. TimeMod - 1
    /\ current \in [h : Timers, time : 0 .. TimeMod - 1]
    /\ to \in 0 .. TimeMod - 1
    /\ lag \in 0 .. MaxLag /\ ran \in [Timers -> Nat]
    /\ age \in [Conns -> 0 .. Period] /\ polled \in [Conns -> BOOLEAN]
    /\ delayed \in [ms : Nat, ticks : Nat]

\* Mutant: the sum does not wrap.
WidePlus(t, ms) == t + ms

Plus(t, ms) == (t + ms) % TimeMod

\* TIME_LESS_THAN
Before(t, u) == (t - u) % TimeMod > LWIP_MAX_TIMEOUT

NoDelay == [ms |-> 0, ticks |-> 0]

Timeout(h, t) == [h |-> h, time |-> t]
NoTimeout == Timeout(Tcp, 0)

\* The values of local variables that nobody will read again.
NotRun == [h \in Timers |-> 0]

\* Mutant: the times are compared without regard to the wrap.
AddedUnsigned(t, list) ==
    LET after == {i \in 1 .. Len(list) : t.time < list[i].time}
        at == IF after = {} THEN Len(list) + 1
              ELSE CHOOSE i \in after : \A j \in after : i <= j
    IN  InsertAt(list, at, t)

\* sys_timeout_abs: the timeout goes before the first one that is due later.
Added(t, list) ==
    LET after == {i \in 1 .. Len(list) : Before(t.time, list[i].time)}
        at == IF after = {} THEN Len(list) + 1
              ELSE CHOOSE i \in after : \A j \in after : i <= j
    IN  InsertAt(list, at, t)

\* A timer has a timeout in the list; its handler runs.
Listed(h) == \E i \in 1 .. Len(next_timeout) : next_timeout[i].h = h
Handled(h) == pc = "handler" /\ current.h = h

\* lwip_init is called: the clock is already running.
TimesInit ==
    /\ systick_timems = 0 /\ next_timeout = <<>>
    /\ timer_active = FALSE /\ tcp_timer = 0
    /\ pcb = [c \in Conns |-> "none"] /\ polltmr = [c \in Conns |-> 0]
    /\ pc = "init" /\ now = 0 /\ current = NoTimeout /\ to = 0
    /\ lag = 0 /\ ran = NotRun
    /\ age = [c \in Conns |-> 0] /\ polled = [c \in Conns |-> FALSE]
    /\ delayed = NoDelay

-----------------------------------------------------------------------------
\* SysTick_Handler. The loop of msDelay looks at the time more than once per tick.
SysTick ==
    /\ lag < MaxLag
    /\ pc = "delay" => to > systick_timems
    /\ systick_timems' = Plus(systick_timems, 1)
    /\ lag' = lag + 1
    /\ age' = [c \in Conns |-> IF pcb[c] = "active" /\ age[c] < Period THEN age[c] + 1
                               ELSE age[c]]
    /\ delayed' = [delayed EXCEPT !.ticks = IF pc = "delay" THEN @ + 1 ELSE @]
    /\ UNCHANGED <<listVars, tcpVars, checkVars, pc, to>>

\* sys_timeouts_init: one turn of its loop over the cyclic timers, in whatever order they
\* stand in lwip_cyclic_timers, ...
StartCyclic ==
    /\ pc = "init"
    /\ \E h \in Cyclic :
          /\ ~Listed(h)
          /\ next_timeout' = Added(Timeout(h, Plus(systick_timems, Interval[h])), next_timeout)
    /\ UNCHANGED <<clockVars, timer_active, tcpVars, checkVars, pc, to>>

\* ... and its end. main()'s loop begins.
InitDone ==
    /\ pc = "init" /\ \A h \in Cyclic : Listed(h)
    /\ pc' = "main"
    /\ UNCHANGED <<clockVars, listVars, tcpVars, checkVars, to>>

\* Mutant: the current tick is not counted.
LongDelay ==
    /\ pc = "main"
    /\ \E ms \in Delays :
          /\ lag + ms < MaxLag
          /\ to' = Plus(systick_timems, ms + 1)
          /\ delayed' = [ms |-> ms, ticks |-> 0]
    /\ pc' = "delay"
    /\ UNCHANGED <<systick_timems, lag, age, listVars, tcpVars, checkVars>>

\* msDelay, as lpc_low_level_output calls it in the main loop.
msDelay ==
    /\ pc = "main"
    /\ \E ms \in Delays :
          /\ lag + ms <= MaxLag
          /\ to' = Plus(systick_timems, ms)
          /\ delayed' = [ms |-> ms, ticks |-> 0]
    /\ pc' = "delay"
    /\ UNCHANGED <<systick_timems, lag, age, listVars, tcpVars, checkVars>>

DelayEnds ==
    /\ pc = "delay" /\ to <= systick_timems
    /\ pc' = "main" /\ to' = 0 /\ delayed' = NoDelay
    /\ UNCHANGED <<systick_timems, lag, age, listVars, tcpVars, checkVars>>

-----------------------------------------------------------------------------
\* Mutant: the TCP timer is started for every connection.
TcpTimerStarted ==
    /\ timer_active' = TRUE
    /\ next_timeout' = Added(Timeout(Tcp, Plus(systick_timems, Interval[Tcp])), next_timeout)

\* tcp_timer_needed
TcpTimerNeeded ==
    IF timer_active THEN UNCHANGED listVars
    ELSE /\ timer_active' = TRUE
         /\ next_timeout' =
                Added(Timeout(Tcp, Plus(systick_timems, Interval[Tcp])), next_timeout)

\* A connection begins (TCP_REG), in lpc_enetif_input.
Register(c) ==
    /\ pc = "main" /\ pcb[c] = "none"
    /\ pcb' = [pcb EXCEPT ![c] = "active"]
    /\ TcpTimerNeeded
    /\ UNCHANGED <<clockVars, tcp_timer, polltmr, polled, checkVars, pc, to>>

\* It ends, or waits for stray segments first.
Unregister(c) ==
    /\ pc = "main" /\ pcb[c] # "none"
    /\ \E s \in {"none", "time_wait"} \ {pcb[c]} : pcb' = [pcb EXCEPT ![c] = s]
    /\ polltmr' = [polltmr EXCEPT ![c] = 0]
    /\ polled' = [polled EXCEPT ![c] = FALSE]
    /\ age' = [age EXCEPT ![c] = 0]
    /\ UNCHANGED <<systick_timems, lag, delayed, listVars, tcp_timer, checkVars, pc, to>>

-----------------------------------------------------------------------------
\* sys_check_timeouts is called.
CheckTimeouts ==
    /\ pc = "main"
    /\ now' = systick_timems /\ lag' = 0
    /\ pc' = "check"
    /\ UNCHANGED <<systick_timems, age, delayed, listVars, tcpVars, current, ran, to>>

\* The first timeout is due: its handler is called.
Expire ==
    /\ pc = "check" /\ next_timeout # <<>>
    /\ LET t == Head(next_timeout) IN
          /\ ~Before(now, t.time)
          /\ current' = t
          /\ ran' = [ran EXCEPT ![t.h] = @ + 1]
    /\ next_timeout' = Tail(next_timeout)
    /\ pc' = "handler"
    /\ UNCHANGED <<clockVars, timer_active, tcpVars, now, to>>

\* None is.
CheckDone ==
    /\ pc = "check"
    /\ next_timeout = <<>> \/ Before(now, Head(next_timeout).time)
    /\ pc' = "main" /\ now' = 0 /\ ran' = NotRun
    /\ UNCHANGED <<clockVars, listVars, tcpVars, current, to>>

-----------------------------------------------------------------------------
\* Mutant: the slow timer runs with every call of tcp_tmr.
SlowAlways == TRUE

\* tcp_tmr calls tcp_slowtmr every other time.
Slow == tcp_timer = 0

\* tcp_active_pcbs
Live == {c \in Conns : pcb[c] = "active"}

\* tcp_slowtmr: the connections that are polled.
PollDue == IF Slow THEN {c \in Live : polltmr[c] + 1 >= PollInterval} ELSE {}

\* Mutant: a timer that is switched off is not marked so.
TcpTimerForgets ==
    IF \E c \in Conns : pcb'[c] # "none"
    THEN /\ next_timeout' =
                Added(Timeout(Tcp, Plus(systick_timems, Interval[Tcp])), next_timeout)
         /\ UNCHANGED timer_active
    ELSE UNCHANGED listVars

\* tcpip_tcp_timer, after tcp_tmr.
TcpTimerAgain ==
    IF \E c \in Conns : pcb'[c] # "none"
    THEN /\ next_timeout' =
                Added(Timeout(Tcp, Plus(systick_timems, Interval[Tcp])), next_timeout)
         /\ UNCHANGED timer_active
    ELSE timer_active' = FALSE /\ UNCHANGED next_timeout

\* tcp_tmr may also remove connections: those it gives up, those that the web server closes
\* when it is polled, and those that have waited long enough.
TcpTimer ==
    /\ pc = "handler" /\ current.h = Tcp
    /\ tcp_timer' = 1 - tcp_timer
    /\ \E gone \in SUBSET (IF Slow THEN {c \in Conns : pcb[c] # "none"} ELSE {}) :
          pcb' = [c \in Conns |-> IF c \in gone THEN "none" ELSE pcb[c]]
    /\ polltmr' = [c \in Conns |-> IF c \in PollDue \/ pcb'[c] # "active" THEN 0
                                   ELSE IF Slow /\ c \in Live THEN polltmr[c] + 1
                                   ELSE polltmr[c]]
    /\ polled' = [c \in Conns |-> pcb'[c] = "active" /\ (polled[c] \/ c \in PollDue)]
    /\ age' = [c \in Conns |-> IF c \in PollDue \/ pcb'[c] # "active" THEN 0 ELSE age[c]]
    /\ TcpTimerAgain
    /\ pc' = "check" /\ current' = NoTimeout
    /\ UNCHANGED <<systick_timems, lag, delayed, now, ran, to>>

\* Mutant: a timer that is late is not caught up with, however late it is.
NextAlways(h) == Plus(current.time, Interval[h])

\* lwip_cyclic_timer: the next time is a period after the last one was due, or, when
\* that has passed too, a period from now.
NextTime(h) ==
    LET next == Plus(current.time, Interval[h])
    IN  IF Before(next, systick_timems) THEN Plus(systick_timems, Interval[h]) ELSE next

CyclicTimer ==
    /\ pc = "handler" /\ current.h \in Cyclic
    /\ next_timeout' = Added(Timeout(current.h, NextTime(current.h)), next_timeout)
    /\ pc' = "check" /\ current' = NoTimeout
    /\ UNCHANGED <<clockVars, timer_active, tcpVars, now, ran, to>>

-----------------------------------------------------------------------------
Handler == TcpTimer \/ CyclicTimer
Check == Expire \/ CheckDone
Main == msDelay \/ DelayEnds \/ CheckTimeouts \/ \E c \in Conns : Register(c) \/ Unregister(c)

sys_timeouts_init == StartCyclic \/ InitDone

TimesNext == SysTick \/ sys_timeouts_init \/ Main \/ Check \/ Handler

TimesSpec == TimesInit /\ [][TimesNext]_timeVars

\* The interrupt goes on ticking and every function of the loop returns; the loop does not
\* handle packets forever before it looks at the timeouts.
TimesFairness ==
    /\ WF_timeVars(sys_timeouts_init)
    /\ SF_timeVars(SysTick) /\ WF_timeVars(DelayEnds) /\ SF_timeVars(CheckTimeouts)
    /\ WF_timeVars(Check) /\ WF_timeVars(Handler)

TimesLiveSpec == TimesSpec /\ TimesFairness

-----------------------------------------------------------------------------
\* The list is in the order of the due times, across the wrap of the clock: looking at its
\* head is enough. (sys_timeout_abs, sys_check_timeouts)
ListSorted ==
    \A i, j \in 1 .. Len(next_timeout) :
        i < j => ~Before(next_timeout[j].time, next_timeout[i].time)

\* Every timer that should run has one timeout, which is in the list or being handled, and
\* no other timer has any: none is lost or doubled, so the pool of timeouts never runs dry.
OneTimeoutEach ==
    /\ \A i, j \in 1 .. Len(next_timeout) : next_timeout[i].h = next_timeout[j].h => i = j
    /\ \A h \in Timers : ~(Listed(h) /\ Handled(h))
    /\ pc # "init" => \A h \in Cyclic : Listed(h) \/ Handled(h)
    /\ timer_active <=> Listed(Tcp) \/ Handled(Tcp)
    /\ (\E c \in Conns : pcb[c] # "none") => timer_active

\* "Process only timers expired at the start of the function" (timeouts.c): however late
\* the loop is, a call of sys_check_timeouts runs the TCP timer once and any other timer
\* twice at most.
NoBurst == ran[Tcp] <= 1 /\ \A h \in Cyclic : ran[h] <= 2

\* "The poll function is called every 2nd second" (httpd.c, http_poll): never sooner than a
\* whole period after the last poll, whatever the loop was late for. The first poll of a
\* connection comes when at least all but one of its slow ticks have passed.
PollsSpaced ==
    [][\A c \in Conns : pcb'[c] = "active" /\ polltmr'[c] < polltmr[c] =>
           age[c] >= IF polled[c] THEN Period ELSE Period - 2 * Interval[Tcp]]_timeVars

\* msDelay lasts as long as it was asked to, unless the clock wraps in it: then it ends at
\* once. It never lasts longer.
DelayHonest ==
    pc = "delay" =>
        /\ delayed.ticks <= delayed.ms
        /\ to <= systick_timems => delayed.ticks = delayed.ms \/ delayed.ticks = 0

\* A connection that stays is polled again and again, whatever the loop is busy with: this
\* is what the web server counts on to shed its clients.
PollsGoOn ==
    \A c \in Conns :
        []<>(pcb[c] # "active") \/ []<>(polltmr[c] = 0 /\ polled[c] /\ age[c] = 0)
=============================================================================
