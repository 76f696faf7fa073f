----------------------------- MODULE RateLimits -----------------------------
(***************************************************************************)
(* The rate limiter in front of the routes: for each client and route a    *)
(* list of the times of its requests, for a window of a minute and one of  *)
(* a day. Idle lists are swept now and then, whatever their window.        *)
(*                                                                         *)
(* Sources: services/ratelimit.py, do_GET and do_POST of                   *)
(* services/api/daemon.py. One client and one route: the others matter by  *)
(* the sweep they start. No route counts tokens: every weight is 1.        *)
(***************************************************************************)
EXTENDS Integers, Sequences

CONSTANTS
  Clients,     \* requests the server handles at a time
  Window,      \* [minute, day], in units of time
  Most,        \* [minute, day]: the limits
  Interval,    \* _cleanup_interval
  MaxTime,     \* bound: the time
  MaxEvents    \* bound: events a list holds

Windows == {"minute", "day"}

ASSUME LimitsAssumption ==
  /\ Window \in [Windows -> Nat \ {0}] /\ Most \in [Windows -> Nat \ {0}]
  /\ Interval \in Nat \ {0} /\ MaxTime \in Nat /\ MaxEvents \in Nat
  /\ Window["minute"] <= 2 * Interval

VARIABLES
  now,        \* time.monotonic()
  sweptAt,    \* _last_cleanup
  events,     \* window -> times in its list; <<>> when there is none
  request,    \* request -> "none" or "day", the check it is about to pass
  admitted,   \* history: window -> times of the checks that passed
  forgotten   \* history: windows whose list was swept while it mattered

limitVars == <<now, sweptAt, events, request, admitted, forgotten>>

\* The server has been up for a while: the first request sweeps an empty table.
LimitInit ==
  /\ now = Interval + 1 /\ sweptAt = 0
  /\ events = [w \in Windows |-> <<>>] /\ admitted = [w \in Windows |-> <<>>]
  /\ request = [c \in Clients |-> "none"] /\ forgotten = {}

\* The events of a list after t, in their order.
Since(times, t) ==
  LET kept[i \in 0 .. Len(times)] ==
        IF i = 0 THEN <<>>
        ELSE IF times[i] > t THEN Append(kept[i - 1], times[i]) ELSE kept[i - 1]
  IN  kept[Len(times)]
LastOf(times) == times[Len(times)]

\* _cleanup: lists whose newest event is older than twice the interval.
SweepDue(t) == t - sweptAt > Interval
IdleLists(t) == {w \in Windows : events[w] # <<>> /\ LastOf(events[w]) < t - 2 * Interval}
AfterSweep(t) ==
  IF SweepDue(t) THEN [w \in Windows |-> IF w \in IdleLists(t) THEN <<>> ELSE events[w]] ELSE events

Swept(t) ==
  /\ sweptAt' = IF SweepDue(t) THEN t ELSE sweptAt
  /\ forgotten' = IF SweepDue(t)
                  THEN forgotten \cup {w \in IdleLists(t) : Since(events[w], t - Window[w]) # <<>>}
                  ELSE forgotten

\* The old events go only when the first one is out of the window.
Current(w, t) ==
  LET list == AfterSweep(t)[w] IN
  IF list # <<>> /\ Head(list) < t - Window[w] THEN Since(list, t - Window[w]) ELSE list

\* Mutant of Passes: the request itself is not counted.
PassesUncounted(w, t) == AfterSweep(t)[w] = <<>> \/ Len(Current(w, t)) <= Most[w]

\* The first event of a list passes; a refused request counts like the others.
Passes(w, t) == AfterSweep(t)[w] = <<>> \/ Len(Current(w, t)) + 1 <= Most[w]

\* RateLimiter.check, at the time t it read before it took the lock.
Check(w, t) ==
  /\ Len(events[w]) < MaxEvents
  /\ Swept(t)
  /\ events' = [AfterSweep(t) EXCEPT ![w] = Append(Current(w, t), t)]
  /\ admitted' = IF Passes(w, t)
                 THEN [admitted EXCEPT ![w] = Append(Since(@, now - Window[w]), t)] ELSE admitted
  /\ UNCHANGED now

\* A thread may wait for the lock while the time goes on.
Stamps == {now - 1, now}

\* check_rate_limit: the minute, then the day. A request the day refuses has been
\* counted in the minute.
CheckMinute(c) ==
  /\ request[c] = "none"
  /\ \E t \in Stamps :
       /\ Check("minute", t)
       /\ request' = IF Passes("minute", t) THEN [request EXCEPT ![c] = "day"] ELSE request

CheckDay(c) ==
  /\ request[c] = "day"
  /\ \E t \in Stamps : Check("day", t)
  /\ request' = [request EXCEPT ![c] = "none"]

\* A request on another route sweeps.
OtherRoute ==
  /\ SweepDue(now) /\ Swept(now) /\ events' = AfterSweep(now)
  /\ UNCHANGED <<now, request, admitted>>

LimitTick ==
  /\ now < MaxTime /\ now' = now + 1
  /\ UNCHANGED <<sweptAt, events, request, admitted, forgotten>>

LimitNext ==
  \/ \E c \in Clients : CheckMinute(c) \/ CheckDay(c)
  \/ OtherRoute \/ LimitTick

LimitSpec == LimitInit /\ [][LimitNext]_limitVars

-----------------------------------------------------------------------------
\* In no window of time do more requests pass than its limit, however they come
\* and however the old events are dropped, unless the list was swept inside the
\* window: the day's list goes after ten idle minutes, the minute's never so.
WithinLimits ==
  /\ "minute" \notin forgotten
  /\ \A w \in Windows \ forgotten : Len(Since(admitted[w], now - Window[w])) <= Most[w]
=============================================================================
