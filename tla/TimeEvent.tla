----------------------------- MODULE TimeEvent -----------------------------
(***************************************************************************)
(* The timer of src/include/util/time_event.h: a thread wakes up once per  *)
(* tick, walks the set of events in the order of their sequence numbers    *)
(* and calls the ones that are due.  Nothing in the repository uses the    *)
(* class yet; the application here is any program that keeps to what the   *)
(* code needs: it sets events while the timer thread waits, or from a      *)
(* callback (std::set is not locked), and cancels them at any time.        *)
(*                                                                         *)
(* Time is counted in units of which a tick has Tick.  It passes while the *)
(* thread waits and in the callbacks; a wait may end up to Jitter late.    *)
(***************************************************************************)
EXTENDS Integers, FiniteSetsExt

CONSTANTS
    Tick,       \* m_tick
    Durations,  \* the durations the application asks for
    Jitter,     \* how late a wait may end
    CallTime,   \* longest duration of a callback
    MaxEvents,  \* bound on the events set in a behaviour
    MaxTime     \* bound on time

ASSUME TimeEventAssumption ==
    /\ Tick \in Nat \ {0} /\ Jitter \in Nat /\ CallTime \in Nat
    /\ Durations \subseteq Nat
    /\ \A d \in Durations : d >= Tick     \* the assert of set_timeout
    /\ MaxEvents \in Nat /\ MaxTime \in Nat

Seq_num == 0..(MaxEvents - 1)

VARIABLES
    pc,         \* where the timer thread is
    now,        \* time since start
    m_ticks,    \* passes so far
    drift,      \* as computed at the end of the last pass
    since,      \* when the current wait began
    m_events,   \* the set of events, by sequence number
    next,       \* kNextSeqNum
    it,         \* the pass has visited the events before this one
    signaled,   \* events of the set whose handle has been cancelled
    m_event     \* the destructor has signalled the thread

vars == <<pc, now, m_ticks, drift, since, m_events, next, it, signaled, m_event>>

\* kind, ticks and elapsed are the code's.  pass is the first pass that counts:
\* history, as long as the event is in the set.
Event == [kind : {"timeout", "interval"}, ticks : Nat \ {0}, elapsed : Nat, pass : Nat]

\* Types, and the iterator: it is valid when it is used, and elapsed, which is
\* compared by equality, never passes ticks.
TypeOK ==
    /\ pc \in {"wait", "visit", "test", "call", "done"}
    /\ now \in Nat /\ m_ticks \in Nat /\ drift \in Int /\ since \in Nat
    /\ next \in 0..MaxEvents
    /\ it \in 0..MaxEvents
    /\ signaled \subseteq DOMAIN m_events
    /\ m_event \in BOOLEAN
    /\ DOMAIN m_events \subseteq 0..(next - 1)
    /\ \A n \in DOMAIN m_events :
          /\ m_events[n] \in Event
          /\ m_events[n].elapsed <= m_events[n].ticks
          /\ m_events[n].elapsed = m_events[n].ticks => n = it /\ pc \in {"test", "call"}
    /\ pc \in {"test", "call"} => it \in DOMAIN m_events

Init ==
    /\ pc = "wait" /\ now = 0 /\ m_ticks = 0 /\ drift = 0 /\ since = 0
    /\ m_events = [n \in {} |-> 0]
    /\ next = 0 /\ it = 0
    /\ signaled = {}
    /\ m_event = FALSE

-----------------------------------------------------------------------------
(* The application *)

\* set_timeout and set_interval: the duration is rounded down to ticks.  An event
\* set by a callback has the largest number, so the pass that is under way still
\* comes to it.
SetEvent(kind, d) ==
    /\ next < MaxEvents
    /\ m_events' = [n \in DOMAIN m_events \cup {next} |->
          IF n = next
          THEN [kind |-> kind, ticks |-> d \div Tick, elapsed |-> 0,
                pass |-> IF pc = "call" THEN m_ticks ELSE m_ticks + 1]
          ELSE m_events[n]]
    /\ next' = next + 1
    /\ UNCHANGED <<pc, now, m_ticks, drift, since, it, signaled, m_event>>

SetFromApplication(kind, d) == pc = "wait" /\ ~m_event /\ SetEvent(kind, d)

SetFromCallback(kind, d) == pc = "call" /\ SetEvent(kind, d)

\* ManualEvent::signal or cancel of a handle, and reset.  Nobody looks at the
\* handle of an event that is no longer in the set.
Cancel(n) ==
    /\ n \in DOMAIN m_events /\ pc # "done"
    /\ signaled' = signaled \cup {n}
    /\ UNCHANGED <<pc, now, m_ticks, drift, since, m_events, next, it, m_event>>

Reset(n) ==
    /\ n \in signaled /\ pc # "done"
    /\ signaled' = signaled \ {n}
    /\ UNCHANGED <<pc, now, m_ticks, drift, since, m_events, next, it, m_event>>

\* ~TimeEvent: signal, then join.
Destroy ==
    /\ ~m_event
    /\ m_event' = TRUE
    /\ UNCHANGED <<pc, now, m_ticks, drift, since, m_events, next, it, signaled>>

-----------------------------------------------------------------------------
(* The timer thread *)

\* Mutant: every wait lasts a whole tick.
WaitWholeTick == Tick

\* What the thread waits for; a wait for no time or less ends at once.
Wait == Max({0, Tick - drift})

\* Time passes in wait_for.
Elapse ==
    /\ pc = "wait" /\ ~m_event
    /\ now < since + Wait + Jitter /\ now < MaxTime
    /\ now' = now + 1
    /\ UNCHANGED <<pc, m_ticks, drift, since, m_events, next, it, signaled, m_event>>

\* wait_for times out: a pass begins.
Wake ==
    /\ pc = "wait" /\ ~m_event /\ now >= since + Wait
    /\ pc' = "visit"
    /\ m_ticks' = m_ticks + 1
    /\ it' = 0
    /\ UNCHANGED <<now, drift, since, m_events, next, signaled, m_event>>

\* wait_for has been signalled: the thread ends.
Exit ==
    /\ pc = "wait" /\ m_event
    /\ pc' = "done"
    /\ UNCHANGED <<now, m_ticks, drift, since, m_events, next, it, signaled, m_event>>

ToVisit == {n \in DOMAIN m_events : n >= it}

\* The next event of the set; it may be due.
Visit ==
    /\ pc = "visit" /\ ToVisit # {}
    /\ LET n == Min(ToVisit) IN
          /\ m_events' = [m_events EXCEPT ![n].elapsed = @ + 1]
          /\ IF m_events'[n].elapsed = m_events[n].ticks
               THEN pc' = "test" /\ it' = n
               ELSE it' = n + 1 /\ UNCHANGED pc
    /\ UNCHANGED <<now, m_ticks, drift, since, next, signaled, m_event>>

Erase(n) ==
    /\ m_events' = [k \in DOMAIN m_events \ {n} |-> m_events[k]]
    /\ signaled' = signaled \ {n}

\* The callback wrapper looks at the handle; a cancelled event is erased.
Test ==
    /\ pc = "test"
    /\ IF it \in signaled
         THEN Erase(it) /\ it' = it + 1 /\ pc' = "visit"
         ELSE pc' = "call" /\ UNCHANGED <<m_events, it, signaled>>
    /\ UNCHANGED <<now, m_ticks, drift, since, next, m_event>>

\* Mutant: an interval goes on counting.
RestartLate == UNCHANGED m_events

\* Mutant: the time an interval took counts for the next one.
RestartAtOne == m_events' = [m_events EXCEPT ![it].elapsed = 1]

Restart == m_events' = [m_events EXCEPT ![it].elapsed = 0]

\* f returns after d: a timeout is erased, an interval starts again.
Return(d) ==
    /\ pc = "call" /\ now + d <= MaxTime
    /\ now' = now + d
    /\ \/ m_events[it].kind = "timeout" /\ Erase(it)
       \/ m_events[it].kind = "interval" /\ Restart /\ UNCHANGED signaled
    /\ it' = it + 1 /\ pc' = "visit"
    /\ UNCHANGED <<m_ticks, drift, since, next, m_event>>

\* The pass is over; how late the thread is will shorten the next wait.  The code takes
\* drift from high_resolution_clock and waits by the clock of wait_for; the model has
\* one clock, as where the two advance alike.
EndPass ==
    /\ pc = "visit" /\ ToVisit = {}
    /\ pc' = "wait" /\ since' = now
    /\ drift' = now - Tick * m_ticks
    /\ UNCHANGED <<now, m_ticks, m_events, next, it, signaled, m_event>>

-----------------------------------------------------------------------------
Next ==
    \/ \E kind \in {"timeout", "interval"}, d \in Durations :
          SetFromApplication(kind, d) \/ SetFromCallback(kind, d)
    \/ \E n \in Seq_num : Cancel(n) \/ Reset(n)
    \/ Destroy
    \/ Elapse \/ Wake \/ Exit
    \/ Visit \/ Test \/ EndPass
    \/ \E d \in 0..CallTime : Return(d)

Spec == Init /\ [][Next]_vars

-----------------------------------------------------------------------------
\* The passes that event n has been counted in.
Counted(n) ==
    LET ahead == \/ pc = "visit" /\ n >= it
                 \/ pc \in {"test", "call"} /\ n > it
    IN  m_ticks - m_events[n].pass + (IF ahead THEN 0 ELSE 1)

\* Whatever is set, cancelled and erased while a pass walks the set, an event is
\* called in its ticks-th pass and in no other, an interval in every multiple of
\* it: no event is skipped or visited twice (time_event.h:149-169).
FiresOnSchedule ==
    \A n \in DOMAIN m_events :
        LET e == m_events[n]
            calling == n = it /\ pc \in {"test", "call"} IN
        /\ calling => Counted(n) % e.ticks = 0
        /\ e.kind = "timeout" => (Counted(n) >= e.ticks <=> calling)
        /\ e.kind = "interval" /\ ~calling => Counted(n) % e.ticks = e.elapsed

\* The correction by drift does its work (time_event.h:146, 170-173): pass k never
\* begins before k ticks have passed, and it begins later than that only by the
\* jitter of one wait or because the pass before it took so long: lateness does
\* not add up over the passes.
TicksOnTime ==
    /\ pc \in {"visit", "test", "call"} => now >= m_ticks * Tick
    /\ pc = "wait" => since + Wait = Max({since, (m_ticks + 1) * Tick})
=============================================================================
