-------------------------- MODULE TimeEventProofs --------------------------
(***************************************************************************)
(* Proofs about TimeEvent, for any tick, any durations of at least a tick, *)
(* any number of events and any time.                                      *)
(*                                                                         *)
(* A pass visits the events in the order of their numbers.  CountInv ties  *)
(* the counter of an event to the passes it has taken part in: between two *)
(* visits nothing but a new pass changes that number, and a new pass makes *)
(* the event one to visit again.  DriftInv says what drift is when a wait  *)
(* begins.                                                                 *)
(***************************************************************************)
EXTENDS TimeEvent, WellFoundedInduction, TLAPS

\* The set of events is a function from sequence numbers.
EventsInv == m_events \in [DOMAIN m_events -> Event]

\* The event under test, or called, is due.
DueInv == pc \in {"test", "call"} => m_events[it].elapsed = m_events[it].ticks

\* The counter of an event is the number of passes it has been counted in, for an
\* interval since it was last due.
CountInv ==
    \A n \in DOMAIN m_events :
        LET e == m_events[n] IN
        /\ Counted(n) \in Nat
        /\ e.kind = "timeout" => Counted(n) = e.elapsed
        /\ e.kind = "interval" =>
              Counted(n) % e.ticks = IF e.elapsed = e.ticks THEN 0 ELSE e.elapsed

\* How late the wait began; a pass does not begin early.
DriftInv ==
    /\ pc = "wait" => drift = since - Tick * m_ticks
    /\ pc \in {"visit", "test", "call"} => now >= m_ticks * Tick

IndInv == TypeOK /\ EventsInv /\ DueInv /\ CountInv /\ DriftInv

-----------------------------------------------------------------------------
(* Numbers *)

\* A set of natural numbers has a least one.
LEMMA MinNat ==
    ASSUME NEW S, S \subseteq Nat, S # {}
    PROVE  Min(S) \in S /\ \A x \in S : Min(S) <= x
  <1> DEFINE R == OpToRel(<, Nat)
  <1>1. \A x, y \in Nat : <<x, y>> \in R <=> x < y
    BY DEF OpToRel
  <1>2. \E x \in S : \A y \in S : ~(<<y, x>> \in R)
    <2>1. IsWellFoundedOn(R, Nat)
      BY NatLessThanWellFounded
    <2> HIDE DEF R
    <2>2. QED
      BY <2>1, WFMin
  <1> HIDE DEF R
  <1>3. \E x \in S : \A y \in S : x <= y
    <2>1. PICK x \in S : \A y \in S : ~(<<y, x>> \in R)
      BY <1>2
    <2>2. \A y \in S : ~(y < x) /\ y \in Nat /\ x \in Nat
      BY <1>1, <2>1
    <2>3. QED
      BY <2>2
  <1>4. QED
    BY <1>3 DEF Min

\* The larger of two numbers.
LEMMA MaxPair ==
    ASSUME NEW i \in Int, NEW j \in Int
    PROVE  Max({i, j}) = IF i >= j THEN i ELSE j
  <1>1. \E x \in {i, j} : \A y \in {i, j} : x >= y
    OBVIOUS
  <1>2. Max({i, j}) \in {i, j} /\ \A y \in {i, j} : Max({i, j}) >= y
    BY <1>1 DEF Max
  <1>3. QED
    BY <1>2

\* A duration of at least a tick has at least one tick.
LEMMA DivPositive ==
    ASSUME NEW d \in Nat, NEW t \in Nat \ {0}, d >= t
    PROVE  d \div t \in Nat \ {0}
  OBVIOUS

\* A remainder is what is left of a multiple.
LEMMA ModOf ==
    ASSUME NEW c \in Nat, NEW t \in Nat \ {0}, NEW e \in Nat, e < t,
           NEW q \in Nat, c = t * q + e
    PROVE  c % t = e
  OBVIOUS

\* Counting on by one.
LEMMA ModStep ==
    ASSUME NEW c \in Nat, NEW t \in Nat \ {0}, NEW e \in Nat, e < t, c % t = e
    PROVE  (c + 1) % t = IF e + 1 = t THEN 0 ELSE e + 1
  <1> DEFINE q == c \div t
             d == c + 1
  <1>1. c = t * q + e /\ q \in Nat /\ d \in Nat
    OBVIOUS
  <1>2. CASE e + 1 = t
    <2>1. d = t * (q + 1) + 0 /\ q + 1 \in Nat
      BY <1>1, <1>2
    <2> HIDE DEF d
    <2>2. d % t = 0
      BY <1>1, <2>1, ModOf
    <2>3. QED
      BY <2>2, <1>2 DEF d
  <1>3. CASE e + 1 # t
    <2>1. d = t * q + (e + 1) /\ e + 1 < t /\ e + 1 \in Nat
      BY <1>1, <1>3
    <2> HIDE DEF d, q
    <2>2. d % t = e + 1
      BY <1>1, <2>1, ModOf
    <2>3. QED
      BY <2>2, <1>3 DEF d
  <1>4. QED
    BY <1>2, <1>3

\* The remainders of nothing and of a whole.
LEMMA ModZero == ASSUME NEW t \in Nat \ {0} PROVE t % t = 0 /\ 0 % t = 0
  OBVIOUS

\* The next multiple.
LEMMA NextMultiple ==
    ASSUME NEW t \in Nat, NEW m \in Nat
    PROVE  /\ t * m \in Nat /\ m * t = t * m
           /\ (m + 1) * t = t * m + t /\ t * (m + 1) = t * m + t
  OBVIOUS

-----------------------------------------------------------------------------
(* Steps *)

\* What the invariant says of an event.
LEMMA EventFacts ==
    ASSUME IndInv, NEW n \in DOMAIN m_events
    PROVE  /\ n \in Nat /\ n < next /\ next \in Nat /\ next <= MaxEvents
           /\ m_events[n] \in Event
           /\ m_events[n].elapsed \in Nat /\ m_events[n].ticks \in Nat \ {0}
           /\ m_events[n].pass \in Nat /\ m_events[n].kind \in {"timeout", "interval"}
           /\ m_events[n].elapsed <= m_events[n].ticks
           /\ m_events[n].elapsed = m_events[n].ticks <=> n = it /\ pc \in {"test", "call"}
  BY TimeEventAssumption DEF IndInv, TypeOK, DueInv, Event

\* The thread does not get to another event, and no pass begins.
LEMMA QuietStep ==
    ASSUME IndInv,
           UNCHANGED <<m_ticks, drift, since, m_events, next, it>>,
           signaled' \subseteq DOMAIN m_events, m_event' \in BOOLEAN,
           now' \in Nat, now' >= now,
           pc' = pc \/ <<pc, pc'>> \in {<<"wait", "done">>, <<"test", "call">>}
    PROVE  IndInv'
  <1>1. TypeOK'
    BY DEF IndInv, TypeOK
  <1>2. EventsInv' /\ DueInv'
    BY DEF IndInv, EventsInv, DueInv
  <1>3. \A n \in DOMAIN m_events : Counted(n)' = Counted(n)
    BY DEF Counted
  <1>4. CountInv'
    BY <1>3 DEF IndInv, CountInv
  <1>5. DriftInv'
    <2>1. m_ticks * Tick \in Nat /\ now \in Nat
      BY TimeEventAssumption, NextMultiple DEF IndInv, TypeOK
    <2>2. QED
      BY <2>1 DEF IndInv, DriftInv
  <1>6. QED
    BY <1>1, <1>2, <1>4, <1>5 DEF IndInv

\* A wait that times out ends no earlier than the next multiple of a tick.
LEMMA WaitEnds ==
    ASSUME IndInv, pc = "wait"
    PROVE  /\ Wait \in Nat
           /\ since + Wait >= (m_ticks + 1) * Tick
           /\ since + Wait = IF since >= (m_ticks + 1) * Tick THEN since
                             ELSE (m_ticks + 1) * Tick
  <1>1. /\ drift = since - Tick * m_ticks /\ since \in Nat /\ m_ticks \in Nat
        /\ Tick \in Nat /\ Tick * m_ticks \in Nat
        /\ (m_ticks + 1) * Tick = Tick * m_ticks + Tick
    BY TimeEventAssumption, NextMultiple DEF IndInv, TypeOK, DriftInv
  <1>2. Wait = IF 0 >= Tick - drift THEN 0 ELSE Tick - drift
    BY <1>1, MaxPair DEF Wait
  <1>3. QED
    BY <1>1, <1>2

LEMMA WakeStep == ASSUME IndInv, Wake PROVE IndInv'
  <1> USE TimeEventAssumption
  <1>1. /\ pc = "wait" /\ pc' = "visit" /\ m_ticks' = m_ticks + 1 /\ it' = 0
        /\ now >= since + Wait
        /\ UNCHANGED <<now, drift, since, m_events, next, signaled, m_event>>
    BY DEF Wake
  <1>2. TypeOK'
    BY <1>1 DEF IndInv, TypeOK
  <1>3. EventsInv' /\ DueInv'
    BY <1>1 DEF IndInv, EventsInv, DueInv
  <1>4. CountInv'
    <2>1. \A n \in DOMAIN m_events : Counted(n)' = Counted(n)
      <3> SUFFICES ASSUME NEW n \in DOMAIN m_events PROVE Counted(n)' = Counted(n)
        OBVIOUS
      <3>1. n >= 0 /\ n \in Nat /\ m_events[n].pass \in Nat /\ m_ticks \in Nat
        BY EventFacts DEF IndInv, TypeOK
      <3>2. QED
        BY <1>1, <3>1 DEF Counted
    <2>2. QED
      BY <1>1, <2>1 DEF IndInv, CountInv
  <1>5. DriftInv'
    <2>1. /\ Wait \in Nat /\ since + Wait >= (m_ticks + 1) * Tick
          /\ now \in Nat /\ since \in Nat /\ (m_ticks + 1) * Tick \in Nat
      BY <1>1, WaitEnds, NextMultiple DEF IndInv, TypeOK
    <2>2. QED
      BY <1>1, <2>1 DEF DriftInv
  <1>6. QED
    BY <1>2, <1>3, <1>4, <1>5 DEF IndInv

LEMMA EndPassStep == ASSUME IndInv, EndPass PROVE IndInv'
  <1> USE TimeEventAssumption
  <1>1. /\ pc = "visit" /\ pc' = "wait" /\ since' = now
        /\ drift' = now - Tick * m_ticks
        /\ \A n \in DOMAIN m_events : ~(n >= it)
        /\ UNCHANGED <<now, m_ticks, m_events, next, it, signaled, m_event>>
    BY DEF EndPass, ToVisit
  <1>2. drift' \in Int
    BY <1>1, NextMultiple DEF IndInv, TypeOK
  <1>3. TypeOK'
    BY <1>1, <1>2 DEF IndInv, TypeOK
  <1>4. EventsInv' /\ DueInv' /\ DriftInv'
    BY <1>1 DEF IndInv, EventsInv, DueInv, DriftInv
  <1>5. CountInv'
    <2>1. \A n \in DOMAIN m_events : Counted(n)' = Counted(n)
      BY <1>1 DEF Counted
    <2>2. QED
      BY <1>1, <2>1 DEF IndInv, CountInv
  <1>6. QED
    BY <1>3, <1>4, <1>5 DEF IndInv

\* set_timeout and set_interval, from the application or from a callback.
LEMMA SetStep ==
    ASSUME IndInv, NEW kind \in {"timeout", "interval"}, NEW d \in Durations,
           pc \in {"wait", "call"}, SetEvent(kind, d)
    PROVE  IndInv'
  <1> USE TimeEventAssumption
  <1> DEFINE p == IF pc = "call" THEN m_ticks ELSE m_ticks + 1
             t == d \div Tick
             new == [kind |-> kind, ticks |-> t, elapsed |-> 0, pass |-> p]
  <1>1. /\ next < MaxEvents /\ next' = next + 1
        /\ m_events' = [n \in DOMAIN m_events \cup {next} |->
                           IF n = next THEN new ELSE m_events[n]]
        /\ UNCHANGED <<pc, now, m_ticks, drift, since, it, signaled, m_event>>
    BY DEF SetEvent
  <1>2. t \in Nat \ {0}
    BY DivPositive
  <1>3. /\ next \in Nat /\ next \notin DOMAIN m_events /\ p \in Nat /\ m_ticks \in Nat
        /\ DOMAIN m_events \subseteq 0..(next - 1)
    BY DEF IndInv, TypeOK
  <1>4. /\ DOMAIN m_events' = DOMAIN m_events \cup {next}
        /\ m_events'[next] = new
        /\ \A n \in DOMAIN m_events : m_events'[n] = m_events[n]
    BY <1>1, <1>3
  <1>5. /\ new \in Event /\ new.elapsed = 0 /\ new.ticks = t /\ new.kind = kind
        /\ new.pass = p
    BY <1>2, <1>3 DEF Event
  <1> HIDE DEF t, new, p
  <1>6. EventsInv'
    BY <1>1, <1>4, <1>5 DEF IndInv, EventsInv
  <1>7. TypeOK'
    <2>1. DOMAIN m_events' \subseteq 0..(next' - 1) /\ next' \in 0..MaxEvents
      BY <1>1, <1>3, <1>4
    <2>2. signaled' \subseteq DOMAIN m_events'
      BY <1>1, <1>4 DEF IndInv, TypeOK
    <2>3. ASSUME NEW n \in DOMAIN m_events'
          PROVE  /\ m_events'[n] \in Event
                 /\ m_events'[n].elapsed <= m_events'[n].ticks
                 /\ m_events'[n].elapsed = m_events'[n].ticks =>
                       n = it' /\ pc' \in {"test", "call"}
      <3>1. CASE n = next
        BY <3>1, <1>2, <1>4, <1>5
      <3>2. CASE n \in DOMAIN m_events
        BY <3>2, <1>1, <1>4, EventFacts
      <3>3. QED
        BY <3>1, <3>2, <1>4
    <2>4. pc' \in {"test", "call"} => it' \in DOMAIN m_events'
      BY <1>1, <1>4 DEF IndInv, TypeOK
    <2>5. QED
      BY <1>1, <2>1, <2>2, <2>3, <2>4 DEF IndInv, TypeOK
  <1>8. DueInv'
    BY <1>1, <1>4 DEF IndInv, TypeOK, DueInv
  <1>9. CountInv'
    <2>1. \A n \in DOMAIN m_events : Counted(n)' = Counted(n)
      BY <1>1, <1>4 DEF Counted
    <2>2. ASSUME NEW n, n = next PROVE Counted(n)' = 0
      <3>1. pc = "call" => it < next /\ it \in Nat
        BY EventFacts DEF IndInv, TypeOK
      <3>2. m_events'[n].pass = p
        BY <2>2, <1>4, <1>5
      <3>3. QED
        BY <2>2, <1>1, <1>3, <3>1, <3>2 DEF Counted, p
    <2>3. 0 % t = 0
      BY <1>2, ModZero
    <2>4. ASSUME NEW n \in DOMAIN m_events'
          PROVE  /\ Counted(n)' \in Nat
                 /\ m_events'[n].kind = "timeout" => Counted(n)' = m_events'[n].elapsed
                 /\ m_events'[n].kind = "interval" =>
                       Counted(n)' % m_events'[n].ticks =
                           IF m_events'[n].elapsed = m_events'[n].ticks THEN 0
                           ELSE m_events'[n].elapsed
      <3>1. CASE n = next
        <4>1. Counted(n)' = 0
          BY <3>1, <2>2
        <4>2. /\ m_events'[n].kind = kind /\ m_events'[n].ticks = t
              /\ m_events'[n].elapsed = 0
          BY <3>1, <1>4, <1>5
        <4>3. QED
          BY <4>1, <4>2, <1>2, <2>3
      <3>2. CASE n \in DOMAIN m_events
        BY <3>2, <1>4, <2>1 DEF IndInv, CountInv
      <3>3. QED
        BY <3>1, <3>2, <1>4
    <2>5. QED
      BY <2>4 DEF CountInv
  <1>10. DriftInv'
    BY <1>1 DEF IndInv, DriftInv
  <1>11. QED
    BY <1>6, <1>7, <1>8, <1>9, <1>10 DEF IndInv

\* The pass comes to its next event.
LEMMA VisitStep == ASSUME IndInv, Visit PROVE IndInv'
  <1> USE TimeEventAssumption
  <1>0. PICK n : n = Min(ToVisit)
    OBVIOUS
  <1> DEFINE e == m_events[n]
  <1>1. /\ pc = "visit" /\ ToVisit # {}
        /\ m_events' = [m_events EXCEPT ![n].elapsed = @ + 1]
        /\ IF m_events'[n].elapsed = e.ticks
             THEN pc' = "test" /\ it' = n ELSE it' = n + 1 /\ UNCHANGED pc
        /\ UNCHANGED <<now, m_ticks, drift, since, next, signaled, m_event>>
    BY <1>0 DEF Visit
  <1>2. n \in DOMAIN m_events /\ n >= it /\ \A m \in DOMAIN m_events : m >= it => m >= n
    <2>1. ToVisit \subseteq Nat
      BY EventFacts DEF ToVisit
    <2>2. n \in ToVisit /\ \A m \in ToVisit : n <= m
      BY <1>0, <1>1, <2>1, MinNat
    <2>3. \A m \in DOMAIN m_events : m \in Nat
      BY EventFacts
    <2>4. QED
      BY <2>2, <2>3 DEF ToVisit
  <1>3. /\ n \in Nat /\ n < next /\ next \in Nat /\ next <= MaxEvents
        /\ e \in Event /\ e.elapsed \in Nat /\ e.ticks \in Nat \ {0} /\ e.elapsed < e.ticks
        /\ it \in Nat /\ m_ticks \in Nat /\ e.pass \in Nat
        /\ e.kind \in {"timeout", "interval"}
    BY <1>1, <1>2, EventFacts DEF IndInv, TypeOK
  <1>4. m_events \in [DOMAIN m_events -> Event]
    BY DEF IndInv, EventsInv
  <1>5. /\ DOMAIN m_events' = DOMAIN m_events
        /\ m_events'[n] = [e EXCEPT !.elapsed = e.elapsed + 1]
        /\ \A m \in DOMAIN m_events : m # n => m_events'[m] = m_events[m]
    BY <1>1, <1>2, <1>4
  <1>6. /\ m_events'[n] \in Event /\ m_events'[n].elapsed = e.elapsed + 1
        /\ m_events'[n].ticks = e.ticks /\ m_events'[n].pass = e.pass
        /\ m_events'[n].kind = e.kind
    BY <1>3, <1>5 DEF Event
  <1> HIDE DEF e
  <1>7. EventsInv'
    BY <1>1, <1>4, <1>5, <1>6 DEF EventsInv
  <1>8. \/ pc' = "test" /\ it' = n /\ e.elapsed + 1 = e.ticks
        \/ pc' = "visit" /\ it' = n + 1 /\ e.elapsed + 1 # e.ticks
    BY <1>1, <1>6
  <1>9. \A m \in DOMAIN m_events : m # n =>
            /\ m_events[m] \in Event /\ m_events[m].elapsed <= m_events[m].ticks
            /\ m_events[m].elapsed # m_events[m].ticks /\ m \in Nat
    BY <1>1, EventFacts
  <1>10. TypeOK'
    <2>1. ASSUME NEW m \in DOMAIN m_events'
          PROVE  /\ m_events'[m] \in Event
                 /\ m_events'[m].elapsed <= m_events'[m].ticks
                 /\ m_events'[m].elapsed = m_events'[m].ticks =>
                       m = it' /\ pc' \in {"test", "call"}
      <3>1. CASE m = n
        BY <3>1, <1>3, <1>6, <1>8
      <3>2. CASE m # n
        BY <3>2, <1>5, <1>9
      <3>3. QED
        BY <3>1, <3>2
    <2>2. it' \in 0..MaxEvents /\ (pc' \in {"test", "call"} => it' \in DOMAIN m_events')
      BY <1>2, <1>3, <1>5, <1>8
    <2>3. pc' \in {"wait", "visit", "test", "call", "done"}
      BY <1>8
    <2>4. QED
      BY <1>1, <1>5, <2>1, <2>2, <2>3 DEF IndInv, TypeOK
  <1>11. DueInv'
    BY <1>6, <1>8 DEF DueInv
  <1>12. CountInv'
    <2>1. Counted(n)' = Counted(n) + 1
      BY <1>1, <1>2, <1>3, <1>6, <1>8 DEF Counted, e
    <2>2. \A m \in DOMAIN m_events : m # n => Counted(m)' = Counted(m)
      <3> SUFFICES ASSUME NEW m \in DOMAIN m_events, m # n PROVE Counted(m)' = Counted(m)
        OBVIOUS
      <3>1. m \in Nat /\ m_events'[m] = m_events[m] /\ (m >= it => m > n)
        BY <1>2, <1>3, <1>5, <1>9
      <3>2. m >= it <=> m > n
        BY <1>2, <1>3, <3>1
      <3>3. QED
        BY <1>1, <1>3, <1>8, <3>1, <3>2 DEF Counted
    <2>3. ASSUME NEW m \in DOMAIN m_events'
          PROVE  /\ Counted(m)' \in Nat
                 /\ m_events'[m].kind = "timeout" => Counted(m)' = m_events'[m].elapsed
                 /\ m_events'[m].kind = "interval" =>
                       Counted(m)' % m_events'[m].ticks =
                           IF m_events'[m].elapsed = m_events'[m].ticks THEN 0
                           ELSE m_events'[m].elapsed
      <3>1. CASE m = n
        <4>1. /\ Counted(n) \in Nat
              /\ e.kind = "timeout" => Counted(n) = e.elapsed
              /\ e.kind = "interval" => Counted(n) % e.ticks = e.elapsed
          BY <1>2, <1>3 DEF IndInv, CountInv, e
        <4>2. e.kind = "interval" => (Counted(n) + 1) % e.ticks =
                  IF e.elapsed + 1 = e.ticks THEN 0 ELSE e.elapsed + 1
          BY <1>3, <4>1, ModStep, SMTT(30)
        <4>3. Counted(n)' \in Nat
          BY <4>1, <2>1
        <4>4. e.kind = "timeout" => Counted(n)' = m_events'[n].elapsed
          BY <4>1, <2>1, <1>6
        <4>5. e.kind = "interval" => Counted(n)' % m_events'[n].ticks =
                  IF m_events'[n].elapsed = m_events'[n].ticks THEN 0
                  ELSE m_events'[n].elapsed
          BY <4>2, <2>1, <1>6
        <4>6. QED
          BY <3>1, <4>3, <4>4, <4>5, <1>6
      <3>2. CASE m # n
        BY <3>2, <1>5, <2>2 DEF IndInv, CountInv
      <3>3. QED
        BY <3>1, <3>2
    <2>4. QED
      BY <2>3 DEF CountInv
  <1>13. DriftInv'
    BY <1>1, <1>8 DEF IndInv, DriftInv
  <1>14. QED
    BY <1>7, <1>10, <1>11, <1>12, <1>13 DEF IndInv

\* The pass leaves the event that was due: it is erased or starts again.
LEMMA LeaveStep ==
    ASSUME IndInv, pc \in {"test", "call"},
           \/ Erase(it)
           \/ m_events[it].kind = "interval" /\ Restart /\ UNCHANGED signaled,
           pc' = "visit", it' = it + 1, now' \in Nat, now' >= now,
           UNCHANGED <<m_ticks, drift, since, next, m_event>>
    PROVE  IndInv'
  <1> USE TimeEventAssumption
  <1>1. it \in DOMAIN m_events /\ m_events \in [DOMAIN m_events -> Event]
    BY DEF IndInv, TypeOK, EventsInv
  <1>2. /\ it \in Nat /\ it < next /\ next \in Nat /\ next <= MaxEvents
        /\ m_events[it] \in Event /\ m_events[it].ticks \in Nat \ {0}
        /\ m_events[it].elapsed = m_events[it].ticks
    BY <1>1, EventFacts
  <1>3. \A m \in DOMAIN m_events : m # it =>
            /\ m_events[m] \in Event /\ m_events[m].elapsed <= m_events[m].ticks
            /\ m_events[m].elapsed # m_events[m].ticks /\ m \in Nat
    BY EventFacts
  <1>4. \A m \in DOMAIN m_events \ {it} :
            m \in DOMAIN m_events' /\ m_events'[m] = m_events[m]
    BY <1>1 DEF Erase, Restart
  <1>5. it \in DOMAIN m_events' =>
            /\ m_events[it].kind = "interval"
            /\ m_events'[it] \in Event
            /\ m_events'[it].elapsed = 0 /\ m_events'[it].kind = "interval"
            /\ m_events'[it].ticks = m_events[it].ticks
            /\ m_events'[it].pass = m_events[it].pass
    <2>1. CASE Erase(it)
      BY <2>1 DEF Erase
    <2>2. CASE m_events[it].kind = "interval" /\ Restart
      <3>1. m_events'[it] = [m_events[it] EXCEPT !.elapsed = 0]
        BY <2>2, <1>1 DEF Restart
      <3>2. QED
        BY <2>2, <3>1, <1>2 DEF Event
    <2>3. QED
      BY <2>1, <2>2
  <1>6. DOMAIN m_events' \subseteq DOMAIN m_events /\ signaled' \subseteq DOMAIN m_events'
    BY <1>1 DEF Erase, Restart, IndInv, TypeOK
  <1>7. EventsInv'
    <2>1. m_events' = [m \in DOMAIN m_events' |-> m_events'[m]]
      BY <1>1 DEF Erase, Restart
    <2>2. QED
      BY <2>1, <1>3, <1>4, <1>5, <1>6 DEF EventsInv
  <1>8. TypeOK'
    <2>1. ASSUME NEW m \in DOMAIN m_events'
          PROVE  /\ m_events'[m] \in Event
                 /\ m_events'[m].elapsed <= m_events'[m].ticks
                 /\ m_events'[m].elapsed # m_events'[m].ticks
      BY <1>2, <1>3, <1>4, <1>5, <1>6
    <2>2. it' \in 0..MaxEvents
      BY <1>2
    <2>3. DOMAIN m_events' \subseteq 0..(next' - 1)
      BY <1>6 DEF IndInv, TypeOK
    <2>4. QED
      BY <1>6, <2>1, <2>2, <2>3 DEF IndInv, TypeOK
  <1>9. DueInv'
    BY DEF DueInv
  <1>10. CountInv'
    <2>1. \A m \in DOMAIN m_events' : Counted(m)' = Counted(m)
      <3> SUFFICES ASSUME NEW m \in DOMAIN m_events' PROVE Counted(m)' = Counted(m)
        OBVIOUS
      <3>1. m \in Nat /\ m_events'[m].pass = m_events[m].pass
        BY <1>2, <1>3, <1>4, <1>5, <1>6
      <3>2. m > it <=> m >= it + 1
        BY <1>2, <3>1
      <3>3. QED
        BY <3>1, <3>2 DEF Counted
    <2>2. ASSUME NEW m \in DOMAIN m_events'
          PROVE  /\ Counted(m)' \in Nat
                 /\ m_events'[m].kind = "timeout" => Counted(m)' = m_events'[m].elapsed
                 /\ m_events'[m].kind = "interval" =>
                       Counted(m)' % m_events'[m].ticks =
                           IF m_events'[m].elapsed = m_events'[m].ticks THEN 0
                           ELSE m_events'[m].elapsed
      <3>1. CASE m = it
        BY <3>1, <2>1, <1>1, <1>2, <1>5 DEF IndInv, CountInv
      <3>2. CASE m # it
        BY <3>2, <2>1, <1>4, <1>6 DEF IndInv, CountInv
      <3>3. QED
        BY <3>1, <3>2
    <2>3. QED
      BY <2>2 DEF CountInv
  <1>11. DriftInv'
    <2>1. m_ticks * Tick \in Nat /\ now \in Nat
      BY NextMultiple DEF IndInv, TypeOK
    <2>2. QED
      BY <2>1 DEF IndInv, DriftInv
  <1>12. QED
    BY <1>7, <1>8, <1>9, <1>10, <1>11 DEF IndInv

\* The timer as it is constructed.
LEMMA InitInv == ASSUME Init PROVE IndInv
  <1>1. DOMAIN m_events = {} /\ EventsInv
    BY DEF Init, EventsInv
  <1>2. TypeOK
    <2>1. /\ pc = "wait" /\ now = 0 /\ m_ticks = 0 /\ drift = 0 /\ since = 0
          /\ next = 0 /\ it = 0 /\ signaled = {} /\ m_event = FALSE
      BY DEF Init
    <2>2. 0 \in 0..MaxEvents
      BY TimeEventAssumption
    <2>3. m_event \in BOOLEAN
      BY <2>1
    <2>4. QED
      BY <1>1, <2>1, <2>2, <2>3 DEF TypeOK
  <1>3. DueInv /\ CountInv
    BY <1>1 DEF Init, DueInv, CountInv
  <1>4. DriftInv
    BY TimeEventAssumption DEF Init, DriftInv
  <1>5. QED
    BY <1>1, <1>2, <1>3, <1>4 DEF IndInv

\* Every step, and stuttering, preserves the invariant.
LEMMA StepInv == ASSUME IndInv, [Next]_vars PROVE IndInv'
  <1> USE TimeEventAssumption
  <1>0. now \in Nat /\ now >= now /\ m_event \in BOOLEAN /\ signaled \subseteq DOMAIN m_events
    BY DEF IndInv, TypeOK
  <1>1. ASSUME NEW kind \in {"timeout", "interval"}, NEW d \in Durations,
               SetFromApplication(kind, d) \/ SetFromCallback(kind, d)
        PROVE  IndInv'
    BY <1>1, SetStep DEF SetFromApplication, SetFromCallback
  <1>2. ASSUME NEW n \in Seq_num, Cancel(n) \/ Reset(n) PROVE IndInv'
    <2>1. signaled' \subseteq DOMAIN m_events
      BY <1>0, <1>2 DEF Cancel, Reset
    <2>2. QED
      BY <1>0, <1>2, <2>1, QuietStep DEF Cancel, Reset
  <1>3. CASE Destroy
    BY <1>0, <1>3, QuietStep DEF Destroy
  <1>4. CASE Elapse
    <2>1. now' \in Nat /\ now' >= now
      BY <1>0, <1>4 DEF Elapse
    <2>2. QED
      BY <1>0, <1>4, <2>1, QuietStep DEF Elapse
  <1>5. CASE Exit
    BY <1>0, <1>5, QuietStep DEF Exit
  <1>6. CASE Test
    <2>1. CASE it \in signaled
      BY <1>0, <1>6, <2>1, LeaveStep DEF Test
    <2>2. CASE it \notin signaled
      BY <1>0, <1>6, <2>2, QuietStep DEF Test
    <2>3. QED
      BY <2>1, <2>2
  <1>7. ASSUME NEW d \in 0..CallTime, Return(d) PROVE IndInv'
    <2>1. now' \in Nat /\ now' >= now
      BY <1>0, <1>7 DEF Return
    <2>2. QED
      BY <1>7, <2>1, LeaveStep DEF Return
  <1>8. CASE UNCHANGED vars
    BY <1>0, <1>8, QuietStep DEF vars
  <1>9. QED
    BY <1>1, <1>2, <1>3, <1>4, <1>5, <1>6, <1>7, <1>8, WakeStep, EndPassStep, VisitStep
       DEF Next

-----------------------------------------------------------------------------
(* The theorems *)

\* The counters tell when an event is called.
LEMMA InvFires == ASSUME IndInv PROVE FiresOnSchedule
  <1> SUFFICES ASSUME NEW n \in DOMAIN m_events
               PROVE  LET e == m_events[n]
                          calling == n = it /\ pc \in {"test", "call"} IN
                      /\ calling => Counted(n) % e.ticks = 0
                      /\ e.kind = "timeout" => (Counted(n) >= e.ticks <=> calling)
                      /\ e.kind = "interval" /\ ~calling => Counted(n) % e.ticks = e.elapsed
    BY DEF FiresOnSchedule
  <1> DEFINE e == m_events[n]
             calling == n = it /\ pc \in {"test", "call"}
  <1>1. /\ e.elapsed \in Nat /\ e.ticks \in Nat \ {0} /\ e.elapsed <= e.ticks
        /\ e.elapsed = e.ticks <=> calling
        /\ e.kind \in {"timeout", "interval"}
    BY EventFacts
  <1>2. /\ Counted(n) \in Nat
        /\ e.kind = "timeout" => Counted(n) = e.elapsed
        /\ e.kind = "interval" =>
              Counted(n) % e.ticks = IF e.elapsed = e.ticks THEN 0 ELSE e.elapsed
    BY DEF IndInv, CountInv
  <1>3. e.ticks % e.ticks = 0
    BY <1>1, ModZero
  <1> HIDE DEF e, calling
  <1>4. calling => Counted(n) % e.ticks = 0
    BY <1>1, <1>2, <1>3
  <1>5. e.kind = "timeout" => (Counted(n) >= e.ticks <=> calling)
    BY <1>1, <1>2
  <1>6. e.kind = "interval" /\ ~calling => Counted(n) % e.ticks = e.elapsed
    BY <1>1, <1>2
  <1>7. QED
    BY <1>4, <1>5, <1>6 DEF e, calling

\* The wait makes up for the drift.
LEMMA InvTicks == ASSUME IndInv PROVE TicksOnTime
  <1>1. pc \in {"visit", "test", "call"} => now >= m_ticks * Tick
    BY DEF IndInv, DriftInv
  <1>2. ASSUME pc = "wait" PROVE since + Wait = Max({since, (m_ticks + 1) * Tick})
    <2>1. since \in Int /\ (m_ticks + 1) * Tick \in Int
      BY TimeEventAssumption, NextMultiple DEF IndInv, TypeOK
    <2>2. QED
      BY <1>2, <2>1, MaxPair, WaitEnds
  <1>3. QED
    BY <1>1, <1>2 DEF TicksOnTime

\* The inductive invariant holds throughout.
THEOREM TimerInductive == Spec => []IndInv
  BY InitInv, StepInv, PTL DEF Spec

\* The iterator of a pass is valid when it is used, whatever a callback sets and
\* whatever is erased, and elapsed never passes ticks (time_event.h:149-169).
THEOREM TimerTypeCorrect == Spec => []TypeOK
  <1>1. IndInv => TypeOK
    BY DEF IndInv
  <1>2. QED
    BY TimerInductive, <1>1, PTL

\* An event is called in its ticks-th pass, an interval in every multiple of it,
\* and in no other (time_event.h:149-169).
THEOREM FiringSafe == Spec => []FiresOnSchedule
  BY TimerInductive, InvFires, PTL

\* Lateness does not add up over the passes (time_event.h:146, 170-173).
THEOREM TicksSafe == Spec => []TicksOnTime
  BY TimerInductive, InvTicks, PTL
=============================================================================
