\* A tick of two units, timeouts of one and two ticks, callbacks and waits that
\* may take longer than a tick.
CONSTANTS
    Tick = 2
    Durations = {2, 5}
    Jitter = 1
    CallTime = 3
    MaxEvents = 3
    MaxTime = 10
SPECIFICATION Spec
INVARIANTS TypeOK FiresOnSchedule TicksOnTime
\* The timer thread ends, or time reaches its bound.
CHECK_DEADLOCK FALSE
