\* A millisecond of 3 ticks and a second of 4 milliseconds: the queue may be
\* made at every offset inside a millisecond, and two seconds pass.
CONSTANTS
  TicksPerMilli = 3
  MillisPerSecond = 4
  Delays = {1, 5}
  MaxTicks = 30
SPECIFICATION Spec
INVARIANTS NeverEarly NeverLate
