SPECIFICATION Spec
CONSTANTS
  CounterMod = 4
  LED_BUCKETS = 3
  MaxPerTick = 1
INVARIANT ActivityShown
INVARIANT BlueTells
