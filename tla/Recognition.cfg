SPECIFICATION RecognitionFairSpec
CONSTANTS
  Ordinary = {o1, o2}
  Speculative = {s1}
  Slots = 2
  QueueCapacity = 3
  Closers = {c1, c2}
  RuntimeCapacity = 1
  Devices = {"auto"}
  Boot = Boot
  Nobody = Nobody
INVARIANTS PoolsSound ProcessSound
PROPERTY RecognitionEnds
