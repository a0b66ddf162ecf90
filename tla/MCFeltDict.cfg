\* Two small keys and a big one; maps of capacity 1, 2 and 3 instead of 3, 7, 14, ..., so
\* that three keys make the buffer move up to three times.  Four accesses per dictionary.
CONSTANTS
  Keys = {0, 1, 2}
  Values = {0, 7}
  Zero = 0
  Undef = undef
  SmallMax = 1
  Capacities = {1, 2, 3}
  HostKeys = {{}, {1, 2}}
  MaxCount = 4
  MaxBuffers = 3
SPECIFICATION Spec
INVARIANTS TypeOK Placed RefundEarned
PROPERTY MapSemantics
