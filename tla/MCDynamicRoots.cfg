\* Two root sets, two boxes and two handles.
SPECIFICATION FairSpec
CONSTANTS
  Sets = {s1, s2}
  Handles = {h1, h2}
  Values = {v1, v2}
  Immediates = {nil}
INVARIANTS
  HandlesHold
  CountsHandles
  FreeListSound
  FetchedIsAlive
PROPERTIES
  ReleasedIsFreed
