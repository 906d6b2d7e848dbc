\* An object and its class; shapes are collected and minted again.
SPECIFICATION Spec
CONSTANTS
  a = a
  b = b
  Tables = {a, b}
  Keys <- TheKeys
  Metamethods <- TheMetamethods
  Classes = {b}
  Plain = {"f"}
  Stores <- TheStores
  SiteKey <- TheSites
  MaxShapes = 5
  MaxProps = 2
  MaxTagLoop = 2
INVARIANTS
  LayoutAgrees
  BitsAreLive
  CachesAreFresh
  AccessesAgree
PROPERTIES
  TablesBehave
