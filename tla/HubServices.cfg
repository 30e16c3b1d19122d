SPECIFICATION FairServices
CONSTANTS
  c1 = c1
  c2 = c2
  c3 = c3
  c4 = c4
  c5 = c5
  i1 = i1
  i2 = i2
  i3 = i3
  m = m
  other = other
  wa = wa
  oc = oc
  p1 = p1
  p2 = p2
  h1 = h1
  h2 = h2
  h3 = h3
  v1 = v1
  q1 = q1
  NoCall = NoCall
  Calls <- MCCalls
  Ids = {i1, i2, i3}
  IdOf <- MCIdOf
  Models = {m}
  ModelOf <- MCModelOf
  Limit <- MCLimit
  Streamed = {c1, c4}
  Channels = {wa, oc}
  Provider <- MCProvider
  Posts = {p1, p2}
  PostTo <- MCPostTo
  MaxConns = 3
  Handoffs = {h1, h2}
  Viewers = {v1}
  CONTROL_QUEUE_LIMIT = 2
  MaxControls = 4
  Streams = {1, 2}
  Chats = {q1}
  MaxLives = 2
INVARIANTS
  WithinCapacity
  OneLinePerStart
  HandsOverOnce
  NoGap
PROPERTIES
  UnlinkedStops
  NothingHangs
CHECK_DEADLOCK FALSE
