CONSTANTS
  alice = alice
  bob = bob
  issued = issued
  toNobody = toNobody
  unissued = unissued
  H = 3
  Nobody = nobody
  Accounts = {alice, bob}
  Indices = {issued, toNobody, unissued}
  MAX_BLOCKS = 2
  Sizes = {2, 3}
  MaxCeremonies = 3
  MarginalFee = 1
  MaxMoney = 20
  ValueWord = 64
SPECIFICATION Spec
INVARIANTS
  ProductsScale
  NotesAreOneThing
  ReadersSeeAll
  MessagesArrive
  
  SweepsMoveAll
  MixedForCause
CHECK_DEADLOCK FALSE
