\* One application process after the other, any of which may crash.
SPECIFICATION FairSpec
CONSTANTS
  Topics = {t1, t2}
  MaxEvents = 2
  MaxLog = 2
  NoMessage = NoMessage
INVARIANTS TypeOK StopDelivers
PROPERTIES DispatchedInOrder CommittedWasHandled StopReturns MessagesAreHandled
