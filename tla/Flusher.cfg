SPECIFICATION FlusherFairSpec
CONSTANTS
  Groups = {g1, g2}
  MaxSequence = 2
  Senders = {s1}
  MaxRuns = 2
  Flushers = {f1}
INVARIANTS AckedIsApplied ClosedTicketIsApplied OpenTicketIsPending
PROPERTIES TicketsClose
