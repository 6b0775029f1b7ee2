CONSTANTS
  p1 = p1
  p2 = p2
  Messages = {1, 2}
  Channels = {"slack", "command", "email", "zammad"}
  Kinds <- RequestFirst
  Customers <- TicketCustomers
  Pods = {p1, p2}
  NoPod = NoPod
  NoMessage = NoMessage
  NoCustomer = NoCustomer
  Publishers = {p1}
  MaxRetries = 1
  BatchSize = 2
  MaxDeliveries <- TwicePosted
  MaxFaults = 1
SPECIFICATION FairSpec
INVARIANTS
  AckedIsStored
  OvertakenOnlyAfterFault
  OneCustomerPerTicket
PROPERTIES
  MailIsTaken
  ImplementsOutbox
  StoredIsSettled
CHECK_DEADLOCK FALSE
