SPECIFICATION FairSpec
CONSTANTS
  Deliveries = {email}
  Emails = {email}
  Topical = {}
  Contacts = {c1}
  ContactOf <- SoleContact
  Workers = {w1, w2}
  NoMessage = NoMessage
  NoEvent = NoEvent
  MaxRetries = 1
  MaxSends = 3
  EventKinds = {}
  TopicChoices = {"subscribed"}
  Limit <- Repeated
INVARIANTS
  NoSendRepeated
  OneHolder
PROPERTIES
  SettledStays
  EventuallySettles
