SPECIFICATION Spec
SYMMETRY Symmetry
CONSTANTS
  Deliveries = {email}
  Emails = {email}
  Topical = {}
  Contacts = {c1}
  ContactOf <- SoleContact
  Workers = {w1, w2}
  NoMessage = NoMessage
  NoEvent = NoEvent
  MaxRetries = 1
  MaxSends = 2
  EventKinds = {"delivered", "deferred", "bounced", "suppressed", "complained"}
  TopicChoices = {"subscribed"}
  Limit <- Mixed
INVARIANTS
  TypeOK
  AcceptedHasId
  SuppressionStopsSend
