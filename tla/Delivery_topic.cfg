SPECIFICATION Spec
CONSTANTS
  Deliveries = {email}
  Emails = {email}
  Topical = {email}
  Contacts = {c1}
  ContactOf <- SoleContact
  Workers = {w1}
  NoMessage = NoMessage
  NoEvent = NoEvent
  MaxRetries = 0
  MaxSends = 1
  EventKinds = {}
  TopicChoices = {"subscribed", "unsubscribed"}
  Limit <- None
PROPERTIES
  TopicRespected
