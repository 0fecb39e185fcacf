SPECIFICATION FairSpec
CONSTANTS
  Conns = {own, other, another}
  Own = own
  Statuses = {201, 409}
  Lost = Lost
  Failed = Failed
  Nil = Nil
PROPERTIES
  LosesReply
  HandlersEnd
