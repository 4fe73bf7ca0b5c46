SPECIFICATION FairSpec
CONSTANTS
  r1 = r1
  r2 = r2
  m1 = m1
  Requests <- MCRequests
  Messages <- MCMessages
  Mode = "compatible"
  Handlers = {h1, h2}
  Window = 3
  Ttl = 2
  MaxSkew = 1
  NoMsg = NoMsg
  Never = Never
PROPERTIES
  RepeatsFarApart
  OneCallPerTtl
  NoExpiredReply
  EntriesExpire
