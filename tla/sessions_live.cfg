\* Liveness: one session, two web workers and the nightly pull.
SPECIFICATION FairSpec
CONSTANTS
  None = None
  ca = ca
  cb = cb
  q1 = q1
  q2 = q2
  Sessions = {1}
  CabSessions = {ca}
  Customers = {7}
  Outlets = {q1, q2}
  Handlers = {h1, h2}
  Pull = Pull
  Routes = {"range"}
  ErpInfo <- OneErpInfo
  CabInfo <- OneCabInfo
  Measure <- OneMeasure
  StartedFor <- OneStartedFor
  MaxRegister <- OneMaxRegister
PROPERTY
  Converges
