SPECIFICATION CaseSpec
CONSTANTS
  k1 = k1
  k2 = k2
  agent1 = agent1
  sigA = sigA
  sigZero = sigZero
  g1 = g1
  m1 = m1
  None = None
  Keys = {k1, k2}
  AgentIds = {agent1}
  Limits = {0}
  SigBytes = {sigA, sigZero}
  ZeroSig = sigZero
  ChainIds = {"home"}
  DefaultChainId = "home"
  GenesisHashes = {g1}
  AccountNumbers = {0}
  Messages = {m1}
  BodyFields = {"plain"}
  DefaultBodyFields = "plain"
  AuthFields = {"plain"}
  DefaultAuthFields = "plain"
  GenesisFork = 1
  NonceFork = 2
  SignerCases <- MCSignerCases
  TxNonces <- MCTxNonces
  Contexts <- MCContexts
  Clocks = {0, 1}
  MaxSigners = 2
CHECK_DEADLOCK FALSE
INVARIANTS
  EverySignerBound
  SchemeIsAnnounced
  EveryClaimHolds
  ReportMatchesSigners
  RebuiltBytesAgree
