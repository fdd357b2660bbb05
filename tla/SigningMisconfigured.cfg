SPECIFICATION Spec
CONSTANTS
  k1 = k1
  k2 = k2
  agent1 = agent1
  sigA = sigA
  sigZero = sigZero
  g1 = g1
  m1 = m1
  None = None
  Keys = {k1, k2}
  AgentIds = {agent1}
  Limits = {0}
  SigBytes = {sigA, sigZero}
  ZeroSig = sigZero
  ChainIds = {"morpheum-test-1"}
  DefaultChainId = "morpheum-test-1"
  GenesisHashes = {g1}
  AccountNumbers = {0, 7}
  Messages = {m1}
  BodyFields = {"plain"}
  DefaultBodyFields = "plain"
  AuthFields = {"plain"}
  DefaultAuthFields = "plain"
  Calls = {1}
  Signers <- OneCallSigners
  ManualNonces <- OneCallNonces
  Claims <- OneCallClaims
  Subs = {0, 1, 2}
  Accounts <- OneCallAccounts
  KeyAddresses = {agent1}
  TsModulus = 2
  U64Max = 2
  MaxTime = 3
  MaxMessages = 1
INVARIANTS
  MisconfiguredClaimCostsNoNonce
