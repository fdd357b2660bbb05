SPECIFICATION SystemSpec
CONSTANTS
  k1 = k1
  k2 = k2
  agent1 = agent1
  sigA = sigA
  sigZero = sigZero
  g1 = g1
  g2 = g2
  m1 = m1
  None = None
  Keys = {k1, k2}
  AgentIds = {agent1}
  Limits = {0}
  SigBytes = {sigA, sigZero}
  ZeroSig = sigZero
  ChainIds = {"home"}
  DefaultChainId = "home"
  GenesisHashes = {g1}
  AccountNumbers = {0}
  Messages = {m1}
  BodyFields = {"plain"}
  DefaultBodyFields = "plain"
  AuthFields = {"plain"}
  DefaultAuthFields = "plain"
  Calls = {1}
  Signers <- HumanSigners
  ManualNonces <- SystemNonces
  Claims <- NoClaims
  KeyAddresses = {}
  Subs = {1}
  Accounts <- AllAccounts
  TsModulus = 2
  U64Max = 1
  MaxTime = 1
  MaxMessages = 1
  GenesisFork = 1
  NonceFork = 2
  Chains <- HomeOnly
  RetryNonces <- SystemRetries
INVARIANTS
  RawBytesVerify
