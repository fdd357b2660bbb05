SPECIFICATION SessionSpec
CONSTANTS
  k1 = k1
  k2 = k2
  agent1 = agent1
  sigA = sigA
  sigZero = sigZero
  g1 = g1
  g2 = g2
  m1 = m1
  None = None
  Keys = {k1, k2}
  AgentIds = {agent1}
  Limits = {0}
  SigBytes = {sigA, sigZero}
  ZeroSig = sigZero
  ChainIds = {"home"}
  DefaultChainId = "home"
  GenesisHashes = {g1}
  AccountNumbers = {0}
  Messages = {m1}
  BodyFields = {"plain"}
  DefaultBodyFields = "plain"
  AuthFields = {"plain"}
  DefaultAuthFields = "plain"
  GenesisFork = 1
  NonceFork = 2
  Wallets <- MCWallets
  PageNonces <- MCNonces
  PageModes = {"Eip191Personal", "SolanaOffchain", "Ed25519"}
  Chains <- MCChains
INVARIANTS
  AdmittedIsOneAssembly
  AssembledBindsChain
  AssembledVerifies
  PreimageAgreesWithBuilder
PROPERTY
  UsesAdapterContract
