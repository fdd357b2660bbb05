SPECIFICATION EdgesSpec
CHECK_DEADLOCK FALSE
CONSTANTS
  k1 = k1
  k2 = k2
  agent1 = agent1
  sigA = sigA
  sigZero = sigZero
  g1 = g1
  m1 = m1
  p1 = p1
  typo = typo
  Malformed = Malformed
  None = None
  Keys = {k1, k2}
  AgentIds = {agent1}
  Limits = {0}
  SigBytes = {sigA, sigZero}
  ZeroSig = sigZero
  ChainIds = {"morpheum-test-1"}
  DefaultChainId = "morpheum-test-1"
  GenesisHashes = {g1}
  AccountNumbers = {0}
  Messages = {m1}
  BodyFields = {"plain"}
  DefaultBodyFields = "plain"
  AuthFields = {1, 2}
  DefaultAuthFields = 2
  U64Modulus = 8
  GasBudget = 2
  PageGas <- MCWrapping
  PageClaims <- MCClaims
  PageWallets = {"Solana"}
  PageKeys = {k1}
  MaxObjects = 5
  Phrases = {p1, typo}
  BadPhrases = {typo}
  Indices <- MCIndices
  Order = 2
  Width = 3
  Hard <- MCHard
  MaxMade = 2
  Wallets = {"MetaMask", "Phantom", "Taproot"}
  Digests = {"digest"}
  MaxSigned = 2
INVARIANTS
  OverBudgetRefused
