SPECIFICATION ClaimSpec
CONSTANTS
  k1 = k1
  agent1 = agent1
  agent2 = agent2
  sigZero = sigZero
  g1 = g1
  m1 = m1
  None = None
  Keys = {k1}
  AgentIds = {agent1, agent2}
  Limits = {0, 5}
  SigBytes = {sigZero}
  ZeroSig = sigZero
  ChainIds = {"home"}
  DefaultChainId = "home"
  GenesisHashes = {g1}
  AccountNumbers = {0}
  Messages = {m1}
  BodyFields = {"plain"}
  DefaultBodyFields = "plain"
  AuthFields = {"plain"}
  DefaultAuthFields = "plain"
  Parties = {agent1}
  Ranges <- MCRanges
  Expiries = {1, 3}
  Curves = {"Secp256k1"}
  MaxSafe = 3
  MaxClock = 1
INVARIANTS
  DigestCoversTerms
  FormsKeepTerms
  BuiltClaimOnlyExpires
