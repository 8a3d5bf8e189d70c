SPECIFICATION Spec
CONSTANTS
    Wallets = {Alice}
    Pdas = {House}
    SessionKeys = {K1, K2}
    ZeroKey = ZeroKey
    Programs = {Game, Market}
    House = House
    Game = Game
    ProgramOf <- MCProgramOf
    Ring = 2
    NoStore = NoStore
    TimeBound = 2
VIEW View
INVARIANTS
    TypeOK
    RingPacked
    OnlyRealKeysConsent
PROPERTIES
    ConsentNeedsOwner
    GrantIsPerProgram
    KeepsPromise
