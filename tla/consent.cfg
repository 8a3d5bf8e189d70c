SPECIFICATION ConsentSpec
CONSTANTS
    Alice = Alice
    House = House
    Gold = Gold
    Game = Game
    Wallets = {Alice}
    Pdas = {House, Shop}
    SessionKeys = {K1}
    ZeroKey = ZeroKey
    Programs = {Game, Market}
    ProgramOf <- MCProgramOf
    Ring = 1
    NoStore = NoStore
    TimeBound = 1
    Mints = {Sol, Gold}
    Sol = Sol
    MaxU64 = 2
    Basenet = Basenet
    Validators = {Rollup}
    VaultId = VaultId
    Floor = 0
    FeeMints = {}
    DefaultSlots = 2
    MaxGrowth = 2
    MaxSlotIncrease = 1
    MaxMembers = 4
    NoPermission = NoPermission
    Sponsors = {Alice}
    InitialPurse <- GoldPurse
    MinFrees = {0}
    CapacityBound = 2
    MaxSigners = 2
VIEW View
CHECK_DEADLOCK FALSE
PROPERTIES
    ClaimNeedsConsent
