SPECIFICATION CustodySpec
CONSTANTS
    Alice = Alice
    House = House
    Gold = Gold
    Game = Game
    Wallets = {Alice, Bob}
    Pdas = {House}
    SessionKeys = {}
    ZeroKey = ZeroKey
    Programs = {Game, Market}
    ProgramOf <- MCProgramOf
    Ring = 1
    NoStore = NoStore
    TimeBound = 0
    Mints = {Sol, Gold}
    Sol = Sol
    MaxU64 = 1
    Basenet = Basenet
    Validators = {Rollup}
    VaultId = VaultId
    Floor = 0
    FeeMints = {Gold}
    DefaultSlots = 2
    MaxGrowth = 2
    MaxSlotIncrease = 1
    MaxMembers = 4
    NoPermission = NoPermission
    Sponsors = {Alice, Bob}
    InitialPurse <- GoldPurse
    MinFrees = {0, 1}
    CapacityBound = 2
    MaxSigners = 2
VIEW View
CHECK_DEADLOCK FALSE
INVARIANT SolventWithFees
