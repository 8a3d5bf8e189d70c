SPECIFICATION RentSpec
CONSTANTS
    Alice = Alice
    House = House
    Gold = Gold
    Game = Game
    Wallets = {Alice}
    Pdas = {House}
    SessionKeys = {Bob}
    ZeroKey = ZeroKey
    Programs = {Game, Market}
    ProgramOf <- MCProgramOf
    Ring = 1
    NoStore = NoStore
    TimeBound = 0
    Mints = {Sol}
    Sol = Sol
    MaxU64 = 1
    Basenet = Basenet
    Validators = {Rollup}
    VaultId = VaultId
    Floor = 0
    FeeMints = {}
    DefaultSlots = 2
    MaxGrowth = 2
    MaxSlotIncrease = 1
    MaxMembers = 3
    NoPermission = NoPermission
    Sponsors = {Alice, Bob}
    InitialPurse <- EmptyPurse
    MinFrees = {0, 2}
    CapacityBound = 3
    MaxSigners = 2
    GiftBound = 1
VIEW RentView
CHECK_DEADLOCK FALSE
INVARIANTS
    RentExempt
    
    

    
