SPECIFICATION ReapSpec
CONSTANTS
    Alice = Alice
    Bob = Bob
    House = House
    Till = Till
    Shop = Shop
    Gold = Gold
    Game = Game
    Market = Market
    Wallets = {Alice}
    Pdas = {House, Till}
    SessionKeys = {Bob}
    ZeroKey = ZeroKey
    Programs = {Game}
    ProgramOf <- MCProgramOf
    Ring = 1
    NoStore = NoStore
    TimeBound = 0
    Mints = {Sol, Gold}
    Sol = Sol
    MaxU64 = 1
    Basenet = Basenet
    Validators = {Er}
    VaultId = VaultId
    Floor = 0
    FeeMints = {}
    DefaultSlots = 2
    MaxGrowth = 2
    MaxSlotIncrease = 1
    MaxMembers = 4
    NoPermission = NoPermission
    Sponsors = {Alice}
    InitialPurse <- NoPurse
    MinFrees = {0}
    CapacityBound = 2
    MaxSigners = 2
    Er = Er
    NoReceipt = NoReceipt
    Terms <- LifeTerms
    Consenters = {Alice, Bob}
    Float = 14
    FiresAtOnce = FALSE
    SlotBound = 3
    Scenes = {"reap"}
CHECK_DEADLOCK FALSE
PROPERTIES
    NothingLeftBehind
