SPECIFICATION MCSpec
CONSTANTS
    Alice = Alice
    Bob = Bob
    House = House
    Till = Till
    Shop = Shop
    Gold = Gold
    Game = Game
    Market = Market
    Wallets = {Alice, Bob}
    Pdas = {House, Till, Shop}
    SessionKeys = {}
    ZeroKey = ZeroKey
    Programs = {Game, Market}
    ProgramOf <- MCProgramOf
    Ring = 1
    NoStore = NoStore
    TimeBound = 1
    Mints = {Sol, Gold}
    Sol = Sol
    MaxU64 = 1
    Basenet = Basenet
    Validators = {Er}
    VaultId = VaultId
    Floor = 0
    FeeMints = {}
    DefaultSlots = 2
    MaxGrowth = 2
    MaxSlotIncrease = 1
    MaxMembers = 4
    NoPermission = NoPermission
    Sponsors = {Alice, Bob}
    InitialPurse <- NoPurse
    MinFrees = {0}
    CapacityBound = 2
    MaxSigners = 2
    Er = Er
    NoReceipt = NoReceipt
    Terms <- AllTerms
    Consenters = {Alice, Bob}
    Float = 7
    FiresAtOnce = TRUE
    SlotBound = 2
    Scenes = {"trade", "odd", "rent"}
VIEW MCView
CHECK_DEADLOCK FALSE
INVARIANTS
    ReceiptTypeOK
    RentStaysInProgram
PROPERTIES
    KeepsIntents
    DebitNeedsReceipt
    SlotNeedsConsent
    OneWalletPerStep
