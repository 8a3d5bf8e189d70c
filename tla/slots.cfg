SPECIFICATION SlotsSpec
CONSTANTS
    Alice = Alice
    House = House
    Gold = Gold
    Game = Game
    Wallets = {Alice}
    Pdas = {House}
    SessionKeys = {}
    ZeroKey = ZeroKey
    Programs = {Game, Market}
    ProgramOf <- MCProgramOf
    Ring = 1
    NoStore = NoStore
    TimeBound = 0
    Mints = {Sol, Gold, Silver}
    Sol = Sol
    MaxU64 = 2
    Basenet = Basenet
    Validators = {Rollup}
    VaultId = VaultId
    Floor = 1
    FeeMints = {}
    DefaultSlots = 2
    MaxGrowth = 2
    MaxSlotIncrease = 1
    MaxMembers = 4
    NoPermission = NoPermission
    Sponsors = {Alice}
    InitialPurse <- MixedPurse
    MinFrees = {0, 1}
    CapacityBound = 3
    MaxSigners = 2
    Checked = {Silver}
    Silver = Silver
    ListBound = 5
VIEW View
CHECK_DEADLOCK FALSE
INVARIANTS
    SlotDiscipline
    Solvent
    SweepPaysExactly
