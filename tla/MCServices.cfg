\* One service component per behaviour (see MCServices.tla for the bounds).
CONSTANTS
    a = a  b = b  c = c  tx1 = tx1  tx2 = tx2  v1 = v1  v2 = v2  s1 = s1  md1 = md1
    d1 = d1  d2 = d2  v3 = v3  p1 = p1  p2 = p2
    ServiceModes = {"two_party", "multi_party", "settlement", "plasma", "sidechains", "staking", "consensus", "governance", "batch", "zk_rollup", "proofs", "reward", "access_token", "api_auth", "reserve"}
    TokenClock = 2
SPECIFICATION Spec
CHECK_DEADLOCK FALSE
INVARIANTS
    TypeOK
    ChannelBalanceMatchesHistory
    MultiPartyBalancesConserved
    SettlementNoValueCreated
    PlasmaTransactionsInOneBlock
    PlasmaBlocksSpaced
    PlasmaExitsFifo
    StakeAccounting
    HybridStakeAccounting
    RoundRobinFair
    SelectionWeightsPositive
    DepositsAccounted
    TalliesCountTimelyBallots
    RewardSupplyMatchesBalances
    GrantsAuthorized
    ReservesFromReturnedCalls
 
