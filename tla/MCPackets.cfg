\* Five coins, two to a page, lists of at most two pages, and two changes of
\* the index while it is read; 64-bit limits scaled to 8 and 15. A boarding of
\* five sats for a fee of one, a Savings coin of eight with two sats of fee at most.
SPECIFICATION MCSpec
CONSTANTS
    Coins <- MCCoins
    Value <- MCValue
    Programs <- MCPrograms
    Amounts = {2, 4, 9, 12}
    Dust = 2
    FeeCap = 4
    MaxInt = 8
    MaxUint = 15
    MaxInputs = 3
    Budget = 10
    PageSize = 2
    MaxPages = 2
    MaxChanges = 2
    BoardValue = 5
    BoardFee = 1
    BoardFeeCap = 2
    BoardDust = 2
    BatchExpiry = 2
    SavingsValue = 8
    TransitionFeeCap = 2
    TransitionDust = 2
INVARIANTS
    
    PaysExactly
    AmpleFundsServed
    PaymentFollowsQuote
    Finalizable
    BoardingPays
    TransitionPays
CHECK_DEADLOCK FALSE
