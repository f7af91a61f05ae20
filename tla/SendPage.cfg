SPECIFICATION FairSendSpec

CONSTANTS
    j1 = j1
    j2 = j2
    Nil = Nil
    Token = {"usdt", "bnb"}
    Chain = {"ethereum", "bnb"}
    ChainOf <- MCChainOf
    Erc20 = {"usdt"}
    Recipient = {"listed"}
    SendAmount = {1}
    Seed = {}
    Feed = {"listed"}
    Job = {j1, j2}

INVARIANTS OneRequestAtATime FindingIsCurrent

PROPERTIES DangerIsConsented SpinnerStops
