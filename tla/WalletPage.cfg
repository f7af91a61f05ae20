SPECIFICATION MCSpec
CONSTANTS
  w1 = w1
  w2 = w2
  lido = lido
  ankr = ankr
  weth = weth
  wbnb = wbnb
  None = None
  All = All
  Wallet = {w1, w2}
  Hidden = {w2}
  MaxUnlocks = 2
  Asset = {"eth", "usdc"}
  Coin = {"eth"}
  Amount = {"some"}
  Flagged = {"eth"}
  MaxCalls = 2
  Option = {lido, ankr}
  Enough <- MCEnough
  Listed = {ankr}
  MaxStakes = 2
  Entry = {weth, wbnb}
  Network = {"ethereum", "bnb"}
  NetworkOf <- MCNetworkOf
  Red = {weth}
  Banned = {wbnb}
INVARIANTS WalletIsProven PagesAreServed PaymentIsAgreed RevocationIsAgreed
CHECK_DEADLOCK FALSE
