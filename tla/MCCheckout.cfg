CONSTANTS
  cash = cash  line = line  NoWallet = NoWallet
  Wallets <- MCWallets  Short <- MCShort  Views <- BothViews
SPECIFICATION FairSpec
INVARIANTS TypeOK OneRequestAtATime SuccessIsTrue
PROPERTY ButtonsComeBack
CHECK_DEADLOCK FALSE
