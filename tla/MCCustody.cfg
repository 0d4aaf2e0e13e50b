SPECIFICATION CustodySpec
CONSTANTS
  d1 = d1
  u1 = u1
  u2 = u2
  r1 = r1
  r2 = r2
  NoRecord = NoRecord
  Module = Module
  EcoPool = EcoPool
  Distributors = {d1}
  Diligent = {r2}
  Recipients = {u1, u2}
  Blocked = {u2}
  Runners = {r1, r2}
  Types <- MCTypes
  Rank <- MCRank
  Funds = 2
  MaxDrop = 1
  MaxCount = 1
  MaxHeight = 2
  MaxMint = 3
  MintPerBlock = 2
  MaxRestarts = 1
  Channels = {1, 2}
  Senders = {u1}
  OwnDenoms = {"fury", "xfury"}
  Voucher <- MCVoucher
  PermissionSets <- MCPermissions
  UnitDenom <- MCUnitDenom
  Decimals <- MCDecimals
  NoEntry = NoEntry
  Registries <- MCRegistries
  Wallet <- MCWallet
  Escrow <- MCEscrow
  Abroad <- MCAbroad
  MaxPackets = 3
INVARIANTS RecordsBacked MintWithinMax EscrowCovers VouchersBacked
PROPERTIES DropsSettle
