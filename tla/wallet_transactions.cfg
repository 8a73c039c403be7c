SPECIFICATION Spec
CONSTANTS
  Txs = {t1, t2, t3}
  Sessions = {s1, s2}
  Payments = {p1}
  ExtKeys = {k1}
  LabWallet = LabWallet
  CreditWallet = CreditWallet
  Nobody = Nobody
  Tokens = 1
  ExtCost = 1
  InitialTokens = 1
  InitialCredits = 1
  MaxMinutes = 2
  MaxCrashes = 1
SYMMETRY Symmetry
INVARIANTS
  TypeOK
  NeverOverdrawn
  PaidForOnce
  ToldIsPaid
  ExtendedIsPaid
  NoCreditLost
PROPERTIES
  KeepsPromise
