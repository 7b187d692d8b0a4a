\* Balances and lists change under the form; the list does not under the dialog.
CONSTANTS
    Names = {n1, n2}
    Tokens = {t1}
    ACT = ACT
    Unlisted = Unlisted
    Addrs = {r1}
    NoAddr = NoAddr
    MaxAmount = 1
    MaxBalance = 2
    Fee = 1
    TokenFee = 2
    NoOrder = NoOrder
    Background <- ListOutsideDialog
SPECIFICATION Spec
INVARIANTS TypeOK NeverOffersUnlisted OneRequest OffersCovered
PROPERTIES ImplementsOrder WaitingEnds
