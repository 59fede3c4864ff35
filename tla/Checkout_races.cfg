SPECIFICATION Spec
CONSTANTS
  Orders = {o1, o2}
  NoOrder = NoOrder
  Offers = {public, private}
  PublicOffers = {public}
  NoOffer = NoOffer
  Codes = {c1, c2}
  c1 = c1
  c2 = c2
  public = public
  private = private
  NoCode = NoCode
  MaxActivations <- OnceOrUnlimited
  Unlimited = Unlimited
  Linked <- PrivateOrPublic
  Open = Open
  Workers = {w1, w2}
  MaxUpdates = 1
  MaxEdits = 1
  MaxStops = 1
  MaxEvents = 2
SYMMETRY Symmetry
INVARIANTS
  TypeOK
  RedeemedOnce
  OfferIsEntitled
PROPERTIES
  RedemptionSpec
CHECK_DEADLOCK FALSE
