CONSTANTS
    ann = ann
    b1 = b1
    b2 = b2
    k1 = k1
    k2 = k2
    monthly = monthly
    annual = annual
    o1 = o1
    o2 = o2
    e1 = e1
    e2 = e2
    d1 = d1
    d2 = d2
    Owners <- MCOwners
    Owner <- MCOwner
    Amount <- MCAmount
    Term <- MCTerm
    Amounts <- MCAmounts
    Clients = {b1, b2}
    Keys = {k1, k2}
    Offers = {monthly, annual}
    OrderIds = {o1, o2}
    Events = {e1, e2}
    Deliveries = {d1, d2}
    MaxNow = 2
    NoKey = NoKey
    NoClient = NoClient
    NobodysOrder = NobodysOrder
SPECIFICATION EitherSpec
SYMMETRY Symmetry
INVARIANTS PaidBeforeActive OneOrderPerChoice EachOrderExtendsOnce
PROPERTIES ActivationsAreFinal
