\* A PIX charge, two webhook requests at a time, every call may fail but the
\* lookup of the public token.
SPECIFICATION FairSpec
CONSTANTS
    Charges = {p}
    Boletos = {}
    Cards = {}
    GatewayFirst = {}
    NoCharge = NoCharge
    Handlers = {h1, h2}
    MayFail = {"insert", "gateway", "abandon", "activate", "confirm", "mark", "enqueue", "mail", "done", "expire", "remove"}
    MaxCrashes = 2
INVARIANTS
    PaidOnlyIfConfirmed
    DoneEventIsBooked
    ReservationOutlivesRequest
    NoChargeWithoutRow
    PixPaymentIsNotified
PROPERTIES
    ClosedForGood
    PixPaymentIsBooked
    StaleReservationIsClosed
