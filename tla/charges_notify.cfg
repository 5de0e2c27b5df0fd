\* The process may die once while it serves a boleto webhook.
SPECIFICATION Spec
CONSTANTS
    Charges = {b}
    Boletos = {b}
    Cards = {}
    GatewayFirst = {}
    NoCharge = NoCharge
    Handlers = {h1}
    MayFail = {}
    MaxCrashes = 1
INVARIANT PaymentIsNotified
