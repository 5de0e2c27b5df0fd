\* A boleto and a card, one webhook at a time.
SPECIFICATION Spec
CONSTANTS
    Charges = {b, k}
    Boletos = {b}
    Cards = {k}
    GatewayFirst = {k}
    NoCharge = NoCharge
    Handlers = {h1}
    MayFail = {"insert", "gateway", "activate", "markCard", "confirm", "mark", "lookup", "enqueue", "mail", "done"}
    MaxCrashes = 1
PROPERTY ImplementsSettlement
