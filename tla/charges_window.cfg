\* A redelivery may come less than a minute after the claim it retries.
SPECIFICATION FairSpec
CONSTANTS
    Charges = {p}
    Boletos = {}
    Cards = {}
    GatewayFirst = {}
    NoCharge = NoCharge
    Handlers = {h1}
    MayFail = {"confirm"}
    MaxCrashes = 0
PROPERTY FailedEventIsRetried
