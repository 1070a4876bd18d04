CONSTANTS
    Prices <- EdgePrices
    Styles <- ShopStyles
    FixtureStyle <- English
    Variants <- AskedFor
    MaxControls = 2
    MaxWrong = 1
SPECIFICATION Spec
PROPERTIES
    IdentityKept
