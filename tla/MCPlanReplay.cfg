CONSTANTS
    Prices <- EdgePrices
    Styles <- ShopStyles
    FixtureStyle <- English
    Variants <- AskedFor
    MaxControls = 3
    MaxWrong = 1
SPECIFICATION Spec
INVARIANTS
    
    QuietShopSucceeds
    
