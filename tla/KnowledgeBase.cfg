\* Documents and directories edited while they are loaded.
SPECIFICATION Spec
CONSTANTS
    hours = hours
    prices = prices
    offer = offer
    logo = logo
    shop = shop
    deals = deals
    Base = Base
    Directories = {shop, deals}
    Files = {hours, prices, offer, logo}
    Supported = {hours, prices, offer}
    Parent <- Parents
    Texts = {old, new}
CHECK_DEADLOCK FALSE
INVARIANT UntouchedIsUsed
