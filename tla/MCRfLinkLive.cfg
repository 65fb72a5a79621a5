CONSTANTS
    Wireless = {rf24, bt1}
    LINK_USB = usb
    LINK_RF_24 = rf24
    LINK_BT_1 = bt1
    NoLink = NoLink
    DIAL_DEBOUNCE = 0
    RF_LONG_PRESS_DELAY = 1
    SYNC_LOST = 2
    ERROR_CNT = 1
    LnkUsbBound = TRUE
SPECIFICATION LiveSpec
PROPERTIES DialHasItsWay DriverFollows ModuleFollows ModuleRecovers
