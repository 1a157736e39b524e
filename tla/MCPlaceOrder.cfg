CONSTANTS
    asked = asked
    respaced = respaced
    changed = changed
    huge = huge
    key1 = key1
    bytes1 = bytes1
    bytes2 = bytes2
    bytes3 = bytes3
    bytes4 = bytes4
    cart1 = cart1
    cart2 = cart2
    cart3 = cart3
    None = None
    Messages <- MCRequests
    Keys = {key1}
    Key <- MCKey
    Bodies = {bytes1, bytes2, bytes3, bytes4}
    Body <- MCBody
    Fingerprints = {cart1, cart2, cart3}
    Fingerprint <- MCFingerprint
    Overflowing = {huge}
SPECIFICATION PlaceOrderSpec
INVARIANTS
    OneEventPerOrder
    AnswersTruthful
    ConflictOnlyAfterUnconfirmed
CHECK_DEADLOCK FALSE
