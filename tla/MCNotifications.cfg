CONSTANTS
    order1 = order1
    order2 = order2
    alice = alice
    bob = bob
    mail = mail
    phone = phone
    thread1 = thread1
    thread2 = thread2
    created1 = created1
    wrong1 = wrong1
    completed1 = completed1
    cancelled1 = cancelled1
    created2 = created2
    cancelled2 = cancelled2
    None = None
    Orders = {order1, order2}
    Customers = {alice, bob}
    Addresses = {mail, phone}
    Messages <- MCMessages
    Msg <- MCMsg
    Contacts <- MCContacts
    Threads = {thread1, thread2}
SYMMETRY ThreadsAlike
SPECIFICATION Spec
INVARIANTS
    SentOnce
    OneStory
    SettledForGood
CHECK_DEADLOCK FALSE
