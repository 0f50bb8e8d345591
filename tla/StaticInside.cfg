SPECIFICATION ModsSpec
CONSTANTS
    t1 = t1
    t2 = t2
    alice = alice
    bob = bob
    carol = carol
    Clerk = {t1, t2}
    Account = {alice, bob}
    Abroad = {carol}
    Anonymous = anonymous
    AnonymousPeer = peer
    MaxCards = 2
    MaxProps = 2
    Worker = {t1, t2}
    AssetIds = {16}
    Texts <- MCTexts
    Made = {1}
    Instance_ = {"here", "there"}
    Poster = {t1, t2}
    MailUser = {alice, bob}
    MaxMails = 2
    Visitor = {t1}
    Place <- MCPlace
    LinkTo <- MCLinkTo
    StaticRoot <- MCRoot
    Urls <- MCUrls
    MaxPath = 6
    NoExtension = {"LICENSE"}
    MaxChanges = 2
INVARIANTS
    StaysInside
CHECK_DEADLOCK FALSE
