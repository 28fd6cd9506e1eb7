SPECIFICATION FairSpec
CONSTANTS
    Key = {"web", "job"}
    Kind <- MCKind
    Owner <- MCOwner
    Subnet = {"s1", "s2"}
    Addr = {1, 2}
    MAC = {"m"}
    Usable <- AddrsOf
    TemplatesOf <- MCTemplates
    Selected = {"web"}
    WebhookIgnored = {"job"}
    Replacing = {}
    Unlabelled = {"job"}
    MaxEvents = 4

    
PROPERTIES
    NoLostReservation
    
    DeletionReleases
    StaysExclusive
CHECK_DEADLOCK FALSE
