CONSTANTS
    Peers <- MCPeers
    Names <- MCNames
    NodeOf <- MCNodeOf
    Long <- MCLong
    Contact = "contact"
    Configured = {}
    MaxHalts = 2
    MaxFailures = 1
    MaxMigrations = 1
SPECIFICATION FairSpec
INVARIANTS PeersBelieveRightly ApprovedIsGranted
PROPERTY EventuallyServed
