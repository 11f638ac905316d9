CONSTANTS
    Domains = {d1, d2}
    CAs = {ca1, ca2}
    None = None
SPECIFICATION FairSpec
INVARIANTS
    TypeOK
    SuccessMeansRenewable
    CustomerServed
PROPERTIES
    SuccessIsServed
