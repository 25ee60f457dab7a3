CONSTANTS
    Calls = {c1}
    Pairs <- MCSupported
    Services <- MCServices
    Urls <- MCUrls
    Bodies <- MCBodies
    Unparsable <- MCUnparsable
    Failures <- MCFailures
SPECIFICATION FairSpec
INVARIANTS TypeOK NoAssertionFails ResultFaithful ReachesMethod
PROPERTY EventuallyDone
