CONSTANTS
    Calls = {c1}
    Pairs <- MCMixed
    Services <- MCServices
    Urls <- MCUrls
    Bodies <- MCBodies
    Unparsable <- MCUnparsable
    Failures <- MCFailures
SPECIFICATION Spec
INVARIANT ResultFaithful
