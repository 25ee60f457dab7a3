CONSTANTS
    Calls = {c1}
    Pairs <- MCNew
    Services <- MCPrefixServices
    Urls <- MCPrefixUrls
    Bodies <- MCBodies
    Unparsable <- MCUnparsable
    Failures <- MCFailures
SPECIFICATION Spec
INVARIANT ReachesMethod
