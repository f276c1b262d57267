SPECIFICATION Spec
CONSTANTS
    discovery = discovery
    first = first
    n1 = n1
    Others = {n1}
    Children = {discovery, first, n1}
INVARIANT RetrievalFailuresThrow
