\* Two processes, three bundles over two revisions.
SPECIFICATION Spec
CONSTANTS
    server = server
    rehearsal = rehearsal
    old = old
    first = first
    second = second
    r1 = r1
    r2 = r2
    None = None
    Controller = {server, rehearsal}
    Operator = {server, rehearsal}
    Query = {q1}
    Manifest = {old, first, second}
    Revision = {r1, r2}
    RevisionOf <- MCRevisionOf
    Proposal <- MCProposal
    Installation = {i1}
INVARIANT ActiveWasVerified
PROPERTIES ReadsAreFenced PointerIsLawful
