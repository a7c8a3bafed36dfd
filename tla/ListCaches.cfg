SPECIFICATION FairSpec
CONSTANTS
    Pod = {api, worker}
    ApiPod = {api}
    Reader = {r1, r2}
    Writer = {w1, w2}
    List = {"stats", "all"}
    None = None
INVARIANTS
    TypeOK
    WritesShowUnlessRaced
PROPERTY
    ListsBecomeFresh
