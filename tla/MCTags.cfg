\* Two tags kept by refreshing every second tick of five, and searches for up to two.
SPECIFICATION Spec
CONSTANTS
    gpu = gpu
    infer = infer
    self = self
    peer = peer
    Tag = {gpu, infer}
    OwnTags <- MCOwnTags
    Self = self
    Peer = {peer}
    Bare = {peer}
    Lifetime = 5
    Interval = 2
    MaxMisses = 3
    MaxTags = 2
    MaxListed = 3
INVARIANTS TypeOK SearchIsSound LapsesOnlyIfRefreshFailed
PROPERTY TagsComeBack
