\* A URL record written after the anchors it refers to were added, then a kill.
CONSTANTS
    u1 = u1  u2 = u2  u3 = u3  x = x  y = y  z = z
    Urls = {u1, u2, u3}
    Anchors = {x, y, z}
    Cut <- OfX
    Handlers = {h1}
    NumShards = 2
    Shard <- ShardOf
    Nsfw = {}
    PriorityBuckets = 2
    MaxStoreUrls = 1
    MaxAnchorsPerUrl = 1
    Batches <- ThreeBatches
    MaxCrashes = 1
SPECIFICATION Spec
INVARIANTS
    IdsResolve
