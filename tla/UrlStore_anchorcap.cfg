\* A URL at its anchor cap is seen with a text that is known from another URL.
CONSTANTS
    u1 = u1  u2 = u2  u3 = u3  x = x  y = y  z = z
    Urls = {u1, u2, u3}
    Anchors = {x, y, z}
    Cut <- OfX
    Handlers = {h1}
    NumShards = 2
    Shard <- ShardOf
    Nsfw = {}
    PriorityBuckets = 2
    MaxStoreUrls = 3
    MaxAnchorsPerUrl = 1
    Batches <- AnchorBatches
    MaxCrashes = 0
SPECIFICATION Spec
INVARIANTS
    AnchorsCapped
