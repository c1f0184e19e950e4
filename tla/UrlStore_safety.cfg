\* Two handlers, three batches, two shards; the store is
\* meant to hold one of three URLs.
CONSTANTS
    u1 = u1  u2 = u2  u3 = u3  x = x  y = y  z = z
    Urls = {u1, u2, u3}
    Anchors = {x, y, z}
    Cut <- OfX
    Handlers = {h1, h2}
    NumShards = 2
    Shard <- ShardOf
    Nsfw = {}
    PriorityBuckets = 2
    MaxStoreUrls = 1
    MaxAnchorsPerUrl = 1
    Batches <- ThreeBatches
    MaxCrashes = 1
SPECIFICATION FairSpec
INVARIANTS
    TypeOK
    
    IdsMeanTheirTexts
    DiskDictionaryIsPrefix
    HandedOverOnce
    StoreBounded
    MergesAreExact
PROPERTIES
    NewUrlReachesFrontier
