SPECIFICATION DBSpec
CONSTANTS
    NetAddr = {"a1", "a2", "a3"}
    Service = {"s1", "s2", "s3"}
    addrOf <- MCAddrOf
    Source = {"x", "y"}
    NewBucket = {1, 2}
    TriedBucket = {1}
    GetNewBucket <- MCNewBucket
    GetTriedBucket <- MCTriedBucket
    NEW_BUCKET_SIZE = 1
    TRIED_BUCKET_SIZE = 1
    NEW_BUCKETS_PER_ADDRESS = 2
    TRIED_ENTRIES_INSPECT_ON_EVICT = 2
    GETADDR_MAX_PCT = 67
    GETADDR_MAX = 2
    Time = {1}
    MaxId = 3
    NoId = NoId
    None = None
INVARIANT Check
INVARIANT BucketsBounded
PROPERTY ImplementsSavedTable
