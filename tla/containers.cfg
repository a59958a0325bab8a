\* Each container on its own: a ring of up to three slots, a vector of up to
\* five elements, a table of six keys, two topics, three threads of a region,
\* one object on its way through messages.
SPECIFICATION MCSpec
CONSTANTS
    RingElements = {1, 2, 3}
    NoElement = NoElement
    MaxSize = 3
    Elements = {1, 2, 3}
    MinSlots = 2
    MaxLen = 5
    Keys = {0, 1, 2, 3, 4, 5}
    HashFunctions <- MCHashFunctions
    InitBuckets = 2
    Thresh = 2
    NULL = NULL
    Topics = {"mytopic", "eventtopic"}
    MaxPipe = 4
    WordBits = 2
    Words = 2
    Threads = {t1, t2, t3}
    Places <- MCPlaces
    Me = "me"
    Other = "other"
    Topic = "eventtopic"
    NsPerSec = 3
    Crafted <- MCCrafted
INVARIANTS
    MedianSplits
    ChainsBounded
    DestroyFreesAll
    TopicsOutlivePipe
    SharedIsUnion
    ObjectSurvivesMessage
PROPERTIES
    RingKeepsLast
    VectorIsSequence
    HashIsDictionary
CHECK_DEADLOCK FALSE
