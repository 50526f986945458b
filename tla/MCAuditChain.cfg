CONSTANTS
    Workers = {w1, w2, w3}
    w1 = w1
    w2 = w2
    w3 = w3
    NoWorker = NoWorker
    Payloads = {p1, p2}
    p1 = p1
    p2 = p2
    Genesis <- MCGenesis
    Digests <- MCDigests
    Digest <- MCDigest
    MaxRows = 3
SPECIFICATION FairSpec
INVARIANTS TypeOK ChainValid
PROPERTIES GrowsAtTheEnd EveryAppendEnds
