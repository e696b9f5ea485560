\* Three hosts, one of them with two ports, heard of from three sources.  An
\* address may be in two of the three new buckets; a bucket holds one entry.
SPECIFICATION Spec
CONSTANTS
  ha = ha
  ha2 = ha2
  hb = hb
  hc = hc
  s1 = s1
  s2 = s2
  s3 = s3
  None = None
  Addr = {ha, ha2, hb, hc}
  Source = {s1, s2, s3}
  Host <- HostOf
  NewBucket = {0, 1, 2}
  TriedBucket = {0, 1}
  GetNewBucket <- NewBucketOf
  GetTriedBucket <- TriedBucketOf
  ADDRMAN_NEW_BUCKET_SIZE = 1
  ADDRMAN_TRIED_BUCKET_SIZE = 1
  ADDRMAN_NEW_BUCKETS_PER_ADDRESS = 2
  ADDRMAN_GETADDR_MAX = 2
  ADDRMAN_GETADDR_MAX_PCT = 70
INVARIANTS
  TypeOK
  RefCountsMatch
  CountersMatch
  IndexesMatch
  BucketsBounded
  ReadsWhatWasWritten
PROPERTIES
  ForgetsForOthers
