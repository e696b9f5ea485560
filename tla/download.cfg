\* Two connections that come and go, two blocks, one too many for a peer;
\* one of the peers is local and not banned for it.
SPECIFICATION FairSpec
CONSTANTS
  NodeId = {n1, n2}
  Local = {n2}
  Block = {b1, b2}
  None = None
  MAX_BLOCKS_IN_TRANSIT_PER_PEER = 2
  MaxToDownload = 1
  BanScore = 1
INVARIANTS
  TypeOK
  DownloadMapsAgree
  OneRequest
PROPERTIES
  DownloadsEnd
