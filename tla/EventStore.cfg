\* One Nitro and one Cloudflare append at a time, 3 in all.
CONSTANTS
  Docs = {d}
  Actors = {alice}
  NitroCalls = {nitro}
  RpcCalls = {rpc}
  Readers = {reader}
  BatchPool <- Pool
  RequestPool <- Requests
  Bootstrap = "boot"
  NoCall = NoCall
  PageSize = 1
  VerifyAttempts = 2
  MaxCalls = 3
  MaxRoleChanges = 1
SPECIFICATION FairSpec
INVARIANTS TypeOK CausalHistory UniqueHistory NoRowBehindCursor AcknowledgedIsDurable
PROPERTIES CommitIsAuthorized AppendReturns ImplementsEventLog
