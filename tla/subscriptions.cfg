CONSTANTS
  n1 = n1  n2 = n2  n3 = n3  n4 = n4  s1 = s1  s2 = s2  s3 = s3  st = st  u = u
  a = a  b = b  NoName = NoName
  Updater = Updater
  Names <- MCNames
  Signatures <- MCSignatures
  Providers <- MCProviders
  NameOf <- MCNameOf
  Strategy <- MCStrategy
  Preserve <- MCPreserve
  Merged <- MCMerged
  Lists <- MCLists
  UserSignatures = {u}
  Requests = {r1}
  MaxEvents = 1
SPECIFICATION FairSpec
INVARIANTS TypeOK NoTwins
PROPERTY ListsArrive
