CONSTANTS
  Threads = {t1}
  MaxCount = 3
  Initial = 1
  MaxPosts = 3
SPECIFICATION FairSpec
PROPERTY
  PostAddsUnit
