CONSTANTS
  Users = {u1, u2}
  MaxPosts = 3
SPECIFICATION BlogFairSpec
INVARIANTS CachedFromDatabase
PROPERTIES PostsAppearIfLost
