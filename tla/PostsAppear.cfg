CONSTANTS
  Users = {u1}
  MaxPosts = 2
SPECIFICATION BlogFairSpec
PROPERTIES PostsAppear
