-------------------------- MODULE MCRedditPosting --------------------------
(***************************************************************************)
(* Instances of RedditPosting: two posts of one subreddit, in one thread   *)
(* (MCOneThread) or in a thread each (MCOwnThreads).                       *)
(***************************************************************************)
EXTENDS RedditPosting, TLC

CONSTANTS i1, i2, t1, t2

MCOneThread    == i1 :> t1 @@ i2 :> t1
MCOwnThreads   == i1 :> t1 @@ i2 :> t2
MCOneCommunity == i1 :> "sub" @@ i2 :> "sub"

\* Tool calls are not told apart, nor are the two posts of one thread.
Symmetry      == Permutations(Items) \union Permutations(Gateways)
CallsSymmetry == Permutations(Gateways)
=============================================================================
