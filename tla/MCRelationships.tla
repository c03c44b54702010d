--------------------------- MODULE MCRelationships ---------------------------
(* Small instances of Relationships. *)
EXTENDS Relationships, TLC

CONSTANTS d1, d2, ann, bob, cat, dan

MCLower == [n \in Name |-> n]

\* ann on d1 and bob on d2.
MCAccount == (d1 :> ann) @@ (d2 :> bob)
MCAccountOne == d1 :> ann

\* cat's followers are dan and ann, whose own list does not name cat; bob follows
\* nobody. Of the posts only ann's are there.
MCShared == {<<cat, "followers">>, <<cat, "following">>,
             <<ann, "following">>, <<ann, "posts">>}
MCSharedFollowed ==
    [l \in MCShared |-> IF l = <<cat, "followers">> THEN <<dan, ann>> ELSE <<>>]

\* A profile with its posts, and both sides of a relationship.
MCBoth == {<<cat, "followers">>, <<cat, "following">>, <<cat, "posts">>,
           <<ann, "following">>}
MCBothFollowed == [l \in MCBoth |-> IF l[2] = "posts" THEN <<>> ELSE <<bob>>]

\* The profile of another user and one's own.
MCOwn == {<<cat, "followers">>, <<cat, "following">>,
          <<ann, "followers">>, <<ann, "following">>}
MCOwnFollowed == [l \in MCOwn |-> <<bob>>]
=============================================================================
