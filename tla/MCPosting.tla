------------------------------ MODULE MCPosting ------------------------------
(* A small instance of Posting. *)
EXTENDS Posting, TLC

CONSTANTS d1, ann, bob

MCLower == [n \in Name |-> n]
MCAccount == d1 :> ann

\* The records of two accounts; bob follows ann.
MCRecords == ({ann, bob} \X {"email", "posts"}) \cup {<<ann, "followers">>}
MCRecordsInit ==
    [l \in MCRecords |-> CASE l[2] = "email" -> <<l[1]>>
                           [] l[2] = "followers" -> <<bob>>
                           [] OTHER -> <<>>]
=============================================================================
