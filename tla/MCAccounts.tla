------------------------------ MODULE MCAccounts ------------------------------
(* Small instances of Accounts. *)
EXTENDS Accounts, TLC

CONSTANTS d1, ann, bob, cat, annEmail, bobEmail, catEmail

MCLower == [n \in Name |-> n]

\* ann has an account, with a post; bob and cat may sign up.
MCUsers == (Name \X {"email"}) \cup {<<ann, "posts">>}
MCUsersInit ==
    [l \in MCUsers |-> CASE l = <<ann, "email">> -> <<annEmail>>
                         [] l = <<ann, "posts">> -> <<"video">>
                         [] OTHER -> <<>>]
=============================================================================
