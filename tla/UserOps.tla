------------------------------- MODULE UserOps -------------------------------
(***************************************************************************)
(* The user list of user_utils.c: a linked list and the size kept beside   *)
(* it.  add_user copies ulen and plen bytes, and the lengths that come     *)
(* from the protocol do not count a terminator, so whether the byte after  *)
(* a stored string is a zero is up to the heap: unul and pnul tell.  A     *)
(* strcmp with a string that is not terminated finds no match.             *)
(***************************************************************************)
EXTENDS SequencesExt

\* strcmp(user->username, username) == 0
SameName(user, name) == user.name = name /\ user.unul

\* The position of the first user of that name, 0 if there is none.
Position(users, name) == SelectInSeq(users.list, LAMBDA u : SameName(u, name))

\* Mutant: a user that exists is added again.
add_without_search(users, user) ==
  [list |-> Append(users.list, user), size |-> users.size + 1]

\* add_user_rec walks to the end and appends, unless it meets the name.
add_user(users, user) ==
  IF Position(users, user.name) # 0 THEN users
  ELSE [list |-> Append(users.list, user), size |-> users.size + 1]

delete_user(users, name) ==
  IF Position(users, name) = 0 THEN users
  ELSE [list |-> RemoveAt(users.list, Position(users, name)),
        size |-> users.size - 1]

\* edit_user: strcpy terminates the new password.
edit_user(users, name, pass) ==
  LET i == Position(users, name)
  IN  IF i = 0 THEN users
      ELSE [users EXCEPT !.list[i].pass = pass, !.list[i].pnul = TRUE]

\* user_check_credentials returns 0: only administrators are let in.
user_check_credentials(users, name, pass) ==
  \E i \in DOMAIN users.list :
    LET u == users.list[i]
    IN  SameName(u, name) /\ u.pass = pass /\ u.pnul /\ u.admin
=============================================================================
