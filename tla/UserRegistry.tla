---------------------------- MODULE UserRegistry ----------------------------
(***************************************************************************)
(* What the user list of user_utils.c promises: at most one account per    *)
(* name, created, removed and given a new password by name.                *)
(***************************************************************************)
CONSTANTS Name, Password

VARIABLE accounts    \* a function from the existing names to their accounts

Account == [pass : Password, admin : BOOLEAN]

Init == \E names \in SUBSET Name : accounts \in [names -> Account]

Create(n, a) ==
  /\ n \notin DOMAIN accounts
  /\ accounts' = [m \in DOMAIN accounts \cup {n} |-> IF m = n THEN a ELSE accounts[m]]

Delete(n) ==
  /\ n \in DOMAIN accounts
  /\ accounts' = [m \in DOMAIN accounts \ {n} |-> accounts[m]]

Edit(n, p) ==
  /\ n \in DOMAIN accounts
  /\ accounts' = [accounts EXCEPT ![n].pass = p]

Next == \E n \in Name : \/ \E a \in Account : Create(n, a)
                        \/ Delete(n)
                        \/ \E p \in Password : Edit(n, p)

Spec == Init /\ [][Next]_accounts
=============================================================================
