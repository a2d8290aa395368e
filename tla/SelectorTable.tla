--------------------------- MODULE SelectorTable ---------------------------
(***************************************************************************)
(* What the registration table of a selector promises its users: it is     *)
(* only ever changed by a complete selector_register,                      *)
(* selector_unregister_fd or selector_set_interest of SelectorOps.         *)
(* Socks5.tla takes this for granted; Selector.tla implements it with the  *)
(* growing array, the two fd_sets and the walk of selector.c.              *)
(***************************************************************************)
EXTENDS SelectorOps

CONSTANT Data     \* what users attach to a descriptor

VARIABLE table

Init == table = selector_new

Register(fd, interest, data) == table' = selector_register(table, fd, interest, data)
Unregister(fd) == table' = selector_unregister_fd(table, fd)
SetInterest(fd, interest) == table' = selector_set_interest(table, fd, interest)

Next == \E fd \in ItemFd :
          \/ Unregister(fd)
          \/ \E interest \in Interest :
               \/ SetInterest(fd, interest)
               \/ \E data \in Data : Register(fd, interest, data)

Spec == Init /\ [][Next]_table
=============================================================================
