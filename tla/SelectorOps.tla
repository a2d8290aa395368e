---------------------------- MODULE SelectorOps ----------------------------
(***************************************************************************)
(* The registration table of selector.c.  A selector is a record           *)
(*   item    the table s->fds: who is registered, with which interest and  *)
(*           which attached data (the session);                            *)
(*   max_fd  s->max_fd, the highest descriptor handed to pselect.          *)
(* master_r and master_w are functions of the table, because every update  *)
(* of an item calls items_update_fdset_for_fd.  Each operator returns the  *)
(* table after the call; the status the call returns is an operator of its *)
(* own.                                                                    *)
(***************************************************************************)
EXTENDS Integers, FiniteSetsExt

CONSTANTS ITEMS_MAX_SIZE,   \* FD_SETSIZE: descriptors the table can hold
          NoData            \* the data of an unused item

\* fd_interest
READ     == "OP_READ"
WRITE    == "OP_WRITE"
OP_NOOP  == {}
OP_READ  == {READ}
OP_WRITE == {WRITE}
Interest == SUBSET {READ, WRITE}

ItemFd == 0..(ITEMS_MAX_SIZE - 1)

INVALID_FD(fd) == fd < 0 \/ fd >= ITEMS_MAX_SIZE

UnusedItem == [used |-> FALSE, interest |-> OP_NOOP, data |-> NoData]

ITEM_USED(s, fd) == s.item[fd].used

selector_new == [item |-> [fd \in ItemFd |-> UnusedItem], max_fd |-> 0]

\* Mutant: the loop stops before the current maximum.
max_fd_off_by_one(s) == Max({0} \cup {fd \in 0..(s.max_fd - 1) : ITEM_USED(s, fd)})

\* items_max_fd only looks up to the current maximum.
items_max_fd(s) == Max({0} \cup {fd \in 0..s.max_fd : ITEM_USED(s, fd)})

register_status(s, fd) ==
  IF INVALID_FD(fd) THEN "SELECTOR_IARGS"
  ELSE IF ITEM_USED(s, fd) THEN "SELECTOR_FDINUSE"
  ELSE "SELECTOR_SUCCESS"

selector_register(s, fd, interest, data) ==
  IF register_status(s, fd) # "SELECTOR_SUCCESS" THEN s
  ELSE [item   |-> [s.item EXCEPT ![fd] = [used     |-> TRUE,
                                           interest |-> interest,
                                           data     |-> data]],
        max_fd |-> IF fd > s.max_fd THEN fd ELSE s.max_fd]

\* Mutant: the memset clears the item and its neighbour.
unregister_clears_two(s, fd) ==
  IF INVALID_FD(fd) \/ ~ITEM_USED(s, fd) THEN s
  ELSE LET cleared == [s EXCEPT !.item = [g \in ItemFd |->
                         IF g \in {fd, fd + 1} THEN UnusedItem ELSE s.item[g]]]
       IN  [cleared EXCEPT !.max_fd = items_max_fd(cleared)]

\* The table part of selector_unregister_fd; the handle_close callback, which
\* runs before the item is cleared, belongs to the caller.
selector_unregister_fd(s, fd) ==
  IF INVALID_FD(fd) \/ ~ITEM_USED(s, fd) THEN s
  ELSE LET cleared == [s EXCEPT !.item[fd] = UnusedItem]
       IN  [cleared EXCEPT !.max_fd = items_max_fd(cleared)]

set_interest_status(s, fd) ==
  IF INVALID_FD(fd) \/ ~ITEM_USED(s, fd) THEN "SELECTOR_IARGS"
  ELSE "SELECTOR_SUCCESS"

\* Mutant: the new interest is added to the old one.
interest_accumulates(s, fd, interest) ==
  IF set_interest_status(s, fd) # "SELECTOR_SUCCESS" THEN s
  ELSE [s EXCEPT !.item[fd].interest = @ \cup interest]

selector_set_interest(s, fd, interest) ==
  IF set_interest_status(s, fd) # "SELECTOR_SUCCESS" THEN s
  ELSE [s EXCEPT !.item[fd].interest = interest]

\* master_r and master_w.
Master(s, op) == {fd \in ItemFd : ITEM_USED(s, fd) /\ op \in s.item[fd].interest}
=============================================================================
