--------------------------- MODULE SelectorProofs ---------------------------
(***************************************************************************)
(* What Selector.tla guarantees for every limit of the platform, every set *)
(* of descriptors, every first size of the table and any number of         *)
(* workers.  The inductive invariant has two halves.  TableInv is about    *)
(* the array, max_fd, the fd_sets and the walk; ChannelInv is about the    *)
(* mutex discipline and the list of finished jobs.                         *)
(***************************************************************************)
EXTENDS Selector, MinMaxLemmas, FiniteSetTheorems, SequenceTheorems

-----------------------------------------------------------------------------
(* The inductive invariant.                                                *)

SelType == [fds : Seq(Item), max_fd : 0..(ITEMS_MAX_SIZE - 1),
            master_r : SUBSET Fds, master_w : SUBSET Fds]

UsedIn(s) == {fd \in Fds : fd < Len(s.fds) /\ s.fds[fd + 1].used}

\* Only users' descriptors are stored, and an item that is not used is as
\* items_init or the memset of selector_unregister_fd left it.
ItemsAreUsersOrWiped(s) ==
  \A k \in 1..Len(s.fds) : IF s.fds[k].used THEN k - 1 \in Fds ELSE s.fds[k] = item_init

\* max_fd bounds the used items, and is one of them or 0.
MaxFdIsTight(s) ==
  /\ \A fd \in UsedIn(s) : fd <= s.max_fd
  /\ s.max_fd = 0 \/ s.max_fd \in UsedIn(s)

\* The fd_sets are the interests of the used items.
MasterIsInterest(s) ==
  /\ s.master_r = {fd \in UsedIn(s) : READ \in s.fds[fd + 1].interest}
  /\ s.master_w = {fd \in UsedIn(s) : WRITE \in s.fds[fd + 1].interest}

TableOK(s) ==
  /\ s \in SelType /\ Len(s.fds) <= ITEMS_MAX_SIZE + 1
  /\ ItemsAreUsersOrWiped(s)
  /\ MaxFdIsTight(s)
  /\ MasterIsInterest(s)

\* While the selector exists its array is not empty and holds the last
\* descriptor of the walk; before and after that there is no array.
Exists == pc \notin {"start", "exited"}
WalkIsInTable ==
  /\ Exists => walk.n < fd_size
  /\ ~Exists => sel.fds = <<>>
  /\ pc = "start" => walk = NoWalk

\* A selector created with FD_SETSIZE has one item more than that from the
\* start, so that selector_register never enlarges it.
ServerTableIsLarge ==
  initial = ITEMS_MAX_SIZE => /\ Exists => fd_size = ITEMS_MAX_SIZE + 1
                              /\ ~walk.moved
                              /\ fault \notin {"outside_table", "stale_item"}

TableInv == TableOK(sel) /\ WalkIsInTable /\ ServerTableIsLarge

\* resolution_mutex is held by the selector exactly while it walks the list,
\* by a worker exactly while it inserts; what a worker read of the list before
\* its insertion is still the list.
MutexDiscipline ==
  /\ mutex = "selector" <=> pc \in {"deliver", "on_block"}
  /\ \A w \in Fds : wpc[w] = "push" => mutex = "worker" /\ next[w] = jobs
  /\ \A v, w \in Fds : wpc[v] = "push" /\ wpc[w] = "push" => v = w

Pending == IF pc \in {"deliver", "on_block"} THEN rest ELSE jobs

\* The jobs of a list are the owed ones, once each.
Lists(list, jobsOwed) ==
  /\ {list[k] : k \in 1..Len(list)} = jobsOwed
  /\ \A j, k \in 1..Len(list) : list[j] = list[k] => j = k
  /\ Cardinality(jobsOwed) = Len(list)

\* The list holds the owed jobs, and the job a worker is about to insert is
\* not among them.
JobsOnce ==
  /\ Lists(Pending, owed)
  /\ \A w \in Fds : wpc[w] \in {"working", "lock", "push"} => w \notin owed

\* A nonempty list that the loop is not about to look at has its signal
\* pending, or a worker that will send it.
SignalFollowsJobs ==
  jobs # <<>> /\ pc \notin {"notify", "deliver", "on_block"}
    => signal \/ \E w \in Fds : wpc[w] = "kill"

ChannelInv == MutexDiscipline /\ JobsOnce /\ SignalFollowsJobs

Inv == TypeOK /\ TableInv /\ ChannelInv

-----------------------------------------------------------------------------
(* The operations on the table.                                            *)

\* Descriptors are natural numbers below the limit.
LEMMA FdIsNat ==
  ASSUME NEW fd \in Fds
  PROVE  fd \in Nat /\ fd <= ITEMS_MAX_SIZE - 1 /\ fd \in 0..(ITEMS_MAX_SIZE - 1)
  BY SelectorAssumption

\* item_init is an item that is not used.
LEMMA InitItem == item_init \in Item /\ ~item_init.used /\ item_init.interest = {}
  BY DEF item_init, Item

\* What next_capacity returns: at least two items, room for n and at most one
\* more than the limit; all of them for n = FD_SETSIZE.
LEMMA Capacity ==
  ASSUME NEW n \in 0..ITEMS_MAX_SIZE
  PROVE  /\ next_capacity(n) \in Nat
         /\ next_capacity(n) >= 2 /\ next_capacity(n) <= ITEMS_MAX_SIZE + 1
         /\ n < next_capacity(n)
         /\ n = ITEMS_MAX_SIZE => next_capacity(n) = ITEMS_MAX_SIZE + 1
<1> DEFINE powers == {p \in (n + 1)..ITEMS_MAX_SIZE : \E bits \in 0..p : p = 2^bits}
           all == powers \cup {ITEMS_MAX_SIZE}
<1>1. powers \subseteq (n + 1)..ITEMS_MAX_SIZE
  OBVIOUS
<1>2. next_capacity(n) = Min(all) + 1
  BY DEF next_capacity
<1> HIDE DEF powers
<1>3. /\ all \subseteq Nat /\ all # {}
      /\ \A p \in all : p >= 1 /\ p >= n /\ p <= ITEMS_MAX_SIZE
  BY <1>1, SelectorAssumption
<1>4. Min(all) \in all
  <2> HIDE DEF all
  <2> QED
    BY <1>3, MinIsLeast
<1>5. Min(all) \in Nat /\ Min(all) >= 1 /\ Min(all) >= n /\ Min(all) <= ITEMS_MAX_SIZE
  BY <1>3, <1>4
<1>6. n = ITEMS_MAX_SIZE => Min(all) = ITEMS_MAX_SIZE
  BY <1>5
<1> QED
  BY <1>2, <1>5, <1>6, SelectorAssumption

\* An fd_set after items_update_fdset_for_fd: FD_CLR, then FD_SET if the item
\* of fd is used and asks for op.
Bit(set, fd, it, op) ==
  IF it.used /\ op \in it.interest THEN set \cup {fd} ELSE set \ {fd}

\* items_update_fdset_for_fd changes the two fd_sets, at fd only.
LEMMA UpdateFdset ==
  ASSUME NEW s \in SelType, NEW fd \in Fds
  PROVE  /\ items_update_fdset_for_fd(s, fd) \in SelType
         /\ items_update_fdset_for_fd(s, fd).fds = s.fds
         /\ items_update_fdset_for_fd(s, fd).max_fd = s.max_fd
         /\ items_update_fdset_for_fd(s, fd).master_r
              = Bit(s.master_r, fd, s.fds[fd + 1], READ)
         /\ items_update_fdset_for_fd(s, fd).master_w
              = Bit(s.master_w, fd, s.fds[fd + 1], WRITE)
<1> DEFINE S == Seq(Item)
           M == 0..(ITEMS_MAX_SIZE - 1)
<1>1. s \in [fds : S, max_fd : M, master_r : SUBSET Fds, master_w : SUBSET Fds]
  BY DEF SelType
<1> HIDE DEF S, M
<1> QED
  BY <1>1 DEF items_update_fdset_for_fd, SelType, S, M, Bit

\* An item is replaced and the fd_sets follow: everything about the table but
\* max_fd stays in order.
LEMMA ItemReplaced ==
  ASSUME NEW s, TableOK(s), NEW fd \in Fds, fd < Len(s.fds),
         NEW it \in Item, it.used \/ it = item_init,
         NEW t \in SelType, t.fds = [s.fds EXCEPT ![fd + 1] = it],
         t.master_r = Bit(s.master_r, fd, it, READ),
         t.master_w = Bit(s.master_w, fd, it, WRITE)
  PROVE  /\ Len(t.fds) = Len(s.fds)
         /\ \A k \in 1..Len(s.fds) : t.fds[k] = IF k = fd + 1 THEN it ELSE s.fds[k]
         /\ ItemsAreUsersOrWiped(t)
         /\ UsedIn(t) = IF it.used THEN UsedIn(s) \cup {fd} ELSE UsedIn(s) \ {fd}
         /\ MasterIsInterest(t)
<1>1. s.fds \in Seq(Item) /\ Len(s.fds) \in Nat /\ fd \in Nat
  BY FdIsNat, LenProperties DEF TableOK, SelType
<1>2. fd + 1 \in 1..Len(s.fds)
  BY <1>1
<1>3. /\ Len(t.fds) = Len(s.fds)
      /\ \A k \in 1..Len(s.fds) : t.fds[k] = IF k = fd + 1 THEN it ELSE s.fds[k]
  BY <1>1, <1>2, ExceptSeq
<1>4. ItemsAreUsersOrWiped(t)
  <2> SUFFICES ASSUME NEW k \in 1..Len(s.fds)
               PROVE  IF t.fds[k].used THEN k - 1 \in Fds ELSE t.fds[k] = item_init
    BY <1>3 DEF ItemsAreUsersOrWiped
  <2>1. CASE k = fd + 1
    BY <1>1, <1>3, <2>1
  <2>2. CASE k # fd + 1
    BY <1>3, <2>2 DEF TableOK, ItemsAreUsersOrWiped
  <2> QED
    BY <2>1, <2>2
<1>5. \A g \in Fds : g < Len(s.fds) =>
        t.fds[g + 1] = IF g = fd THEN it ELSE s.fds[g + 1]
  <2> SUFFICES ASSUME NEW g \in Fds, g < Len(s.fds)
               PROVE  t.fds[g + 1] = IF g = fd THEN it ELSE s.fds[g + 1]
    OBVIOUS
  <2>1. g \in Nat /\ g + 1 \in 1..Len(s.fds)
    BY <1>1, FdIsNat
  <2> QED
    BY <1>1, <1>3, <2>1
<1>6. it.used = FALSE \/ it.used = TRUE
  BY DEF Item
<1>7. UsedIn(t) = IF it.used THEN UsedIn(s) \cup {fd} ELSE UsedIn(s) \ {fd}
  BY <1>3, <1>5, <1>6 DEF UsedIn
<1>8. ~it.used => it.interest = {}
  BY InitItem
<1>9. MasterIsInterest(t)
  <2>1. MasterIsInterest(s) /\ UsedIn(s) \subseteq Fds
    BY DEF TableOK, UsedIn
  <2>2. \A g \in UsedIn(s) : g \in Fds /\ g < Len(s.fds)
    BY DEF UsedIn
  <2> QED
    BY <1>5, <1>7, <1>8, <2>1, <2>2 DEF MasterIsInterest, Bit
<1> QED
  BY <1>3, <1>4, <1>7, <1>9

\* A larger array keeps the items it had and adds unused ones.
LEMMA LargerArray ==
  ASSUME NEW s, TableOK(s), NEW size \in Nat,
         Len(s.fds) <= size, size <= ITEMS_MAX_SIZE + 1,
         NEW fds, fds = [k \in 1..size |-> IF k <= Len(s.fds) THEN s.fds[k] ELSE item_init]
  PROVE  /\ fds \in Seq(Item) /\ Len(fds) = size
         /\ UsedIn([s EXCEPT !.fds = fds]) = UsedIn(s)
         /\ TableOK([s EXCEPT !.fds = fds])
<1> DEFINE t == [s EXCEPT !.fds = fds]
<1>1. s.fds \in Seq(Item) /\ Len(s.fds) \in Nat /\ s.fds \in [1..Len(s.fds) -> Item]
  BY LenProperties DEF TableOK, SelType
<1>2. fds \in [1..size -> Item]
  BY <1>1, InitItem
<1>3. fds \in Seq(Item) /\ Len(fds) = size
  BY <1>2
<1>4. t \in SelType /\ t.fds = fds /\ t.max_fd = s.max_fd
      /\ t.master_r = s.master_r /\ t.master_w = s.master_w
  <2> DEFINE S == Seq(Item)
             M == 0..(ITEMS_MAX_SIZE - 1)
  <2>1. s \in [fds : S, max_fd : M, master_r : SUBSET Fds, master_w : SUBSET Fds]
    BY DEF SelType, TableOK
  <2>2. fds \in S
    BY <1>3
  <2> HIDE DEF S, M
  <2> QED
    BY <2>1, <2>2 DEF SelType, S, M
<1> HIDE DEF t
<1>5. ItemsAreUsersOrWiped(t)
  <2> SUFFICES ASSUME NEW k \in 1..size
               PROVE  IF fds[k].used THEN k - 1 \in Fds ELSE fds[k] = item_init
    BY <1>3, <1>4 DEF ItemsAreUsersOrWiped
  <2>1. CASE k <= Len(s.fds)
    <3>1. k \in 1..Len(s.fds) /\ fds[k] = s.fds[k]
      BY <1>1, <2>1
    <3> QED
      BY <3>1 DEF TableOK, ItemsAreUsersOrWiped
  <2>2. CASE ~(k <= Len(s.fds))
    BY <2>2, InitItem
  <2> QED
    BY <2>1, <2>2
<1>6. \A g \in Fds : g < Len(fds) =>
        fds[g + 1] = IF g < Len(s.fds) THEN s.fds[g + 1] ELSE item_init
  <2> SUFFICES ASSUME NEW g \in Fds, g < Len(fds)
               PROVE  fds[g + 1] = IF g < Len(s.fds) THEN s.fds[g + 1] ELSE item_init
    OBVIOUS
  <2>1. g \in Nat /\ g + 1 \in 1..size
    BY <1>3, FdIsNat
  <2> QED
    BY <1>1, <2>1
<1>7. \A g \in Fds : g < Len(s.fds) => g < Len(fds)
  BY <1>1, <1>3, FdIsNat
<1>8. UsedIn(t) = UsedIn(s)
  BY <1>4, <1>6, <1>7, InitItem DEF UsedIn
<1>9. MaxFdIsTight(t)
  BY <1>4, <1>8 DEF MaxFdIsTight, TableOK
<1>10. MasterIsInterest(t)
  <2>1. \A g \in UsedIn(s) : fds[g + 1] = s.fds[g + 1]
    BY <1>6, <1>7 DEF UsedIn
  <2>2. \A op : {g \in UsedIn(s) : op \in fds[g + 1].interest}
                 = {g \in UsedIn(s) : op \in s.fds[g + 1].interest}
    BY <2>1
  <2>3. MasterIsInterest(s)
    BY DEF TableOK
  <2> QED
    BY <1>4, <1>8, <2>2, <2>3 DEF MasterIsInterest
<1> QED
  BY <1>3, <1>4, <1>5, <1>8, <1>9, <1>10 DEF TableOK, t

\* What ensure_capacity allocates.
Larger(items, n) ==
  [k \in 1..next_capacity(n) |-> IF k <= Len(items) THEN items[k] ELSE item_init]

\* ensure_capacity succeeds with the array it had, or with a larger one.
LEMMA EnsureCapacityCases ==
  ASSUME NEW items \in Seq(Item), NEW n \in Nat, NEW g \in ensure_capacity(items, n),
         g.ret = "SELECTOR_SUCCESS"
  PROVE  \/ n < Len(items) /\ g.fds = items /\ g.moved = FALSE
         \/ /\ Len(items) <= n /\ n \in 0..ITEMS_MAX_SIZE
            /\ g.fds = Larger(items, n) /\ g.moved \in BOOLEAN
<1>1. Len(items) \in Nat
  BY LenProperties
<1>2. CASE n < Len(items)
  <2>1. g = [ret |-> "SELECTOR_SUCCESS", fds |-> items, moved |-> FALSE]
    BY <1>2 DEF ensure_capacity
  <2> QED
    BY <1>2, <2>1
<1>3. CASE ~(n < Len(items))
  <2> DEFINE fails(why) == [ret |-> why, fds |-> items, moved |-> FALSE]
             moves == IF items = <<>> THEN {FALSE} ELSE BOOLEAN
             grows(m) == [ret |-> "SELECTOR_SUCCESS", fds |-> Larger(items, n), moved |-> m]
  <2>1. ensure_capacity(items, n) =
          IF n > ITEMS_MAX_SIZE THEN {fails("SELECTOR_MAXFD")}
          ELSE {fails("SELECTOR_ENOMEM")} \cup {grows(m) : m \in moves}
    BY <1>3 DEF ensure_capacity, Larger
  <2>2. moves \subseteq BOOLEAN
    OBVIOUS
  <2>3. ~(n > ITEMS_MAX_SIZE) /\ \E m \in moves : g = grows(m)
    <3> HIDE DEF moves
    <3>1. \A why : fails(why).ret = why
      OBVIOUS
    <3> HIDE DEF fails, grows
    <3> QED
      BY <2>1, <3>1
  <2>4. g.fds = Larger(items, n) /\ g.moved \in BOOLEAN
    <3> HIDE DEF moves
    <3>1. PICK m \in moves : g = grows(m)
      BY <2>3
    <3> QED
      BY <2>2, <3>1
  <2>5. n \in 0..ITEMS_MAX_SIZE /\ Len(items) <= n
    BY <1>1, <1>3, <2>3, SelectorAssumption
  <2> QED
    BY <2>4, <2>5
<1> QED
  BY <1>2, <1>3

\* What ensure_capacity leaves is a table with the same items, large enough.
LEMMA EnsureCapacity ==
  ASSUME NEW s, TableOK(s), NEW n \in Nat, NEW g \in ensure_capacity(s.fds, n),
         g.ret = "SELECTOR_SUCCESS"
  PROVE  /\ g.fds \in Seq(Item)
         /\ n < Len(g.fds) /\ Len(s.fds) <= Len(g.fds)
         /\ UsedIn([s EXCEPT !.fds = g.fds]) = UsedIn(s)
         /\ TableOK([s EXCEPT !.fds = g.fds])
         /\ n = ITEMS_MAX_SIZE /\ s.fds = <<>> => Len(g.fds) = ITEMS_MAX_SIZE + 1
         /\ g.moved \in BOOLEAN
<1>1. s.fds \in Seq(Item) /\ Len(s.fds) \in Nat
  BY LenProperties DEF TableOK, SelType
<1>2. \/ n < Len(s.fds) /\ g.fds = s.fds /\ g.moved = FALSE
      \/ /\ Len(s.fds) <= n /\ n \in 0..ITEMS_MAX_SIZE
         /\ g.fds = Larger(s.fds, n) /\ g.moved \in BOOLEAN
  BY <1>1, EnsureCapacityCases
<1>3. CASE n < Len(s.fds) /\ g.fds = s.fds /\ g.moved = FALSE
  <2>1. [s EXCEPT !.fds = g.fds] = s
    BY <1>3 DEF TableOK, SelType
  <2>2. s.fds # <<>>
    BY <1>1, <1>3, EmptySeq
  <2>3. g.fds \in Seq(Item) /\ n < Len(g.fds) /\ Len(s.fds) <= Len(g.fds)
    BY <1>1, <1>3
  <2>4. g.moved \in BOOLEAN
    BY <1>3
  <2> QED
    BY <2>1, <2>2, <2>3, <2>4
<1>4. CASE /\ Len(s.fds) <= n /\ n \in 0..ITEMS_MAX_SIZE
           /\ g.fds = Larger(s.fds, n) /\ g.moved \in BOOLEAN
  <2>1. /\ next_capacity(n) \in Nat /\ n < next_capacity(n)
        /\ next_capacity(n) <= ITEMS_MAX_SIZE + 1
        /\ n = ITEMS_MAX_SIZE => next_capacity(n) = ITEMS_MAX_SIZE + 1
    BY <1>4, Capacity
  <2>2. Len(s.fds) <= next_capacity(n)
    BY <1>1, <1>4, <2>1
  <2>3. /\ g.fds \in Seq(Item) /\ Len(g.fds) = next_capacity(n)
        /\ UsedIn([s EXCEPT !.fds = g.fds]) = UsedIn(s)
        /\ TableOK([s EXCEPT !.fds = g.fds])
    BY <1>4, <2>1, <2>2, LargerArray DEF Larger
  <2> QED
    BY <1>4, <2>1, <2>2, <2>3
<1> QED
  BY <1>2, <1>3, <1>4

\* selector_register's store: one more used item, max_fd and the fd_sets
\* follow it.
LEMMA StoredKeepsTable ==
  ASSUME NEW s, TableOK(s), NEW fd \in Fds, fd < Len(s.fds), NEW interest \in Interests
  PROVE  /\ TableOK(Stored(s, fd, interest))
         /\ UsedIn(Stored(s, fd, interest)) = UsedIn(s) \cup {fd}
         /\ Len(Stored(s, fd, interest).fds) = Len(s.fds)
         /\ Stored(s, fd, interest).max_fd = IF fd > s.max_fd THEN fd ELSE s.max_fd
         /\ Stored(s, fd, interest).fds
              = [s.fds EXCEPT ![fd + 1] =
                   [used |-> TRUE, interest |-> interest, data |-> "data"]]
<1> DEFINE it == [used |-> TRUE, interest |-> interest, data |-> "data"]
           t == [s EXCEPT !.fds[fd + 1] = it, !.max_fd = Max({@, fd})]
           u == Stored(s, fd, interest)
           top == Max({s.max_fd, fd})
<1>1. it \in Item
  BY SelectorAssumption DEF Item, Data, READ, WRITE
<1>2. s.fds \in Seq(Item) /\ Len(s.fds) \in Nat /\ fd \in Nat /\ fd + 1 \in 1..Len(s.fds)
  BY FdIsNat, LenProperties DEF TableOK, SelType
<1>3. [s.fds EXCEPT ![fd + 1] = it] \in Seq(Item)
  BY <1>1, <1>2, ExceptSeq
<1>4. s.max_fd \in 0..(ITEMS_MAX_SIZE - 1)
  BY DEF TableOK, SelType
<1>5. top = IF fd > s.max_fd THEN fd ELSE s.max_fd
  <2>1. {s.max_fd, fd} \subseteq 0..(ITEMS_MAX_SIZE - 1) /\ ITEMS_MAX_SIZE - 1 \in Nat
    BY <1>4, FdIsNat, SelectorAssumption
  <2>2. top \in {s.max_fd, fd} /\ \A n \in {s.max_fd, fd} : n <= top
    BY <2>1, MaxIsGreatest
  <2> QED
    BY <1>2, <1>4, <2>2
<1>6. top \in 0..(ITEMS_MAX_SIZE - 1)
  BY <1>4, <1>5, FdIsNat
<1>7. /\ t \in SelType /\ t.fds = [s.fds EXCEPT ![fd + 1] = it] /\ t.max_fd = top
      /\ t.master_r = s.master_r /\ t.master_w = s.master_w
  <2> DEFINE S == Seq(Item)
             M == 0..(ITEMS_MAX_SIZE - 1)
             fds == [s.fds EXCEPT ![fd + 1] = it]
  <2>1. s \in [fds : S, max_fd : M, master_r : SUBSET Fds, master_w : SUBSET Fds]
    BY DEF SelType, TableOK
  <2>2. fds \in S /\ top \in M
    BY <1>3, <1>6
  <2>3. t = [[s EXCEPT !.fds = fds] EXCEPT !.max_fd = top]
    BY <2>1
  <2> HIDE DEF S, M, top, it, fds, t
  <2>4. /\ t \in [fds : S, max_fd : M, master_r : SUBSET Fds, master_w : SUBSET Fds]
        /\ t.fds = fds /\ t.max_fd = top
        /\ t.master_r = s.master_r /\ t.master_w = s.master_w
    BY <2>1, <2>2, <2>3
  <2> QED
    BY <2>4 DEF SelType, S, M, fds
<1>8. u = items_update_fdset_for_fd(t, fd)
  BY DEF Stored
<1>11. it.used
  OBVIOUS
<1> HIDE DEF t, u, top, it
<1>9. t.fds[fd + 1] = it
  BY <1>1, <1>2, <1>7, ExceptSeq
<1>10. /\ u \in SelType /\ u.fds = t.fds /\ u.max_fd = top
       /\ u.master_r = Bit(s.master_r, fd, it, READ)
       /\ u.master_w = Bit(s.master_w, fd, it, WRITE)
  BY <1>7, <1>8, <1>9, UpdateFdset
<1>12. u.fds = [s.fds EXCEPT ![fd + 1] = it]
  BY <1>7, <1>10
<1>13. /\ Len(u.fds) = Len(s.fds)
       /\ ItemsAreUsersOrWiped(u)
       /\ UsedIn(u) = UsedIn(s) \cup {fd}
       /\ MasterIsInterest(u)
  BY <1>1, <1>10, <1>11, <1>12, ItemReplaced
<1>14. MaxFdIsTight(u)
  <2>1. MaxFdIsTight(s) /\ UsedIn(s) \subseteq Nat
    BY FdIsNat DEF TableOK, UsedIn
  <2> QED
    BY <1>2, <1>4, <1>5, <1>10, <1>13, <2>1 DEF MaxFdIsTight
<1> QED
  BY <1>5, <1>10, <1>12, <1>13, <1>14 DEF TableOK, u, it

\* What selector_set_interest leaves.
WithInterest(s, fd, interest) ==
  items_update_fdset_for_fd([s EXCEPT !.fds[fd + 1].interest = interest], fd)

\* selector_set_interest: the item keeps everything but its interest.
LEMMA InterestKeepsTable ==
  ASSUME NEW s, TableOK(s), NEW fd \in UsedIn(s), NEW interest \in SUBSET {READ, WRITE}
  PROVE  /\ TableOK(WithInterest(s, fd, interest))
         /\ UsedIn(WithInterest(s, fd, interest)) = UsedIn(s)
         /\ WithInterest(s, fd, interest).max_fd = s.max_fd
         /\ Len(WithInterest(s, fd, interest).fds) = Len(s.fds)
         /\ WithInterest(s, fd, interest).fds
              = [s.fds EXCEPT ![fd + 1].interest = interest]
<1> DEFINE u == WithInterest(s, fd, interest)
           it == [s.fds[fd + 1] EXCEPT !.interest = interest]
           fds == [s.fds EXCEPT ![fd + 1] = it]
           t == [s EXCEPT !.fds = fds]
<1>1. fd \in Fds /\ fd < Len(s.fds) /\ s.fds[fd + 1].used
  BY DEF UsedIn
<1>2. s.fds \in Seq(Item) /\ Len(s.fds) \in Nat /\ fd \in Nat /\ fd + 1 \in 1..Len(s.fds)
  BY <1>1, FdIsNat, LenProperties DEF TableOK, SelType
<1>3. s.fds[fd + 1] \in Item
  BY <1>2, ElementOfSeq
<1>4. it \in Item /\ it.used
  BY <1>1, <1>3 DEF Item
<1>5. [s EXCEPT !.fds[fd + 1].interest = interest] = t
  OBVIOUS
<1>6. fds = [s.fds EXCEPT ![fd + 1].interest = interest]
  OBVIOUS
<1> HIDE DEF it
<1>7. fds \in Seq(Item) /\ fds[fd + 1] = it
  BY <1>2, <1>4, ExceptSeq
<1>8. /\ t \in SelType /\ t.fds = fds /\ t.max_fd = s.max_fd
      /\ t.master_r = s.master_r /\ t.master_w = s.master_w
  <2> DEFINE S == Seq(Item)
             M == 0..(ITEMS_MAX_SIZE - 1)
  <2>1. s \in [fds : S, max_fd : M, master_r : SUBSET Fds, master_w : SUBSET Fds]
    BY DEF SelType, TableOK
  <2>2. fds \in S
    BY <1>7
  <2> HIDE DEF S, M, fds
  <2> QED
    BY <2>1, <2>2 DEF SelType, S, M
<1>9. u = items_update_fdset_for_fd(t, fd)
  BY <1>5 DEF WithInterest
<1> HIDE DEF t, u
<1>10. /\ u \in SelType /\ u.fds = fds /\ u.max_fd = s.max_fd
       /\ u.master_r = Bit(s.master_r, fd, it, READ)
       /\ u.master_w = Bit(s.master_w, fd, it, WRITE)
  BY <1>1, <1>7, <1>8, <1>9, UpdateFdset
<1>14. u.fds = [s.fds EXCEPT ![fd + 1] = it]
  BY <1>10
<1> HIDE DEF fds
<1>11. /\ Len(u.fds) = Len(s.fds)
       /\ ItemsAreUsersOrWiped(u)
       /\ UsedIn(u) = UsedIn(s) \cup {fd}
       /\ MasterIsInterest(u)
  BY <1>1, <1>4, <1>10, <1>14, ItemReplaced
<1>12. UsedIn(u) = UsedIn(s)
  BY <1>11
<1>13. MaxFdIsTight(u)
  BY <1>10, <1>12 DEF MaxFdIsTight, TableOK
<1> QED
  BY <1>6, <1>10, <1>11, <1>12, <1>13 DEF TableOK, u

\* items_max_fd finds the highest used item when the current maximum bounds
\* them.
LEMMA MaxFdFound ==
  ASSUME NEW s \in SelType, ItemsAreUsersOrWiped(s), s.max_fd < Len(s.fds),
         \A fd \in UsedIn(s) : fd <= s.max_fd
  PROVE  /\ items_max_fd(s) \in 0..(ITEMS_MAX_SIZE - 1)
         /\ items_max_fd(s) = 0 \/ items_max_fd(s) \in UsedIn(s)
         /\ \A fd \in UsedIn(s) : fd <= items_max_fd(s)
<1> DEFINE used == {fd \in 0..s.max_fd : s.fds[fd + 1].used}
           all == {0} \cup used
<1>1. s.max_fd \in 0..(ITEMS_MAX_SIZE - 1) /\ Len(s.fds) \in Nat
  BY LenProperties DEF SelType
<1>2. used = UsedIn(s)
  <2>1. ASSUME NEW fd \in used
        PROVE  fd \in UsedIn(s)
    <3>1. fd \in Nat /\ fd < Len(s.fds) /\ fd + 1 \in 1..Len(s.fds) /\ (fd + 1) - 1 = fd
      BY <1>1
    <3>2. fd \in Fds
      BY <3>1 DEF ItemsAreUsersOrWiped
    <3> QED
      BY <3>1, <3>2 DEF UsedIn
  <2>2. ASSUME NEW fd \in UsedIn(s)
        PROVE  fd \in used
    <3>1. fd \in Fds /\ s.fds[fd + 1].used /\ fd <= s.max_fd
      BY DEF UsedIn
    <3>2. fd \in 0..s.max_fd
      BY <1>1, <3>1, FdIsNat
    <3> QED
      BY <3>1, <3>2
  <2> QED
    BY <2>1, <2>2
<1>3. items_max_fd(s) = Max(all)
  BY DEF items_max_fd
<1>4. used \subseteq 0..s.max_fd
  OBVIOUS
<1> HIDE DEF used
<1>5. all \subseteq 0..(ITEMS_MAX_SIZE - 1) /\ all # {} /\ ITEMS_MAX_SIZE - 1 \in Nat
  BY <1>1, <1>4, SelectorAssumption
<1>6. Max(all) \in all /\ \A n \in all : n <= Max(all)
  <2> HIDE DEF all
  <2> QED
    BY <1>5, MaxIsGreatest
<1> QED
  BY <1>2, <1>3, <1>5, <1>6

\* selector_unregister_fd: the item is wiped, the fd_sets forget it and max_fd
\* goes down to the next used item.
LEMMA UnregisteredKeepsTable ==
  ASSUME NEW s, TableOK(s), NEW fd \in UsedIn(s), NEW u, u = Unregistered(s, fd)
  PROVE  /\ TableOK(u) /\ UsedIn(u) = UsedIn(s) \ {fd}
         /\ Len(u.fds) = Len(s.fds)
         /\ u.fds = [s.fds EXCEPT ![fd + 1] = item_init]
         /\ u.max_fd = items_max_fd([s EXCEPT !.fds = u.fds])
<1> DEFINE quiet == WithInterest(s, fd, {})
           fds == [s.fds EXCEPT ![fd + 1] = item_init]
           cleared == [quiet EXCEPT !.fds = [quiet.fds EXCEPT ![fd + 1] = item_init]]
           top == items_max_fd(cleared)
<1>1. u = [cleared EXCEPT !.max_fd = top]
  BY DEF Unregistered, WithInterest
<1>2. fd \in Fds /\ fd < Len(s.fds) /\ s.fds[fd + 1].used
  BY DEF UsedIn
<1>3. s.fds \in Seq(Item) /\ Len(s.fds) \in Nat /\ fd \in Nat /\ fd + 1 \in 1..Len(s.fds)
  BY <1>2, FdIsNat, LenProperties DEF TableOK, SelType
<1>4. /\ TableOK(quiet) /\ UsedIn(quiet) = UsedIn(s)
      /\ quiet.max_fd = s.max_fd /\ Len(quiet.fds) = Len(s.fds)
      /\ quiet.fds = [s.fds EXCEPT ![fd + 1].interest = {}]
  <2> DEFINE none == {}
  <2>1. none \in SUBSET {READ, WRITE} /\ quiet = WithInterest(s, fd, none)
    OBVIOUS
  <2>2. /\ TableOK(quiet) /\ UsedIn(quiet) = UsedIn(s)
        /\ quiet.max_fd = s.max_fd /\ Len(quiet.fds) = Len(s.fds)
        /\ quiet.fds = [s.fds EXCEPT ![fd + 1].interest = none]
    <3> HIDE DEF none, quiet
    <3> QED
      BY <2>1, InterestKeepsTable
  <2> QED
    BY <2>2
<1> HIDE DEF quiet
<1>5. [quiet.fds EXCEPT ![fd + 1] = item_init] = fds
  BY <1>3, <1>4
<1>6. quiet.fds[fd + 1].interest = {}
  BY <1>3, <1>4, ElementOfSeq DEF Item
<1>7. fds \in Seq(Item) /\ fds[fd + 1] = item_init /\ Len(fds) = Len(s.fds)
  BY <1>3, InitItem, ExceptSeq
<1>8. /\ cleared \in SelType /\ cleared.fds = fds /\ cleared.max_fd = s.max_fd
      /\ cleared.master_r = quiet.master_r /\ cleared.master_w = quiet.master_w
  <2> DEFINE S == Seq(Item)
             M == 0..(ITEMS_MAX_SIZE - 1)
  <2>1. quiet \in [fds : S, max_fd : M, master_r : SUBSET Fds, master_w : SUBSET Fds]
    BY <1>4 DEF SelType, TableOK
  <2>2. fds \in S
    BY <1>7
  <2>3. cleared = [quiet EXCEPT !.fds = fds]
    BY <1>5
  <2> HIDE DEF S, M, fds, cleared
  <2> QED
    BY <1>4, <2>1, <2>2, <2>3 DEF SelType, S, M
<1> HIDE DEF cleared, top
<1>9. /\ quiet.master_r = Bit(quiet.master_r, fd, item_init, READ)
      /\ quiet.master_w = Bit(quiet.master_w, fd, item_init, WRITE)
  <2>1. MasterIsInterest(quiet)
    BY <1>4 DEF TableOK
  <2>2. fd \notin quiet.master_r /\ fd \notin quiet.master_w
    BY <1>6, <2>1 DEF MasterIsInterest
  <2> QED
    BY <2>2, InitItem DEF Bit
<1>10. /\ ItemsAreUsersOrWiped(cleared)
       /\ UsedIn(cleared) = UsedIn(s) \ {fd}
       /\ MasterIsInterest(cleared)
  <2>1. cleared.fds = [quiet.fds EXCEPT ![fd + 1] = item_init]
    BY <1>5, <1>8
  <2>2. /\ ItemsAreUsersOrWiped(cleared) /\ MasterIsInterest(cleared)
        /\ UsedIn(cleared) = IF item_init.used THEN UsedIn(quiet) \cup {fd}
                             ELSE UsedIn(quiet) \ {fd}
    BY <1>2, <1>4, <1>8, <1>9, <2>1, InitItem, ItemReplaced
  <2> QED
    BY <1>4, <2>2, InitItem
<1>11. s.max_fd < Len(cleared.fds) /\ \A g \in UsedIn(cleared) : g <= cleared.max_fd
  <2>1. /\ \A g \in UsedIn(s) : g <= s.max_fd
        /\ s.max_fd = 0 \/ s.max_fd \in UsedIn(s)
    BY DEF TableOK, MaxFdIsTight
  <2>2. s.max_fd < Len(s.fds)
    BY <1>3, <2>1 DEF UsedIn
  <2> QED
    BY <1>7, <1>8, <1>10, <2>1, <2>2
<1>12. /\ top \in 0..(ITEMS_MAX_SIZE - 1)
       /\ top = 0 \/ top \in UsedIn(cleared)
       /\ \A g \in UsedIn(cleared) : g <= top
  BY <1>8, <1>10, <1>11, MaxFdFound DEF top
<1>13. /\ u \in SelType /\ u.fds = fds /\ u.max_fd = top
       /\ u.master_r = cleared.master_r /\ u.master_w = cleared.master_w
  <2> DEFINE S == Seq(Item)
             M == 0..(ITEMS_MAX_SIZE - 1)
  <2>1. cleared \in [fds : S, max_fd : M, master_r : SUBSET Fds, master_w : SUBSET Fds]
    BY <1>8 DEF SelType
  <2>2. top \in M
    BY <1>12
  <2> HIDE DEF S, M, fds
  <2> QED
    BY <1>1, <1>8, <2>1, <2>2 DEF SelType, S, M
<1>14. UsedIn(u) = UsedIn(cleared)
  BY <1>8, <1>13 DEF UsedIn
<1>15. /\ ItemsAreUsersOrWiped(u) /\ MasterIsInterest(u) /\ MaxFdIsTight(u)
  BY <1>8, <1>10, <1>12, <1>13, <1>14
  DEF ItemsAreUsersOrWiped, MasterIsInterest, MaxFdIsTight
<1>16. Len(u.fds) <= ITEMS_MAX_SIZE + 1
  BY <1>7, <1>13 DEF TableOK
<1>17. top = items_max_fd([s EXCEPT !.fds = u.fds])
  <2>1. /\ [s EXCEPT !.fds = u.fds].fds = cleared.fds
        /\ [s EXCEPT !.fds = u.fds].max_fd = cleared.max_fd
    BY <1>8, <1>13 DEF TableOK, SelType
  <2> QED
    BY <2>1 DEF items_max_fd, top
<1> QED
  BY <1>7, <1>10, <1>13, <1>14, <1>15, <1>16, <1>17 DEF TableOK

-----------------------------------------------------------------------------
(* Every step keeps the table half of the invariant.                       *)

WalkType == [i : 0..ITEMS_MAX_SIZE, n : 0..(ITEMS_MAX_SIZE - 1), moved : BOOLEAN,
             slave_r : SUBSET Fds, slave_w : SUBSET Fds]

\* The walk starts at the first descriptor.
LEMMA NoWalkType == NoWalk \in WalkType /\ NoWalk.n = 0 /\ NoWalk.moved = FALSE
  BY SelectorAssumption DEF NoWalk, WalkType

\* Wherever the walk moves on from, it stops at most one past its limit.
LEMMA FromIsWalk ==
  ASSUME NEW v \in WalkType, NEW i \in Nat
  PROVE  /\ From(v, i) \in WalkType
         /\ From(v, i).n = v.n /\ From(v, i).moved = FALSE
<1> DEFINE used == {j \in i..v.n : ITEM_USED(j)}
           all == used \cup {v.n + 1}
           k == Min(all)
           I == 0..ITEMS_MAX_SIZE
           N == 0..(ITEMS_MAX_SIZE - 1)
<1>1. v.n \in N /\ v.n \in Nat /\ v.n + 1 \in Nat /\ v.n + 1 <= ITEMS_MAX_SIZE
  BY SelectorAssumption DEF WalkType
<1>2. used \subseteq Nat
  <2>1. \A j \in i..v.n : j \in Nat
    BY <1>1
  <2> QED
    BY <2>1
<1>3. From(v, i) = [v EXCEPT !.i = k, !.moved = FALSE, !.slave_r = {f \in @ : f >= k},
                             !.slave_w = {f \in @ : f >= k}]
  BY DEF From
<1> HIDE DEF used
<1>4. all \subseteq Nat /\ v.n + 1 \in all
  BY <1>1, <1>2
<1>5. k \in Nat /\ k <= v.n + 1
  <2> HIDE DEF all
  <2> QED
    BY <1>4, MinIsLeast
<1>6. k \in I
  <2> HIDE DEF k
  <2> QED
    BY <1>1, <1>5, SelectorAssumption
<1>7. {f \in v.slave_r : f >= k} \in SUBSET Fds /\ {f \in v.slave_w : f >= k} \in SUBSET Fds
  BY DEF WalkType
<1>8. v \in [i : I, n : N, moved : BOOLEAN, slave_r : SUBSET Fds, slave_w : SUBSET Fds]
  BY DEF WalkType
<1> HIDE DEF I, N, k
<1> QED
  BY <1>3, <1>6, <1>7, <1>8 DEF WalkType, I, N

\* The used items, as the users and selector_destroy name them.
LEMMA UsedIsUsedIn ==
  ASSUME TypeOK
  PROVE  /\ Used = UsedIn(sel)
         /\ \A fd \in Fds : InTable(fd) /\ ITEM_USED(fd) => fd \in UsedIn(sel)
  BY DEF Used, UsedIn, InTable, ITEM_USED, item, fd_size

\* Nothing of the table changes: only the place of the selector's thread,
\* within the life of the selector.
LEMMA PlaceOnly ==
  ASSUME TypeOK, TableInv, UNCHANGED <<sel, walk, initial, fault>>,
         pc # "start" /\ pc # "exited", pc' # "start" /\ pc' # "exited"
  PROVE  TableInv'
  BY DEF TableInv, TableOK, ItemsAreUsersOrWiped, MaxFdIsTight, UsedIn, MasterIsInterest,
         WalkIsInTable, ServerTableIsLarge, Exists, fd_size

\* selector_new leaves a table large enough for its argument, or nothing.
LEMMA InitSelectorKeepsTable ==
  ASSUME TypeOK, TableInv, init_selector
  PROVE  TypeOK' /\ TableInv'
<1>1. /\ pc = "start" /\ sel.fds = <<>> /\ walk = NoWalk /\ TableOK(sel) /\ initial \in Nat
      /\ UNCHANGED <<walk, initial, closed, channel, fault>>
  BY SelectorAssumption
  DEF init_selector, TableInv, WalkIsInTable, Exists, TypeOK
<1>2. PICK made \in selector_new(initial) :
        IF made.ret = "SELECTOR_SUCCESS"
        THEN sel' = [sel EXCEPT !.fds = made.fds] /\ pc' = "setup"
        ELSE sel' = sel /\ pc' = "exited"
  BY DEF init_selector
<1>3. made \in ensure_capacity(sel.fds, initial)
  BY <1>1, <1>2 DEF selector_new
<1>4. CASE made.ret = "SELECTOR_SUCCESS"
  <2>1. sel' = [sel EXCEPT !.fds = made.fds] /\ pc' = "setup"
    BY <1>2, <1>4
  <2>2. /\ initial < Len(made.fds) /\ TableOK(sel')
        /\ initial = ITEMS_MAX_SIZE => Len(made.fds) = ITEMS_MAX_SIZE + 1
        /\ made.fds \in Seq(Item)
    BY <1>1, <1>3, <1>4, <2>1, EnsureCapacity
  <2>3. sel'.fds = made.fds /\ Len(made.fds) \in Nat
    BY <1>1, <2>1, <2>2, LenProperties DEF TableOK, SelType
  <2>4. TypeOK'
    BY <1>1, <2>1, <2>2 DEF TypeOK, channel, TableOK, SelType, fd_size
  <2>5. WalkIsInTable'
    BY <1>1, <2>1, <2>2, <2>3, NoWalkType DEF WalkIsInTable, Exists, fd_size
  <2>6. ServerTableIsLarge'
    BY <1>1, <2>1, <2>2, <2>3, NoWalkType DEF ServerTableIsLarge, Exists, fd_size, TableInv
  <2> QED
    BY <2>2, <2>4, <2>5, <2>6 DEF TableInv, TableOK
<1>5. CASE made.ret # "SELECTOR_SUCCESS"
  <2>1. sel' = sel /\ pc' = "exited"
    BY <1>2, <1>5
  <2>2. TypeOK'
    BY <1>1, <2>1 DEF TypeOK, channel, fd_size
  <2>3. WalkIsInTable' /\ ServerTableIsLarge'
    BY <1>1, <2>1 DEF WalkIsInTable, ServerTableIsLarge, Exists, TableInv
  <2> QED
    BY <1>1, <2>1, <2>2, <2>3 DEF TableInv
<1> QED
  BY <1>4, <1>5

\* A step that stops at a fault: only the reason has to be looked at.
LEMMA FailKeepsTable ==
  ASSUME TypeOK, TableInv, NEW why \in {"outside_table", "stale_item", "freed_job"},
         Fail(why), initial = ITEMS_MAX_SIZE => why = "freed_job"
  PROVE  TypeOK' /\ TableInv'
<1>1. fault' = why /\ UNCHANGED <<sel, walk, pc, initial, closed, channel>>
  BY DEF Fail
<1>2. TypeOK'
  BY <1>1 DEF TypeOK, channel, fd_size
<1>3. WalkIsInTable' /\ ServerTableIsLarge'
  BY <1>1 DEF WalkIsInTable, ServerTableIsLarge, Exists, TableInv, fd_size
<1> QED
  BY <1>1, <1>2, <1>3 DEF TableInv

\* Every descriptor is inside the table of a selector that was created with
\* FD_SETSIZE.
LEMMA ServerFdInTable ==
  ASSUME TypeOK, TableInv, Exists, initial = ITEMS_MAX_SIZE, NEW fd \in Fds
  PROVE  InTable(fd) /\ fd <= fd_size
<1>1. fd_size = ITEMS_MAX_SIZE + 1
  BY DEF TableInv, ServerTableIsLarge
<1> QED
  BY <1>1, FdIsNat, SelectorAssumption DEF InTable

\* A step of the users or of selector_destroy that leaves another table in
\* order, of the same size or larger.
LEMMA NewTable ==
  ASSUME TypeOK, TableInv, Exists, TableOK(sel'), Len(sel.fds) <= Len(sel'.fds),
         initial = ITEMS_MAX_SIZE => Len(sel'.fds) = Len(sel.fds),
         UNCHANGED <<initial, channel, fault>>,
         walk' \in WalkType, walk'.n = walk.n,
         initial = ITEMS_MAX_SIZE => walk'.moved = walk.moved,
         closed' \subseteq Fds, pc' = pc \/ pc' = "destroy"
  PROVE  TypeOK' /\ TableInv'
<1>1. TypeOK'
  BY DEF TypeOK, channel, fd_size, TableOK, SelType, WalkType
<1>2. Len(sel.fds) \in Nat /\ Len(sel'.fds) \in Nat /\ walk.n \in Nat
  BY <1>1, LenProperties DEF TypeOK
<1>3. WalkIsInTable'
  BY <1>2 DEF WalkIsInTable, Exists, TableInv, fd_size
<1>4. ServerTableIsLarge'
  BY DEF ServerTableIsLarge, Exists, TableInv, fd_size
<1> QED
  BY <1>1, <1>3, <1>4 DEF TableInv

\* selector_register: the array grows before the item is stored, or the call
\* ends where it was refused, or left the array.
LEMMA RegisterKeepsTable ==
  ASSUME TypeOK, TableInv, NEW fd \in Fds, NEW interest \in Interests,
         selector_register(fd, interest)
  PROVE  TypeOK' /\ TableInv'
<1> DEFINE same == [ret |-> "SELECTOR_SUCCESS", fds |-> sel.fds, moved |-> FALSE]
<1>1. Exists /\ TableOK(sel) /\ fd \in Nat /\ Len(sel.fds) \in Nat
  BY FdIsNat, LenProperties
  DEF selector_register, InUserCode, Exists, TableInv, TableOK, SelType
<1>2. PICK grown \in IF fd > fd_size THEN ensure_capacity(sel.fds, fd) ELSE {same} :
        IF grown.ret # "SELECTOR_SUCCESS" THEN UNCHANGED vars
        ELSE IF fd >= Len(grown.fds) THEN Fail("outside_table")
        ELSE LET s == [sel EXCEPT !.fds = grown.fds]
             IN  /\ sel' = IF s.fds[fd + 1].used THEN s ELSE Stored(s, fd, interest)
                 /\ walk' = [walk EXCEPT !.moved = @ \/ (grown.moved /\ pc = "on_read")]
                 /\ closed' = closed \ {fd}
                 /\ UNCHANGED <<pc, initial, channel, fault>>
  BY DEF selector_register
<1>3. CASE grown.ret # "SELECTOR_SUCCESS"
  <2>1. UNCHANGED vars
    BY <1>2, <1>3
  <2>2. TypeOK'
    BY <2>1 DEF TypeOK, vars, table, channel, fd_size
  <2>3. sel' = sel /\ WalkIsInTable' /\ ServerTableIsLarge'
    BY <2>1 DEF vars, table, WalkIsInTable, ServerTableIsLarge, Exists, fd_size, TableInv
  <2> QED
    BY <1>1, <2>2, <2>3 DEF TableInv
<1>4. ASSUME grown.ret = "SELECTOR_SUCCESS"
      PROVE  /\ grown.fds \in Seq(Item) /\ grown.moved \in BOOLEAN
             /\ Len(sel.fds) <= Len(grown.fds) /\ TableOK([sel EXCEPT !.fds = grown.fds])
             /\ fd <= fd_size => Len(grown.fds) = Len(sel.fds) /\ grown.moved = FALSE
             /\ fd > fd_size => fd < Len(grown.fds)
  <2>1. CASE fd > fd_size
    <3>1. grown \in ensure_capacity(sel.fds, fd)
      BY <1>2, <2>1
    <3>2. /\ grown.fds \in Seq(Item) /\ grown.moved \in BOOLEAN
          /\ fd < Len(grown.fds) /\ Len(sel.fds) <= Len(grown.fds)
          /\ TableOK([sel EXCEPT !.fds = grown.fds])
      BY <1>1, <1>4, <3>1, EnsureCapacity
    <3>3. ~(fd <= fd_size)
      BY <1>1, <2>1 DEF fd_size
    <3> QED
      BY <3>2, <3>3
  <2>2. CASE ~(fd > fd_size)
    <3>1. grown.fds = sel.fds /\ grown.moved = FALSE
      BY <1>2, <2>2
    <3>2. [sel EXCEPT !.fds = grown.fds] = sel
      BY <1>1, <3>1 DEF TableOK, SelType
    <3>3. sel.fds \in Seq(Item)
      BY <1>1 DEF TableOK, SelType
    <3>4. grown.moved \in BOOLEAN
      BY <3>1
    <3>5. TableOK([sel EXCEPT !.fds = grown.fds])
      BY <1>1, <3>2
    <3>6. Len(grown.fds) = Len(sel.fds) /\ Len(sel.fds) <= Len(grown.fds)
      BY <1>1, <3>1
    <3> QED
      BY <2>2, <3>1, <3>3, <3>4, <3>5, <3>6
  <2> QED
    BY <2>1, <2>2
<1>5. CASE grown.ret = "SELECTOR_SUCCESS" /\ fd >= Len(grown.fds)
  <2>1. Fail("outside_table")
    BY <1>2, <1>5
  <2>2. initial # ITEMS_MAX_SIZE
    <3> SUFFICES ASSUME initial = ITEMS_MAX_SIZE
                 PROVE  FALSE
      OBVIOUS
    <3>1. fd < Len(sel.fds) /\ fd <= fd_size
      BY <1>1, ServerFdInTable DEF InTable, fd_size
    <3>2. Len(grown.fds) = Len(sel.fds)
      BY <1>4, <1>5, <3>1
    <3> QED
      BY <1>1, <1>5, <3>1, <3>2
  <2> QED
    BY <2>1, <2>2, FailKeepsTable
<1>6. CASE grown.ret = "SELECTOR_SUCCESS" /\ ~(fd >= Len(grown.fds))
  <2> DEFINE s == [sel EXCEPT !.fds = grown.fds]
  <2>1. /\ sel' = IF s.fds[fd + 1].used THEN s ELSE Stored(s, fd, interest)
        /\ walk' = [walk EXCEPT !.moved = @ \/ (grown.moved /\ pc = "on_read")]
        /\ closed' = closed \ {fd}
        /\ UNCHANGED <<pc, initial, channel, fault>>
    BY <1>2, <1>6
  <2>2. s.fds = grown.fds /\ TableOK(s) /\ Len(grown.fds) \in Nat
    BY <1>1, <1>4, <1>6, LenProperties DEF TableOK, SelType
  <2> HIDE DEF s
  <2>3. fd < Len(s.fds)
    BY <1>1, <1>6, <2>2
  <2>4. TableOK(sel') /\ Len(sel'.fds) = Len(grown.fds)
    <3>1. TableOK(Stored(s, fd, interest)) /\ Len(Stored(s, fd, interest).fds) = Len(s.fds)
      BY <2>2, <2>3, StoredKeepsTable
    <3> QED
      BY <2>1, <2>2, <3>1
  <2>5. /\ walk' \in WalkType /\ walk'.n = walk.n
        /\ grown.moved = FALSE => walk'.moved = walk.moved
    <3> DEFINE I == 0..ITEMS_MAX_SIZE
               N == 0..(ITEMS_MAX_SIZE - 1)
               m == walk.moved \/ (grown.moved /\ pc = "on_read")
    <3>1. walk \in [i : I, n : N, moved : BOOLEAN, slave_r : SUBSET Fds, slave_w : SUBSET Fds]
      BY DEF TypeOK
    <3>2. m \in BOOLEAN /\ walk' = [walk EXCEPT !.moved = m]
      BY <2>1
    <3>3. grown.moved = FALSE => m = walk.moved
      BY <3>1
    <3> HIDE DEF I, N, m
    <3> QED
      BY <3>1, <3>2, <3>3 DEF WalkType, I, N
  <2>6. initial = ITEMS_MAX_SIZE => Len(grown.fds) = Len(sel.fds) /\ grown.moved = FALSE
    BY <1>1, <1>4, <1>6, ServerFdInTable
  <2>7. closed' \subseteq Fds /\ pc' = pc /\ UNCHANGED <<initial, channel, fault>>
    BY <2>1 DEF TypeOK
  <2>8. Len(sel.fds) <= Len(sel'.fds)
    BY <1>4, <1>6, <2>4
  <2> QED
    BY <1>1, <2>4, <2>5, <2>6, <2>7, <2>8, NewTable
<1> QED
  BY <1>3, <1>5, <1>6

\* The other calls of the users on the table.
LEMMA UserCallKeepsTable ==
  ASSUME TypeOK, TableInv, UserCall
  PROVE  TypeOK' /\ TableInv'
<1>1. PICK fd \in Fds :
        \/ selector_unregister_fd(fd) \/ CloseRegistered(fd) \/ StartJob(fd)
        \/ \E interest \in Interests :
             selector_register(fd, interest) \/ selector_set_interest(fd, interest)
  BY DEF UserCall
<1>2. Exists /\ TableOK(sel)
  BY <1>1 DEF selector_unregister_fd, CloseRegistered, StartJob, selector_register,
     selector_set_interest, InUserCode, Exists, TableInv
<1>3. ASSUME ~InTable(fd), Fail("outside_table")
      PROVE  TypeOK' /\ TableInv'
  BY <1>2, <1>3, ServerFdInTable, FailKeepsTable
<1>4. walk \in WalkType /\ closed \subseteq Fds
  BY DEF TypeOK, WalkType
<1>5. sel.fds \in Seq(Item) /\ Len(sel.fds) \in Nat
  BY <1>2, LenProperties DEF TableOK, SelType
<1>6. CASE selector_unregister_fd(fd)
  <2>1. CASE ~InTable(fd)
    BY <1>3, <1>6, <2>1 DEF selector_unregister_fd
  <2>2. CASE InTable(fd)
    <3>1. /\ ITEM_USED(fd) /\ sel' = Unregistered(sel, fd) /\ closed' = closed \ {fd}
          /\ UNCHANGED <<walk, pc, initial, channel, fault>>
      BY <1>6, <2>2 DEF selector_unregister_fd
    <3>2. fd \in UsedIn(sel)
      BY <2>2, <3>1, UsedIsUsedIn
    <3>3. TableOK(sel') /\ Len(sel'.fds) = Len(sel.fds)
      BY <1>2, <3>1, <3>2, UnregisteredKeepsTable
    <3> QED
      BY <1>2, <1>4, <1>5, <3>1, <3>3, NewTable
  <2> QED
    BY <2>1, <2>2
<1>7. ASSUME NEW interest \in Interests, selector_set_interest(fd, interest)
      PROVE  TypeOK' /\ TableInv'
  <2>1. CASE ~InTable(fd)
    BY <1>3, <1>7, <2>1 DEF selector_set_interest
  <2>2. CASE InTable(fd)
    <3>1. /\ ITEM_USED(fd) /\ sel' = WithInterest(sel, fd, interest)
          /\ UNCHANGED <<walk, pc, initial, closed, channel, fault>>
      BY <1>7, <2>2 DEF selector_set_interest, WithInterest
    <3>2. fd \in UsedIn(sel)
      BY <2>2, <3>1, UsedIsUsedIn
    <3>3. interest \in SUBSET {READ, WRITE}
      BY SelectorAssumption DEF READ, WRITE
    <3>4. TableOK(sel') /\ Len(sel'.fds) = Len(sel.fds)
      BY <1>2, <3>1, <3>2, <3>3, InterestKeepsTable
    <3> QED
      BY <1>2, <1>4, <1>5, <3>1, <3>4, NewTable
  <2> QED
    BY <2>1, <2>2
<1>8. CASE CloseRegistered(fd)
  <2>1. closed' = {fd} /\ UNCHANGED <<sel, walk, pc, initial, channel, fault>>
    BY <1>8 DEF CloseRegistered
  <2> QED
    BY <1>2, <1>4, <1>5, <2>1, NewTable
<1>9. CASE StartJob(fd)
  <2>1. /\ UNCHANGED <<table, jobs, rest, mutex, signal, next, owed>>
        /\ wpc' = [wpc EXCEPT ![fd] = "working"]
    BY <1>9 DEF StartJob
  <2>2. TypeOK'
    BY <2>1 DEF TypeOK, table, fd_size
  <2>3. TableInv'
    BY <2>1, PlaceOnly, <1>2 DEF table, Exists
  <2> QED
    BY <2>2, <2>3
<1> QED
  BY <1>1, <1>6, <1>7, <1>8, <1>9, RegisterKeepsTable

\* A step of the loop that moves the walk on, inside the table.
LEMMA NewWalk ==
  ASSUME TypeOK, TableInv, Exists, walk' \in WalkType, walk'.n < Len(sel.fds),
         initial = ITEMS_MAX_SIZE => walk'.moved = FALSE,
         pc' \in {"read", "on_read", "write", "on_write", "notify"},
         UNCHANGED <<sel, initial, closed, channel, fault>>
  PROVE  TypeOK' /\ TableInv'
<1>1. TypeOK'
  BY DEF TypeOK, channel, fd_size, WalkType
<1>2. sel' = sel /\ TableOK(sel)
  BY DEF TableInv
<1>3. WalkIsInTable' /\ ServerTableIsLarge'
  BY <1>2 DEF WalkIsInTable, ServerTableIsLarge, Exists, TableInv, fd_size
<1> QED
  BY <1>1, <1>2, <1>3 DEF TableInv

\* The limit of the walk is inside the table, and so is max_fd when the walk
\* starts.
LEMMA LimitInTable ==
  ASSUME TypeOK, TableInv, Exists
  PROVE  walk.n < Len(sel.fds) /\ sel.max_fd < Len(sel.fds)
<1>1. walk.n < Len(sel.fds) /\ walk.n \in Nat /\ Len(sel.fds) \in Nat
  BY LenProperties DEF TableInv, WalkIsInTable, fd_size, TypeOK
<1>2. sel.max_fd = 0 \/ sel.max_fd \in UsedIn(sel)
  BY DEF TableInv, TableOK, MaxFdIsTight
<1> QED
  BY <1>1, <1>2 DEF UsedIn

\* pselect returns, and the two halves of handle_iteration.
LEMMA IterationKeepsTable ==
  ASSUME TypeOK, TableInv,
         \/ \E r \in SUBSET sel.master_r, w \in SUBSET sel.master_w : SelectReturns(r, w)
         \/ handle_iteration_read \/ handle_iteration_write
  PROVE  TypeOK' /\ TableInv'
<1>1. Exists
  BY DEF Exists, SelectReturns, handle_iteration_read, handle_iteration_write
<1>2. /\ walk \in WalkType /\ walk.i \in Nat
      /\ initial = ITEMS_MAX_SIZE => walk.moved = FALSE
  BY DEF TypeOK, WalkType, TableInv, ServerTableIsLarge
<1>3. walk.n < Len(sel.fds) /\ sel.max_fd < Len(sel.fds)
  BY <1>1, LimitInTable
<1>4. \A i \in Nat : /\ From(walk, i) \in WalkType /\ From(walk, i).n = walk.n
                     /\ From(walk, i).moved = FALSE
  BY <1>2, FromIsWalk
<1>5. ASSUME NEW r \in SUBSET sel.master_r, NEW w \in SUBSET sel.master_w,
             SelectReturns(r, w)
      PROVE  TypeOK' /\ TableInv'
  <2> DEFINE I == 0..ITEMS_MAX_SIZE
             N == 0..(ITEMS_MAX_SIZE - 1)
  <2>1. /\ walk' = [NoWalk EXCEPT !.n = sel.max_fd, !.slave_r = r, !.slave_w = w]
        /\ pc' = "read" /\ UNCHANGED <<sel, initial, closed, channel, fault>>
    BY <1>5 DEF SelectReturns
  <2>2. /\ NoWalk \in [i : I, n : N, moved : BOOLEAN, slave_r : SUBSET Fds, slave_w : SUBSET Fds]
        /\ NoWalk.moved = FALSE
    BY NoWalkType DEF WalkType
  <2>3. sel.max_fd \in N /\ r \in SUBSET Fds /\ w \in SUBSET Fds
    BY DEF TypeOK
  <2> HIDE DEF I, N
  <2>4. walk' \in WalkType /\ walk'.n = sel.max_fd /\ walk'.moved = FALSE
    BY <2>1, <2>2, <2>3 DEF WalkType, I, N
  <2> QED
    BY <1>1, <1>3, <2>1, <2>4, NewWalk
<1>6. CASE handle_iteration_read
  <2>1. UNCHANGED <<sel, initial, closed, channel, fault>>
    BY <1>6 DEF handle_iteration_read
  <2>2. pc' \in {"read", "on_read", "write", "on_write", "notify"}
    BY <1>6 DEF handle_iteration_read
  <2>3. \/ walk' = NoWalk \/ walk' = From(walk, walk.i)
        \/ walk' = [walk EXCEPT !.slave_r = @ \ {walk.i}]
    BY <1>6 DEF handle_iteration_read
  <2>4. CASE walk' = NoWalk
    <3>1. NoWalk.n < Len(sel.fds)
      BY <1>2, <1>3, NoWalkType, LenProperties DEF TypeOK
    <3> QED
      BY <1>1, <2>1, <2>2, <2>4, <3>1, NoWalkType, NewWalk
  <2>5. CASE walk' = From(walk, walk.i)
    BY <1>1, <1>2, <1>3, <1>4, <2>1, <2>2, <2>5, NewWalk
  <2>6. CASE walk' = [walk EXCEPT !.slave_r = @ \ {walk.i}]
    <3> DEFINE I == 0..ITEMS_MAX_SIZE
               N == 0..(ITEMS_MAX_SIZE - 1)
               left == walk.slave_r \ {walk.i}
    <3>1. walk \in [i : I, n : N, moved : BOOLEAN, slave_r : SUBSET Fds, slave_w : SUBSET Fds]
      BY <1>2 DEF WalkType
    <3>2. left \in SUBSET Fds /\ walk' = [walk EXCEPT !.slave_r = left]
      BY <2>6, <3>1
    <3> HIDE DEF I, N, left
    <3>3. walk' \in WalkType /\ walk'.n = walk.n /\ walk'.moved = walk.moved
      BY <3>1, <3>2 DEF WalkType, I, N
    <3> QED
      BY <1>1, <1>2, <1>3, <2>1, <2>2, <3>3, NewWalk
  <2> QED
    BY <2>3, <2>4, <2>5, <2>6
<1>7. CASE handle_iteration_write
  <2>1. CASE walk.i \in walk.slave_w /\ walk.moved
    <3>1. Fail("stale_item") /\ initial # ITEMS_MAX_SIZE
      BY <1>2, <1>7, <2>1 DEF handle_iteration_write
    <3> QED
      BY <3>1, FailKeepsTable
  <2>2. CASE ~(walk.i \in walk.slave_w /\ walk.moved)
    <3>1. /\ UNCHANGED <<sel, initial, closed, channel, fault>>
          /\ walk' = From(walk, walk.i + 1)
          /\ pc' \in {"read", "on_read", "write", "on_write", "notify"}
      BY <1>7, <2>2 DEF handle_iteration_write
    <3>2. walk.i + 1 \in Nat
      BY <1>2
    <3> QED
      BY <1>1, <1>3, <1>4, <3>1, <3>2, NewWalk
  <2> QED
    BY <2>1, <2>2
<1> QED
  BY <1>5, <1>6, <1>7

\* The steps of the loop that touch the channel or only move on.
LEMMA LoopKeepsTable ==
  ASSUME TypeOK, TableInv, LoopStep
  PROVE  TypeOK' /\ TableInv'
<1>1. CASE \/ \E r \in SUBSET sel.master_r, w \in SUBSET sel.master_w : SelectReturns(r, w)
           \/ handle_iteration_read \/ handle_iteration_write
  BY <1>1, IterationKeepsTable
<1>2. CASE selector_select \/ SelectInterrupted \/ SelectFails \/ HandlerReturns
           \/ handle_block_notifications \/ notifications_done
  <2>1. /\ UNCHANGED <<sel, walk, initial, closed, fault>>
        /\ pc \in {"setup", "loop", "pselect", "on_read", "on_write", "on_block",
                   "notify", "deliver"}
        /\ pc' \in {"pselect", "notify", "loop", "write", "read", "deliver"}
    BY <1>2 DEF selector_select, SelectInterrupted, SelectFails, HandlerReturns,
       handle_block_notifications, notifications_done
  <2>2. UNCHANGED <<wpc, next, owed>>
    BY <1>2 DEF selector_select, SelectInterrupted, SelectFails, HandlerReturns,
       handle_block_notifications, notifications_done, channel
  <2>3. jobs' \in {jobs, <<>>} /\ rest' \in {rest, jobs}
        /\ mutex' \in {mutex, "free", "selector"} /\ signal' \in {signal, FALSE}
    BY <1>2 DEF selector_select, SelectInterrupted, SelectFails, HandlerReturns,
       handle_block_notifications, notifications_done, channel
  <2>4. jobs' \in Seq(Fds) /\ rest' \in Seq(Fds)
    BY <2>3, EmptySeq DEF TypeOK
  <2>6. signal' \in BOOLEAN
    BY <2>3 DEF TypeOK
  <2>5. TypeOK'
    BY <2>1, <2>2, <2>3, <2>4, <2>6 DEF TypeOK, fd_size
  <2> QED
    BY <2>1, <2>5, PlaceOnly
<1>3. CASE deliver_job
  <2>1. Exists /\ rest \in Seq(Fds) /\ rest # <<>> /\ Head(rest) \in Fds
        /\ Tail(rest) \in Seq(Fds)
    BY <1>3, HeadTailProperties DEF deliver_job, Exists, TypeOK
  <2>2. CASE ~InTable(Head(rest))
    <3>1. Fail("outside_table")
      BY <1>3, <2>2 DEF deliver_job
    <3> QED
      BY <2>1, <2>2, <3>1, ServerFdInTable, FailKeepsTable
  <2>3. CASE InTable(Head(rest))
    <3>1. /\ pc = "deliver" /\ pc' \in {"on_block", "deliver"}
          /\ rest' = Tail(rest) /\ owed' = owed \ {Head(rest)}
          /\ UNCHANGED <<sel, walk, initial, closed, jobs, mutex, signal, wpc, next, fault>>
      BY <1>3, <2>3 DEF deliver_job
    <3>2. TypeOK'
      BY <2>1, <3>1 DEF TypeOK, fd_size
    <3> QED
      BY <3>1, <3>2, PlaceOnly
  <2> QED
    BY <2>2, <2>3
<1> QED
  BY <1>1, <1>2, <1>3 DEF LoopStep

\* Workers do not touch the table.
LEMMA WorkerKeepsTable ==
  ASSUME TypeOK, TableInv, NEW w \in Fds, WorkerStep(w)
  PROVE  TypeOK' /\ TableInv'
<1>1. UNCHANGED table
  BY DEF WorkerStep, notify_malloc, notify_lock, notify_push, notify_kill
<1>2. wpc' \in [Fds -> {"idle", "working", "lock", "push", "kill"}]
  BY DEF WorkerStep, notify_malloc, notify_lock, notify_push, notify_kill, TypeOK
<1>3. next' \in [Fds -> Seq(Fds)]
  <2>1. next' = next \/ next' = [next EXCEPT ![w] = jobs] \/ next' = [next EXCEPT ![w] = <<>>]
    BY DEF WorkerStep, notify_malloc, notify_lock, notify_push, notify_kill
  <2>2. jobs \in Seq(Fds) /\ <<>> \in Seq(Fds) /\ next \in [Fds -> Seq(Fds)]
    BY EmptySeq DEF TypeOK
  <2> QED
    BY <2>1, <2>2
<1>4. jobs' \in Seq(Fds)
  <2>1. jobs' = jobs \/ jobs' = <<w>> \o next[w]
    BY DEF WorkerStep, notify_malloc, notify_lock, notify_push, notify_kill
  <2>2. jobs \in Seq(Fds) /\ next[w] \in Seq(Fds) /\ <<w>> \in Seq(Fds)
    BY DEF TypeOK
  <2> QED
    BY <2>1, <2>2, ConcatProperties
<1>5. rest' = rest /\ owed' \subseteq Fds /\ mutex' \in {"free", "selector", "worker"}
  BY DEF WorkerStep, notify_malloc, notify_lock, notify_push, notify_kill, TypeOK
<1>6. signal' \in BOOLEAN
  BY DEF WorkerStep, notify_malloc, notify_lock, notify_push, notify_kill, TypeOK
<1>7. TypeOK'
  BY <1>1, <1>2, <1>3, <1>4, <1>5, <1>6 DEF TypeOK, table, fd_size
<1>8. TableInv'
  BY <1>1 DEF table, TableInv, WalkIsInTable, ServerTableIsLarge, Exists, fd_size
<1> QED
  BY <1>7, <1>8

\* selector_destroy unregisters item by item, then frees the array.
LEMMA DestroyKeepsTable ==
  ASSUME TypeOK, TableInv, selector_destroy
  PROVE  TypeOK' /\ TableInv'
<1>1. Exists /\ TableOK(sel) /\ Used = UsedIn(sel)
  BY UsedIsUsedIn DEF selector_destroy, Exists, TableInv
<1>2. sel.fds \in Seq(Item) /\ Len(sel.fds) \in Nat /\ walk \in WalkType /\ closed \subseteq Fds
  BY LenProperties DEF TypeOK, WalkType
<1>3. CASE Used # {}
  <2>1. /\ sel' = Unregistered(sel, Min(Used)) /\ closed' = closed \ {Min(Used)}
        /\ pc' = "destroy" /\ UNCHANGED <<walk, initial, channel, fault>>
    BY <1>3 DEF selector_destroy
  <2>2. Used \subseteq Nat
    BY FdIsNat DEF Used
  <2>3. Min(Used) \in UsedIn(sel)
    BY <1>1, <1>3, <2>2, MinIsLeast
  <2>4. TableOK(sel') /\ Len(sel'.fds) = Len(sel.fds)
    BY <1>1, <2>1, <2>3, UnregisteredKeepsTable
  <2> QED
    BY <1>1, <1>2, <2>1, <2>4, NewTable
<1>4. CASE Used = {} /\ jobs # <<>>
  <2>1. Fail("freed_job")
    BY <1>4 DEF selector_destroy
  <2> QED
    BY <2>1, FailKeepsTable
<1>5. CASE Used = {} /\ jobs = <<>>
  <2>1. /\ sel' = [sel EXCEPT !.fds = <<>>] /\ pc' = "exited"
        /\ UNCHANGED <<walk, initial, closed, channel, fault>>
    BY <1>5 DEF selector_destroy
  <2>2. /\ sel' \in SelType /\ sel'.fds = <<>> /\ sel'.max_fd = sel.max_fd
        /\ sel'.master_r = sel.master_r /\ sel'.master_w = sel.master_w
    <3> DEFINE S == Seq(Item)
               M == 0..(ITEMS_MAX_SIZE - 1)
    <3>1. sel \in [fds : S, max_fd : M, master_r : SUBSET Fds, master_w : SUBSET Fds]
      BY DEF TypeOK
    <3>2. <<>> \in S
      OBVIOUS
    <3> HIDE DEF S, M
    <3> QED
      BY <2>1, <3>1, <3>2 DEF SelType, S, M
  <2>3. Len(sel'.fds) = 0 /\ UsedIn(sel') = {}
    BY <2>2, FdIsNat DEF UsedIn
  <2>4. UsedIn(sel) = {} /\ MaxFdIsTight(sel) /\ MasterIsInterest(sel)
    BY <1>1, <1>5 DEF TableOK
  <2>5. TableOK(sel')
    <3>1. MaxFdIsTight(sel') /\ MasterIsInterest(sel')
      BY <2>2, <2>3, <2>4 DEF MaxFdIsTight, MasterIsInterest
    <3>2. ItemsAreUsersOrWiped(sel')
      BY <2>3 DEF ItemsAreUsersOrWiped
    <3> QED
      BY <2>2, <2>3, <3>1, <3>2, SelectorAssumption DEF TableOK
  <2>6. TypeOK'
    <3>1. pc' \in {"destroy", "exited"} /\ UNCHANGED <<walk, initial, closed, channel, fault>>
      BY <2>1
    <3> QED
      BY <2>5, <3>1 DEF TypeOK, TableOK, SelType, channel, fd_size
  <2>7. WalkIsInTable' /\ ServerTableIsLarge'
    BY <2>1, <2>2 DEF WalkIsInTable, ServerTableIsLarge, Exists, TableInv
  <2> QED
    BY <2>5, <2>6, <2>7 DEF TableInv
<1> QED
  BY <1>3, <1>4, <1>5

-----------------------------------------------------------------------------
(* Every step keeps the channel half of the invariant.                     *)

\* There are finitely many descriptors.
LEMMA FdsFinite ==
  ASSUME NEW T, T \subseteq Fds
  PROVE  IsFiniteSet(T)
<1>1. IsFiniteSet(0..(ITEMS_MAX_SIZE - 1)) /\ T \subseteq 0..(ITEMS_MAX_SIZE - 1)
  BY FS_Interval, SelectorAssumption
<1> QED
  BY <1>1, FS_Subset

\* Inserting a job that is not on the list.
LEMMA ListsPush ==
  ASSUME NEW list \in Seq(Fds), NEW o \in SUBSET Fds, NEW w \in Fds, w \notin o, Lists(list, o)
  PROVE  Lists(<<w>> \o list, o \cup {w})
<1> DEFINE new == <<w>> \o list
<1>1. Len(list) \in Nat /\ \A k \in 1..Len(list) : list[k] \in o
  BY LenProperties DEF Lists
<1>2. /\ Len(new) = Len(list) + 1 /\ new[1] = w
      /\ \A k \in 2..Len(new) : new[k] = list[k - 1] /\ k - 1 \in 1..Len(list)
  BY <1>1
<1> HIDE DEF new
<1>3. {new[k] : k \in 1..Len(new)} = o \cup {w}
  <2>1. ASSUME NEW k \in 1..Len(new)
        PROVE  new[k] \in o \cup {w}
    <3>1. k = 1 \/ k \in 2..Len(new)
      BY <1>1, <1>2
    <3> QED
      BY <1>1, <1>2, <3>1
  <2>2. ASSUME NEW v \in o
        PROVE  \E k \in 1..Len(new) : new[k] = v
    <3>1. PICK k \in 1..Len(list) : list[k] = v
      BY DEF Lists
    <3>2. k + 1 \in 2..Len(new) /\ (k + 1) - 1 = k /\ k + 1 \in 1..Len(new)
      BY <1>1, <1>2
    <3> QED
      BY <1>2, <3>1, <3>2
  <2>3. 1 \in 1..Len(new)
    BY <1>1, <1>2
  <2> QED
    BY <1>2, <2>1, <2>2, <2>3
<1>4. ASSUME NEW j \in 1..Len(new), NEW k \in 1..Len(new), new[j] = new[k]
      PROVE  j = k
  <2>1. (j = 1 \/ j \in 2..Len(new)) /\ (k = 1 \/ k \in 2..Len(new))
    BY <1>1, <1>2
  <2>2. CASE j \in 2..Len(new) /\ k \in 2..Len(new)
    <3>1. j - 1 = k - 1
      BY <1>2, <1>4, <2>2 DEF Lists
    <3> QED
      BY <1>1, <1>2, <3>1
  <2> QED
    BY <1>1, <1>2, <1>4, <2>1, <2>2
<1>5. Cardinality(o \cup {w}) = Len(new)
  <2>1. Cardinality(o) = Len(list)
    BY DEF Lists
  <2>2. Cardinality(o \cup {w}) = Cardinality(o) + 1
    BY FdsFinite, FS_AddElement
  <2> QED
    BY <1>1, <1>2, <2>1, <2>2
<1> QED
  BY <1>3, <1>4, <1>5 DEF Lists, new

\* Taking the first job off the list.
LEMMA ListsTail ==
  ASSUME NEW list \in Seq(Fds), list # <<>>, NEW o \in SUBSET Fds, Lists(list, o)
  PROVE  Lists(Tail(list), o \ {Head(list)})
<1> DEFINE new == Tail(list)
<1>1. /\ Len(list) \in Nat /\ Len(list) >= 1 /\ Head(list) = list[1]
      /\ Len(new) = Len(list) - 1
      /\ \A k \in 1..Len(new) : new[k] = list[k + 1] /\ k + 1 \in 1..Len(list)
  BY EmptySeq, LenProperties, HeadTailProperties
<1> HIDE DEF new
<1>2. 1 \in 1..Len(list) /\ Head(list) \in o
  BY <1>1 DEF Lists
<1>3. {new[k] : k \in 1..Len(new)} = o \ {Head(list)}
  <2>1. ASSUME NEW k \in 1..Len(new)
        PROVE  new[k] \in o \ {Head(list)}
    <3>1. new[k] = list[k + 1] /\ k + 1 \in 1..Len(list) /\ k + 1 # 1
      BY <1>1
    <3> QED
      BY <1>1, <1>2, <3>1 DEF Lists
  <2>2. ASSUME NEW v \in o, v # Head(list)
        PROVE  \E k \in 1..Len(new) : new[k] = v
    <3>1. PICK k \in 1..Len(list) : list[k] = v
      BY DEF Lists
    <3>2. k # 1
      BY <1>1, <2>2, <3>1
    <3>3. k - 1 \in 1..Len(new) /\ (k - 1) + 1 = k
      BY <1>1, <3>2
    <3> QED
      BY <1>1, <3>1, <3>3
  <2> QED
    BY <2>1, <2>2
<1>4. ASSUME NEW j \in 1..Len(new), NEW k \in 1..Len(new), new[j] = new[k]
      PROVE  j = k
  <2>1. j + 1 = k + 1
    BY <1>1, <1>4 DEF Lists
  <2> QED
    BY <1>1, <2>1
<1>5. Cardinality(o \ {Head(list)}) = Len(new)
  <2>1. Cardinality(o) = Len(list)
    BY DEF Lists
  <2>2. Cardinality(o \ {Head(list)}) = Cardinality(o) - 1
    BY <1>2, FdsFinite, FS_RemoveElement
  <2> QED
    BY <1>1, <2>1, <2>2
<1> QED
  BY <1>3, <1>4, <1>5 DEF Lists, new

\* Nothing of the channel changes, and the selector's thread neither enters
\* nor leaves the walk of the list, nor turns away from looking at it.
LEMMA ChannelQuiet ==
  ASSUME ChannelInv, UNCHANGED channel,
         pc \in {"deliver", "on_block"} <=> pc' \in {"deliver", "on_block"},
         pc = "notify" => pc' = "notify"
  PROVE  ChannelInv'
<1>1. UNCHANGED <<jobs, rest, mutex, signal, wpc, next, owed>>
  BY DEF channel
<1>2. MutexDiscipline'
  BY <1>1 DEF ChannelInv, MutexDiscipline
<1>3. JobsOnce'
  BY <1>1 DEF ChannelInv, JobsOnce, Pending
<1>4. SignalFollowsJobs'
  BY <1>1 DEF ChannelInv, SignalFollowsJobs
<1> QED
  BY <1>2, <1>3, <1>4 DEF ChannelInv

\* The calls of the users and the steps of the selector's thread that do not
\* look at the list.
LEMMA OthersKeepChannel ==
  ASSUME TypeOK, ChannelInv,
         \/ init_selector \/ selector_destroy \/ selector_select \/ SelectFails
         \/ \E r \in SUBSET sel.master_r, w \in SUBSET sel.master_w : SelectReturns(r, w)
         \/ handle_iteration_read \/ handle_iteration_write \/ HandlerReturns
         \/ \E fd \in Fds, interest \in Interests :
              selector_register(fd, interest) \/ selector_set_interest(fd, interest)
         \/ \E fd \in Fds : selector_unregister_fd(fd) \/ CloseRegistered(fd)
  PROVE  ChannelInv'
<1>1. CASE init_selector \/ selector_destroy \/ selector_select \/ SelectFails
  <2>1. UNCHANGED channel
    BY <1>1 DEF init_selector, selector_destroy, selector_select, SelectFails, Fail
  <2>2. pc' = pc \/ /\ pc \in {"start", "setup", "loop", "destroy", "pselect"}
                    /\ pc' \in {"setup", "exited", "destroy", "pselect", "loop"}
    BY <1>1 DEF init_selector, selector_destroy, selector_select, SelectFails, Fail
  <2> QED
    BY <2>1, <2>2, ChannelQuiet
<1>2. CASE \/ \E r \in SUBSET sel.master_r, w \in SUBSET sel.master_w : SelectReturns(r, w)
           \/ handle_iteration_read \/ handle_iteration_write
  <2>1. UNCHANGED channel
    BY <1>2 DEF SelectReturns, handle_iteration_read, handle_iteration_write, Fail
  <2>2. /\ pc \in {"pselect", "read", "write"}
        /\ pc' \in {"read", "write", "on_read", "on_write", "notify"}
    BY <1>2 DEF SelectReturns, handle_iteration_read, handle_iteration_write, Fail
  <2> QED
    BY <2>1, <2>2, ChannelQuiet
<1>3. CASE HandlerReturns
  BY <1>3, ChannelQuiet DEF HandlerReturns
<1>4. ASSUME NEW fd \in Fds, NEW interest \in Interests,
             selector_register(fd, interest) \/ selector_set_interest(fd, interest)
      PROVE  ChannelInv'
  <2>1. UNCHANGED channel /\ pc' = pc
    BY <1>4 DEF selector_register, selector_set_interest, Fail, vars, table
  <2> QED
    BY <2>1, ChannelQuiet
<1>5. ASSUME NEW fd \in Fds, selector_unregister_fd(fd) \/ CloseRegistered(fd)
      PROVE  ChannelInv'
  <2>1. UNCHANGED channel /\ pc' = pc
    BY <1>5 DEF selector_unregister_fd, CloseRegistered, Fail
  <2> QED
    BY <2>1, ChannelQuiet
<1> QED
  BY <1>1, <1>2, <1>3, <1>4, <1>5

\* A handler starts a worker; the worker allocates its job or gives up.
LEMMA WorkersStart ==
  ASSUME TypeOK, ChannelInv, NEW w \in Fds, StartJob(w) \/ notify_malloc(w)
  PROVE  ChannelInv'
<1>1. UNCHANGED <<pc, jobs, rest, mutex, signal, next, owed>> /\ w \notin owed
  BY DEF StartJob, notify_malloc, table, ChannelInv, JobsOnce
<1>2. PICK now \in {"working", "lock", "idle"} : wpc' = [wpc EXCEPT ![w] = now]
  BY DEF StartJob, notify_malloc
<1>3. \A v \in Fds : wpc'[v] = IF v = w THEN now ELSE wpc[v]
  BY <1>2 DEF TypeOK
<1>4. wpc[w] # "kill"
  BY DEF StartJob, notify_malloc
<1>5. MutexDiscipline'
  BY <1>1, <1>3 DEF ChannelInv, MutexDiscipline
<1>6. JobsOnce'
  BY <1>1, <1>3 DEF ChannelInv, JobsOnce, Pending
<1>7. SignalFollowsJobs'
  BY <1>1, <1>3, <1>4 DEF ChannelInv, SignalFollowsJobs
<1> QED
  BY <1>5, <1>6, <1>7 DEF ChannelInv

\* The worker takes the mutex, and reads the list.
LEMMA NotifyLock ==
  ASSUME TypeOK, ChannelInv, NEW w \in Fds, notify_lock(w)
  PROVE  ChannelInv'
<1>1. /\ mutex = "free" /\ mutex' = "worker" /\ wpc[w] = "lock"
      /\ UNCHANGED <<pc, jobs, rest, signal, owed>>
  BY DEF notify_lock, table
<1>2. \A v \in Fds : /\ wpc'[v] = IF v = w THEN "push" ELSE wpc[v]
                     /\ next'[v] = IF v = w THEN jobs ELSE next[v]
  BY DEF notify_lock, TypeOK
<1>3. \A v \in Fds : wpc[v] # "push"
  BY <1>1 DEF ChannelInv, MutexDiscipline
<1>4. MutexDiscipline'
  BY <1>1, <1>2, <1>3 DEF ChannelInv, MutexDiscipline
<1>5. JobsOnce'
  BY <1>1, <1>2 DEF ChannelInv, JobsOnce, Pending
<1>6. SignalFollowsJobs'
  BY <1>1, <1>2 DEF ChannelInv, SignalFollowsJobs
<1> QED
  BY <1>4, <1>5, <1>6 DEF ChannelInv

\* The worker inserts its job: what it read is still the list.
LEMMA NotifyPush ==
  ASSUME TypeOK, ChannelInv, NEW w \in Fds, notify_push(w)
  PROVE  ChannelInv'
<1>1. /\ wpc[w] = "push" /\ mutex' = "free" /\ jobs' = <<w>> \o next[w]
      /\ owed' = owed \cup {w} /\ UNCHANGED <<pc, rest, signal>>
  BY DEF notify_push, table
<1>2. \A v \in Fds : /\ wpc'[v] = IF v = w THEN "kill" ELSE wpc[v]
                     /\ next'[v] = IF v = w THEN <<>> ELSE next[v]
  BY DEF notify_push, TypeOK
<1>3. /\ mutex = "worker" /\ next[w] = jobs /\ w \notin owed
      /\ \A v \in Fds : wpc[v] = "push" => v = w
  BY <1>1 DEF ChannelInv, MutexDiscipline, JobsOnce
<1>4. pc \notin {"deliver", "on_block"}
  BY <1>3 DEF ChannelInv, MutexDiscipline
<1>5. MutexDiscipline'
  BY <1>1, <1>2, <1>3, <1>4 DEF MutexDiscipline
<1>6. Lists(jobs', owed')
  <2>1. Lists(jobs, owed) /\ jobs \in Seq(Fds) /\ owed \in SUBSET Fds
    BY <1>4 DEF ChannelInv, JobsOnce, Pending, TypeOK
  <2> QED
    BY <1>1, <1>3, <2>1, ListsPush
<1>7. \A v \in Fds : wpc'[v] \in {"working", "lock", "push"} => v \notin owed'
  BY <1>1, <1>2 DEF ChannelInv, JobsOnce
<1>8. JobsOnce'
  BY <1>1, <1>4, <1>6, <1>7 DEF JobsOnce, Pending
<1>9. SignalFollowsJobs'
  BY <1>2 DEF SignalFollowsJobs
<1> QED
  BY <1>5, <1>8, <1>9 DEF ChannelInv

\* The worker sends the signal, which stays pending outside pselect.
LEMMA NotifyKill ==
  ASSUME TypeOK, ChannelInv, NEW w \in Fds, notify_kill(w)
  PROVE  ChannelInv'
<1>1. signal' = TRUE
  BY DEF notify_kill, blocked_outside_pselect
<1>2. wpc[w] = "kill" /\ UNCHANGED <<pc, jobs, rest, mutex, next, owed>>
  BY DEF notify_kill, table
<1>3. \A v \in Fds : wpc'[v] = IF v = w THEN "idle" ELSE wpc[v]
  BY DEF notify_kill, TypeOK
<1>4. MutexDiscipline'
  BY <1>2, <1>3 DEF ChannelInv, MutexDiscipline
<1>5. JobsOnce'
  BY <1>2, <1>3 DEF ChannelInv, JobsOnce, Pending
<1>6. SignalFollowsJobs'
  BY <1>1 DEF SignalFollowsJobs
<1> QED
  BY <1>4, <1>5, <1>6 DEF ChannelInv

\* The selector's thread at the list: woken by the signal, it takes the
\* mutex, delivers what is there and empties the list.
LEMMA NotificationsKeepChannel ==
  ASSUME TypeOK, ChannelInv,
         SelectInterrupted \/ handle_block_notifications \/ deliver_job \/ notifications_done
  PROVE  ChannelInv'
<1>1. CASE SelectInterrupted
  <2>1. /\ pc = "pselect" /\ pc' = "notify"
        /\ UNCHANGED <<jobs, rest, mutex, wpc, next, owed>>
    BY <1>1 DEF SelectInterrupted
  <2> QED
    BY <2>1 DEF ChannelInv, MutexDiscipline, JobsOnce, Pending, SignalFollowsJobs
<1>2. CASE handle_block_notifications
  <2>1. /\ pc = "notify" /\ pc' = "deliver" /\ mutex = "free" /\ mutex' = "selector"
        /\ rest' = jobs /\ UNCHANGED <<jobs, signal, wpc, next, owed>>
    BY <1>2 DEF handle_block_notifications
  <2>2. \A w \in Fds : wpc[w] # "push"
    BY <2>1 DEF ChannelInv, MutexDiscipline
  <2> QED
    BY <2>1, <2>2 DEF ChannelInv, MutexDiscipline, JobsOnce, Pending, SignalFollowsJobs
<1>3. CASE deliver_job
  <2>1. CASE ~InTable(Head(rest))
    <3>1. UNCHANGED channel /\ pc' = pc
      BY <1>3, <2>1 DEF deliver_job, Fail
    <3> QED
      BY <3>1, ChannelQuiet
  <2>2. CASE InTable(Head(rest))
    <3>1. /\ pc = "deliver" /\ pc' \in {"deliver", "on_block"} /\ rest # <<>>
          /\ rest' = Tail(rest) /\ owed' = owed \ {Head(rest)}
          /\ UNCHANGED <<jobs, mutex, signal, wpc, next>>
      BY <1>3, <2>2 DEF deliver_job
    <3>2. MutexDiscipline' /\ SignalFollowsJobs'
      BY <3>1 DEF ChannelInv, MutexDiscipline, SignalFollowsJobs
    <3>3. Lists(rest', owed')
      <4>1. Lists(rest, owed) /\ rest \in Seq(Fds) /\ owed \in SUBSET Fds
        BY <3>1 DEF ChannelInv, JobsOnce, Pending, TypeOK
      <4> QED
        BY <3>1, <4>1, ListsTail
    <3>4. JobsOnce'
      BY <3>1, <3>3 DEF ChannelInv, JobsOnce, Pending
    <3> QED
      BY <3>2, <3>4 DEF ChannelInv
  <2> QED
    BY <2>1, <2>2
<1>4. CASE notifications_done
  <2>1. /\ pc = "deliver" /\ pc' = "loop" /\ rest = <<>> /\ jobs' = <<>> /\ mutex' = "free"
        /\ UNCHANGED <<rest, signal, wpc, next, owed>>
    BY <1>4 DEF notifications_done
  <2>2. \A w \in Fds : wpc[w] # "push"
    BY <2>1 DEF ChannelInv, MutexDiscipline
  <2>3. Lists(jobs', owed')
    BY <2>1 DEF ChannelInv, JobsOnce, Pending
  <2>4. JobsOnce'
    BY <2>1, <2>3 DEF ChannelInv, JobsOnce, Pending
  <2>5. MutexDiscipline' /\ SignalFollowsJobs'
    BY <2>1, <2>2 DEF ChannelInv, MutexDiscipline, SignalFollowsJobs
  <2> QED
    BY <2>4, <2>5 DEF ChannelInv
<1> QED
  BY <1>1, <1>2, <1>3, <1>4

-----------------------------------------------------------------------------
(* The theorems.                                                           *)

\* The program starts inside the invariant.
LEMMA InitInv == Init => Inv
<1> SUFFICES ASSUME Init
             PROVE  Inv
  OBVIOUS
<1>1. sel \in SelType /\ sel.fds = <<>> /\ Len(sel.fds) = 0 /\ sel.max_fd = 0
      /\ sel.master_r = {} /\ sel.master_w = {}
  BY SelectorAssumption DEF Init, SelType
<1>2. TypeOK
  <2>1. walk \in WalkType
    BY NoWalkType DEF Init
  <2>2. jobs \in Seq(Fds) /\ rest \in Seq(Fds) /\ next \in [Fds -> Seq(Fds)]
    BY DEF Init
  <2>3. wpc \in [Fds -> {"idle", "working", "lock", "push", "kill"}]
    BY DEF Init
  <2>4. Len(sel.fds) <= ITEMS_MAX_SIZE + 1
    BY <1>1, SelectorAssumption
  <2>5. pc = "start" /\ initial \in Initials /\ closed = {} /\ owed = {}
        /\ mutex = "free" /\ signal = FALSE /\ fault = "none"
    BY DEF Init
  <2> QED
    BY <1>1, <2>1, <2>2, <2>3, <2>4, <2>5 DEF TypeOK, fd_size, SelType, WalkType
<1>3. UsedIn(sel) = {}
  BY <1>1, FdIsNat DEF UsedIn
<1>4. TableOK(sel)
  BY <1>1, <1>3, SelectorAssumption
  DEF TableOK, ItemsAreUsersOrWiped, MaxFdIsTight, MasterIsInterest
<1>5. WalkIsInTable /\ ServerTableIsLarge
  BY <1>1, NoWalkType DEF Init, WalkIsInTable, ServerTableIsLarge, Exists
<1>6. Lists(jobs, owed)
  BY FS_EmptySet DEF Init, Lists
<1>7. ChannelInv
  BY <1>6 DEF Init, ChannelInv, MutexDiscipline, JobsOnce, Pending, SignalFollowsJobs
<1> QED
  BY <1>2, <1>4, <1>5, <1>7 DEF Inv, TableInv

\* Every step keeps it.
LEMMA NextInv == Inv /\ [Next]_vars => Inv'
<1> SUFFICES ASSUME Inv, [Next]_vars
             PROVE  Inv'
  OBVIOUS
<1>0. TypeOK /\ TableInv /\ ChannelInv
  BY DEF Inv
<1>1. CASE init_selector
  BY <1>0, <1>1, InitSelectorKeepsTable, OthersKeepChannel DEF Inv
<1>2. CASE UserCall
  <2>1. PICK fd \in Fds :
          \/ selector_unregister_fd(fd) \/ CloseRegistered(fd) \/ StartJob(fd)
          \/ \E interest \in Interests :
               selector_register(fd, interest) \/ selector_set_interest(fd, interest)
    BY <1>2 DEF UserCall
  <2>2. ChannelInv'
    BY <1>0, <2>1, OthersKeepChannel, WorkersStart
  <2> QED
    BY <1>0, <1>2, <2>2, UserCallKeepsTable DEF Inv
<1>3. CASE LoopStep
  <2>1. ChannelInv'
    BY <1>0, <1>3, OthersKeepChannel, NotificationsKeepChannel DEF LoopStep
  <2> QED
    BY <1>0, <1>3, <2>1, LoopKeepsTable DEF Inv
<1>4. CASE selector_destroy
  BY <1>0, <1>4, DestroyKeepsTable, OthersKeepChannel DEF Inv
<1>5. ASSUME NEW w \in Fds, WorkerStep(w)
      PROVE  Inv'
  <2>1. ChannelInv'
    BY <1>0, <1>5, WorkersStart, NotifyLock, NotifyPush, NotifyKill DEF WorkerStep
  <2> QED
    BY <1>0, <1>5, <2>1, WorkerKeepsTable DEF Inv
<1>6. CASE UNCHANGED vars
  <2>1. UNCHANGED table /\ UNCHANGED channel
    BY <1>6 DEF vars
  <2>2. TypeOK'
    BY <1>0, <2>1 DEF TypeOK, table, channel, fd_size
  <2>3. TableInv'
    BY <1>0, <2>1 DEF table, TableInv, WalkIsInTable, ServerTableIsLarge, Exists, fd_size
  <2>4. ChannelInv'
    BY <1>0, <2>1, ChannelQuiet DEF table
  <2> QED
    BY <2>2, <2>3, <2>4 DEF Inv
<1> QED
  BY <1>1, <1>2, <1>3, <1>4, <1>5, <1>6 DEF Next, Stopped

\* The inductive invariant holds of every behaviour of the selector.
THEOREM InvHolds == Spec => []Inv
  BY InitInv, NextInv, PTL DEF Spec

\* The fd_sets given to pselect and max_fd follow the table, whatever users
\* register, unregister and change, and however often the array is enlarged.
THEOREM MasterFollowsTable == Spec => []MasterMatchesTable
<1>1. Inv => MasterMatchesTable
  <2> SUFFICES ASSUME Inv
               PROVE  MasterMatchesTable
    OBVIOUS
  <2>1. TypeOK /\ MaxFdIsTight(sel) /\ MasterIsInterest(sel) /\ Used = UsedIn(sel)
    BY UsedIsUsedIn DEF Inv, TableInv, TableOK
  <2> QED
    BY <2>1 DEF MasterMatchesTable, MaxFdIsTight, MasterIsInterest, item
<1> QED
  BY <1>1, InvHolds, PTL

\* A selector created with FD_SETSIZE, as the server's is, never reads or
\* writes outside its array, nor through a pointer that realloc made stale.
THEOREM ServerStaysInTable == Spec => []ServerTableNeverLeft
<1>1. Inv => ServerTableNeverLeft
  BY DEF Inv, TableInv, ServerTableIsLarge, ServerTableNeverLeft
<1> QED
  BY <1>1, InvHolds, PTL

\* No finished job is lost or delivered twice, with any number of workers.
THEOREM JobsConserved == Spec => []JobsAreConserved
<1>1. Inv => JobsAreConserved
  <2> SUFFICES ASSUME Inv
               PROVE  JobsAreConserved
    OBVIOUS
  <2>1. Pending \in Seq(Fds) /\ Lists(Pending, owed)
    BY DEF Inv, TypeOK, ChannelInv, JobsOnce, Pending
  <2>2. DOMAIN Pending = 1..Len(Pending)
    BY <2>1, LenProperties
  <2> QED
    BY <2>1, <2>2 DEF JobsAreConserved, Lists, Pending
<1> QED
  BY <1>1, InvHolds, PTL

\* No wake-up falls between the look at the list and pselect.
THEOREM NoLostWakeUp == Spec => []WakeUpNotLost
<1>1. Inv => WakeUpNotLost
  BY DEF Inv, ChannelInv, SignalFollowsJobs, WakeUpNotLost
<1> QED
  BY <1>1, InvHolds, PTL

-----------------------------------------------------------------------------
(* The growing array implements the table of SelectorTable.tla.            *)

\* A descriptor's item: what the array holds, or an unused one past its end.
ItemOf(s, fd) == IF fd < Len(s.fds) THEN s.fds[fd + 1] ELSE item_init

\* The table an array stands for.
Image(s) == [item   |-> [fd \in 0..(ITEMS_MAX_SIZE - 1) |-> ItemOf(s, fd)],
             max_fd |-> s.max_fd]

\* Abstract is the image of the selector's array.
LEMMA AbstractIsImage == Abstract = Image(sel)
  BY DEF Abstract, Image, ItemOf, InTable, item, fd_size

\* Two arrays with the same items and the same max_fd are the same table.
LEMMA SameImage ==
  ASSUME NEW s, NEW t, s.max_fd = t.max_fd,
         \A fd \in 0..(ITEMS_MAX_SIZE - 1) : ItemOf(s, fd) = ItemOf(t, fd)
  PROVE  Image(s) = Image(t)
  BY DEF Image

\* An array with one item replaced is the table with that item replaced.
LEMMA ImageReplaced ==
  ASSUME NEW s, TableOK(s), NEW fd \in Fds, fd < Len(s.fds), NEW it \in Item,
         NEW t, t.fds = [s.fds EXCEPT ![fd + 1] = it]
  PROVE  /\ Image(t) = [item |-> [Image(s).item EXCEPT ![fd] = it], max_fd |-> t.max_fd]
         /\ Image(s).item[fd] = s.fds[fd + 1]
<1>1. s.fds \in Seq(Item) /\ Len(s.fds) \in Nat /\ fd \in Nat /\ fd + 1 \in 1..Len(s.fds)
      /\ fd \in 0..(ITEMS_MAX_SIZE - 1)
  BY FdIsNat, LenProperties DEF TableOK, SelType
<1>2. /\ Len(t.fds) = Len(s.fds)
      /\ \A k \in 1..Len(s.fds) : t.fds[k] = IF k = fd + 1 THEN it ELSE s.fds[k]
  BY <1>1, ExceptSeq
<1>3. ASSUME NEW g \in 0..(ITEMS_MAX_SIZE - 1)
      PROVE  ItemOf(t, g) = IF g = fd THEN it ELSE ItemOf(s, g)
  <2>1. g < Len(s.fds) => g + 1 \in 1..Len(s.fds) /\ (g + 1 = fd + 1 <=> g = fd)
    BY <1>1
  <2> QED
    BY <1>2, <2>1 DEF ItemOf
<1>4. [g \in 0..(ITEMS_MAX_SIZE - 1) |-> ItemOf(t, g)]
        = [[g \in 0..(ITEMS_MAX_SIZE - 1) |-> ItemOf(s, g)] EXCEPT ![fd] = it]
  BY <1>3
<1> QED
  BY <1>1, <1>4 DEF Image, ItemOf

\* A store into the array is a selector_register of the table.
LEMMA StoredIsRegister ==
  ASSUME NEW s, TableOK(s), NEW fd \in Fds, fd < Len(s.fds), ~s.fds[fd + 1].used,
         NEW interest \in Interests
  PROVE  Image(Stored(s, fd, interest))
           = Table!selector_register(Image(s), fd, interest, "data")
<1> DEFINE it == [used |-> TRUE, interest |-> interest, data |-> "data"]
           u == Stored(s, fd, interest)
<1>1. /\ u.max_fd = IF fd > s.max_fd THEN fd ELSE s.max_fd
      /\ u.fds = [s.fds EXCEPT ![fd + 1] = it]
  BY StoredKeepsTable
<1>2. it \in Item
  BY SelectorAssumption DEF Item, Data, READ, WRITE
<1>3. Table!selector_register(Image(s), fd, interest, "data")
        = [item   |-> [Image(s).item EXCEPT ![fd] = it],
           max_fd |-> IF fd > s.max_fd THEN fd ELSE s.max_fd]
  <2>1. Image(s).item[fd] = s.fds[fd + 1] /\ Image(s).max_fd = s.max_fd
    BY FdIsNat DEF Image, ItemOf
  <2>2. ~Table!INVALID_FD(fd)
    BY FdIsNat, SelectorAssumption DEF Table!INVALID_FD
  <2>3. Table!register_status(Image(s), fd) = "SELECTOR_SUCCESS"
    BY <2>1, <2>2 DEF Table!register_status, Table!ITEM_USED
  <2> QED
    BY <2>1, <2>3 DEF Table!selector_register
<1> HIDE DEF u, it
<1>4. Image(u) = [item |-> [Image(s).item EXCEPT ![fd] = it], max_fd |-> u.max_fd]
  BY <1>1, <1>2, ImageReplaced
<1> QED
  BY <1>1, <1>3, <1>4 DEF u

\* Changing the interest in the array is a selector_set_interest of the table.
LEMMA InterestIsSetInterest ==
  ASSUME NEW s, TableOK(s), NEW fd \in UsedIn(s), NEW interest \in SUBSET {READ, WRITE}
  PROVE  Image(WithInterest(s, fd, interest))
           = Table!selector_set_interest(Image(s), fd, interest)
<1> DEFINE it == [s.fds[fd + 1] EXCEPT !.interest = interest]
           u == WithInterest(s, fd, interest)
<1>1. fd \in Fds /\ fd < Len(s.fds) /\ s.fds[fd + 1].used
  BY DEF UsedIn
<1>2. u.max_fd = s.max_fd /\ u.fds = [s.fds EXCEPT ![fd + 1].interest = interest]
  BY InterestKeepsTable
<1>3. u.fds = [s.fds EXCEPT ![fd + 1] = it]
  BY <1>2
<1>4. it \in Item
  <2>1. fd \in Nat /\ s.fds \in Seq(Item) /\ fd + 1 \in 1..Len(s.fds)
    BY <1>1, FdIsNat, LenProperties DEF TableOK, SelType
  <2>2. s.fds[fd + 1] \in Item
    BY <2>1, ElementOfSeq
  <2> QED
    BY <2>2 DEF Item
<1>5. Image(s).item[fd] = s.fds[fd + 1] /\ Image(s).max_fd = s.max_fd
      /\ Image(s) = [item |-> Image(s).item, max_fd |-> s.max_fd]
  BY <1>1, FdIsNat DEF Image, ItemOf
<1>6. Table!selector_set_interest(Image(s), fd, interest)
        = [item |-> [Image(s).item EXCEPT ![fd] = it], max_fd |-> s.max_fd]
  <2>1. Table!set_interest_status(Image(s), fd) = "SELECTOR_SUCCESS"
    BY <1>1, <1>5, FdIsNat, SelectorAssumption
    DEF Table!set_interest_status, Table!INVALID_FD, Table!ITEM_USED
  <2>2. Table!selector_set_interest(Image(s), fd, interest)
          = [Image(s) EXCEPT !.item[fd].interest = interest]
    BY <2>1 DEF Table!selector_set_interest
  <2>3. [Image(s) EXCEPT !.item[fd].interest = interest]
          = [Image(s) EXCEPT !.item = [Image(s).item EXCEPT ![fd] = it]]
    BY <1>5
  <2> QED
    BY <1>5, <2>2, <2>3
<1> HIDE DEF u, it
<1>7. Image(u) = [item |-> [Image(s).item EXCEPT ![fd] = it], max_fd |-> u.max_fd]
  BY <1>1, <1>3, <1>4, ImageReplaced
<1> QED
  BY <1>2, <1>6, <1>7 DEF u

\* Wiping an item of the array is a selector_unregister_fd of the table, and
\* both look for max_fd in the same place.
LEMMA UnregisteredIsUnregister ==
  ASSUME NEW s, TableOK(s), NEW fd \in UsedIn(s)
  PROVE  Image(Unregistered(s, fd)) = Table!selector_unregister_fd(Image(s), fd)
<1> DEFINE u == Unregistered(s, fd)
           w == [s EXCEPT !.fds = u.fds]
           cleared == [Image(s) EXCEPT !.item = [Image(s).item EXCEPT ![fd] = item_init]]
<1>1. fd \in Fds /\ fd < Len(s.fds) /\ s.fds[fd + 1].used
  BY DEF UsedIn
<1>2. /\ u.fds = [s.fds EXCEPT ![fd + 1] = item_init] /\ u.max_fd = items_max_fd(w)
      /\ Len(u.fds) = Len(s.fds)
  BY UnregisteredKeepsTable
<1>3. w.fds = u.fds /\ w.max_fd = s.max_fd /\ s.max_fd \in 0..(ITEMS_MAX_SIZE - 1)
  BY DEF TableOK, SelType
<1>4. Image(s).item[fd] = s.fds[fd + 1] /\ Image(s).max_fd = s.max_fd
      /\ Image(s) = [item |-> Image(s).item, max_fd |-> s.max_fd]
  BY <1>1, FdIsNat DEF Image, ItemOf
<1>5. cleared = [item |-> [Image(s).item EXCEPT ![fd] = item_init], max_fd |-> s.max_fd]
  BY <1>4
<1>6. Table!UnusedItem = item_init
  BY DEF Table!UnusedItem, Table!OP_NOOP, item_init
<1>7. Table!selector_unregister_fd(Image(s), fd)
        = [cleared EXCEPT !.max_fd = Table!items_max_fd(cleared)]
  <2>1. ~(Table!INVALID_FD(fd) \/ ~Table!ITEM_USED(Image(s), fd))
    BY <1>1, <1>4, FdIsNat, SelectorAssumption DEF Table!INVALID_FD, Table!ITEM_USED
  <2> QED
    BY <1>6, <2>1 DEF Table!selector_unregister_fd
<1> HIDE DEF u, w, cleared
<1>8. Image(u) = [item |-> [Image(s).item EXCEPT ![fd] = item_init], max_fd |-> u.max_fd]
  BY <1>1, <1>2, InitItem, ImageReplaced
<1>9. Image(w) = cleared
  BY <1>1, <1>2, <1>3, <1>5, InitItem, ImageReplaced
<1>10. Table!items_max_fd(cleared) = items_max_fd(w)
  <2>1. s.max_fd < Len(s.fds) /\ Len(s.fds) \in Nat
    <3>1. s.max_fd = 0 \/ s.max_fd \in UsedIn(s)
      BY DEF TableOK, MaxFdIsTight
    <3>2. Len(s.fds) \in Nat /\ fd \in Nat
      BY <1>1, FdIsNat, LenProperties DEF TableOK, SelType
    <3> QED
      BY <1>1, <3>1, <3>2 DEF UsedIn
  <2>2. ASSUME NEW g \in 0..s.max_fd
        PROVE  Image(w).item[g] = w.fds[g + 1]
    <3>1. g \in 0..(ITEMS_MAX_SIZE - 1) /\ g < Len(w.fds)
      BY <1>2, <1>3, <2>1, SelectorAssumption
    <3> QED
      BY <3>1 DEF Image, ItemOf
  <2>3. {g \in 0..s.max_fd : w.fds[g + 1].used}
          = {g \in 0..s.max_fd : Table!ITEM_USED(Image(w), g)}
    BY <2>2 DEF Table!ITEM_USED
  <2>4. Image(w).max_fd = s.max_fd
    BY <1>3 DEF Image
  <2>5. \A T : Table!Max(T) = Max(T)
    BY DEF Max, Table!Max
  <2>6. items_max_fd(w) = Max({0} \cup {g \in 0..s.max_fd : w.fds[g + 1].used})
    BY <1>3 DEF items_max_fd
  <2>7. Table!items_max_fd(Image(w))
          = Table!Max({0} \cup {g \in 0..s.max_fd : Table!ITEM_USED(Image(w), g)})
    BY <2>4 DEF Table!items_max_fd
  <2> QED
    BY <1>9, <2>3, <2>5, <2>6, <2>7
<1> QED
  BY <1>2, <1>5, <1>7, <1>8, <1>10 DEF u

\* Enlarging the array adds items that read as unused before.
LEMMA LargerIsSame ==
  ASSUME NEW s, TableOK(s), NEW n \in Nat, NEW g \in ensure_capacity(s.fds, n),
         g.ret = "SELECTOR_SUCCESS"
  PROVE  Image([s EXCEPT !.fds = g.fds]) = Image(s)
<1> DEFINE t == [s EXCEPT !.fds = g.fds]
<1>1. t.fds = g.fds /\ t.max_fd = s.max_fd /\ Len(s.fds) \in Nat
  BY LenProperties DEF TableOK, SelType
<1>2. \/ g.fds = s.fds
      \/ Len(s.fds) <= n /\ n \in 0..ITEMS_MAX_SIZE /\ g.fds = Larger(s.fds, n)
  <2>1. s.fds \in Seq(Item)
    BY DEF TableOK, SelType
  <2> QED
    BY <2>1, EnsureCapacityCases
<1> HIDE DEF t
<1>3. CASE g.fds = s.fds
  BY <1>1, <1>3, SameImage DEF ItemOf, t
<1>4. CASE Len(s.fds) <= n /\ n \in 0..ITEMS_MAX_SIZE /\ g.fds = Larger(s.fds, n)
  <2>1. next_capacity(n) \in Nat /\ n < next_capacity(n)
    BY <1>4, Capacity
  <2>2. Len(g.fds) = next_capacity(n)
    BY <1>4, <2>1 DEF Larger
  <2>3. ASSUME NEW f \in 0..(ITEMS_MAX_SIZE - 1)
        PROVE  ItemOf(t, f) = ItemOf(s, f)
    <3>1. f < Len(g.fds) => g.fds[f + 1] = IF f + 1 <= Len(s.fds) THEN s.fds[f + 1] ELSE item_init
      BY <1>4, <2>1, <2>2 DEF Larger
    <3>2. f < Len(s.fds) => f < Len(g.fds)
      BY <1>1, <1>4, <2>1, <2>2
    <3>3. f + 1 <= Len(s.fds) <=> f < Len(s.fds)
      BY <1>1
    <3> QED
      BY <1>1, <3>1, <3>2, <3>3 DEF ItemOf
  <2> QED
    BY <1>1, <2>3, SameImage DEF t
<1> QED
  BY <1>2, <1>3, <1>4

\* Freeing an array without used items leaves the empty table.
LEMMA FreedIsSame ==
  ASSUME NEW s, TableOK(s), UsedIn(s) = {}
  PROVE  Image([s EXCEPT !.fds = <<>>]) = Image(s)
<1> DEFINE t == [s EXCEPT !.fds = <<>>]
<1>1. t.fds = <<>> /\ t.max_fd = s.max_fd /\ Len(s.fds) \in Nat
  BY LenProperties DEF TableOK, SelType
<1> HIDE DEF t
<1>2. ASSUME NEW f \in 0..(ITEMS_MAX_SIZE - 1)
      PROVE  ItemOf(t, f) = ItemOf(s, f)
  <2>1. ~(f < Len(t.fds))
    BY <1>1
  <2>2. f < Len(s.fds) => s.fds[f + 1] = item_init
    <3> SUFFICES ASSUME f < Len(s.fds)
                 PROVE  s.fds[f + 1] = item_init
      OBVIOUS
    <3>1. f + 1 \in 1..Len(s.fds) /\ (f + 1) - 1 = f
      BY <1>1
    <3>2. s.fds[f + 1].used => f \in UsedIn(s)
      BY <3>1 DEF TableOK, ItemsAreUsersOrWiped, UsedIn
    <3> QED
      BY <3>1, <3>2 DEF TableOK, ItemsAreUsersOrWiped
  <2> QED
    BY <2>1, <2>2 DEF ItemOf
<1> QED
  BY <1>1, <1>2, SameImage DEF t

\* Each step of the selector is one operation of the table, or none.
LEMMA StepImplementsTable ==
  ASSUME Inv, [Next]_vars
  PROVE  [Table!Next]_Abstract
<1>1. TableOK(sel) /\ TypeOK /\ Abstract = Image(sel) /\ Abstract' = Image(sel')
  <2>1. Abstract' = Image(sel')
    BY DEF Abstract, Image, ItemOf, InTable, item, fd_size
  <2> QED
    BY <2>1, AbstractIsImage DEF Inv, TableInv
<1>2. ASSUME sel' = sel
      PROVE  Abstract' = Abstract
  BY <1>1, <1>2
<1>3. ASSUME NEW fd \in UsedIn(sel), sel' = Unregistered(sel, fd)
      PROVE  Table!Next
  <2>1. fd \in Table!ItemFd
    BY FdIsNat DEF UsedIn, Table!ItemFd
  <2>2. Table!Unregister(fd)
    BY <1>1, <1>3, UnregisteredIsUnregister DEF Table!Unregister
  <2> QED
    BY <2>1, <2>2 DEF Table!Next
<1>4. ASSUME NEW fd \in UsedIn(sel), NEW interest \in Interests,
             sel' = WithInterest(sel, fd, interest)
      PROVE  Table!Next
  <2>1. fd \in Table!ItemFd /\ interest \in SUBSET {READ, WRITE} /\ interest \in Table!Interest
    BY FdIsNat, SelectorAssumption
    DEF UsedIn, Table!ItemFd, READ, WRITE, Table!Interest, Table!READ, Table!WRITE
  <2>2. Table!SetInterest(fd, interest)
    BY <1>1, <1>4, <2>1, InterestIsSetInterest DEF Table!SetInterest
  <2> QED
    BY <2>1, <2>2 DEF Table!Next
<1>5. ASSUME NEW fd \in Fds, NEW interest \in Interests, selector_register(fd, interest)
      PROVE  [Table!Next]_Abstract
  <2> DEFINE same == [ret |-> "SELECTOR_SUCCESS", fds |-> sel.fds, moved |-> FALSE]
  <2>1. PICK grown \in IF fd > fd_size THEN ensure_capacity(sel.fds, fd) ELSE {same} :
          IF grown.ret # "SELECTOR_SUCCESS" THEN UNCHANGED vars
          ELSE IF fd >= Len(grown.fds) THEN Fail("outside_table")
          ELSE LET s == [sel EXCEPT !.fds = grown.fds]
               IN  /\ sel' = IF s.fds[fd + 1].used THEN s ELSE Stored(s, fd, interest)
                   /\ walk' = [walk EXCEPT !.moved = @ \/ (grown.moved /\ pc = "on_read")]
                   /\ closed' = closed \ {fd}
                   /\ UNCHANGED <<pc, initial, channel, fault>>
    BY <1>5 DEF selector_register
  <2> DEFINE s == [sel EXCEPT !.fds = grown.fds]
  <2>2. CASE sel' = sel
    BY <1>2, <2>2
  <2>3. CASE /\ grown.ret = "SELECTOR_SUCCESS" /\ ~(fd >= Len(grown.fds))
             /\ sel' = IF s.fds[fd + 1].used THEN s ELSE Stored(s, fd, interest)
    <3>1. TableOK(s) /\ Image(s) = Image(sel) /\ s.fds = grown.fds /\ Len(grown.fds) \in Nat
      <4>1. CASE fd > fd_size
        <5>1. grown \in ensure_capacity(sel.fds, fd) /\ fd \in Nat
          BY <2>1, <4>1, FdIsNat
        <5>2. TableOK(s) /\ Image(s) = Image(sel)
          BY <1>1, <2>3, <5>1, EnsureCapacity, LargerIsSame
        <5>3. s.fds = grown.fds /\ s.fds \in Seq(Item)
          BY <1>1, <5>2 DEF TableOK, SelType
        <5> QED
          BY <5>2, <5>3, LenProperties
      <4>2. CASE ~(fd > fd_size)
        <5>1. grown.fds = sel.fds
          BY <2>1, <4>2
        <5>2. s = sel
          BY <1>1, <5>1 DEF TableOK, SelType
        <5>3. sel.fds \in Seq(Item)
          BY <1>1 DEF TableOK, SelType
        <5> QED
          BY <1>1, <5>1, <5>2, <5>3, LenProperties
      <4> QED
        BY <4>1, <4>2
    <3> HIDE DEF s
    <3>2. fd < Len(s.fds)
      BY <2>3, <3>1, FdIsNat
    <3>3. CASE s.fds[fd + 1].used
      BY <1>1, <2>3, <3>1, <3>3
    <3>4. CASE ~s.fds[fd + 1].used
      <4>1. Abstract' = Table!selector_register(Abstract, fd, interest, "data")
        BY <1>1, <2>3, <3>1, <3>2, <3>4, StoredIsRegister
      <4>2. fd \in Table!ItemFd /\ interest \in Table!Interest /\ "data" \in Data
        BY FdIsNat, SelectorAssumption
        DEF Table!ItemFd, Table!Interest, Table!READ, Table!WRITE, Data
      <4> QED
        BY <4>1, <4>2 DEF Table!Next, Table!Register
    <3> QED
      BY <3>3, <3>4
  <2> QED
    BY <2>1, <2>2, <2>3 DEF Fail, vars, table
<1>6. CASE init_selector
  <2>1. PICK made \in selector_new(initial) :
          IF made.ret = "SELECTOR_SUCCESS"
          THEN sel' = [sel EXCEPT !.fds = made.fds] /\ pc' = "setup"
          ELSE sel' = sel /\ pc' = "exited"
    BY <1>6 DEF init_selector
  <2>2. sel.fds = <<>> /\ initial \in Nat
    BY <1>6, SelectorAssumption
    DEF init_selector, Inv, TableInv, WalkIsInTable, Exists, TypeOK
  <2>3. made \in ensure_capacity(sel.fds, initial)
    BY <2>1, <2>2 DEF selector_new
  <2>4. CASE made.ret = "SELECTOR_SUCCESS"
    BY <1>1, <2>1, <2>2, <2>3, <2>4, LargerIsSame
  <2> QED
    BY <1>2, <2>1, <2>4
<1>7. CASE UserCall
  <2>1. PICK fd \in Fds :
          \/ selector_unregister_fd(fd) \/ CloseRegistered(fd) \/ StartJob(fd)
          \/ \E interest \in Interests :
               selector_register(fd, interest) \/ selector_set_interest(fd, interest)
    BY <1>7 DEF UserCall
  <2>2. CASE CloseRegistered(fd) \/ StartJob(fd)
    BY <1>2, <2>2 DEF CloseRegistered, StartJob, table
  <2>3. CASE selector_unregister_fd(fd)
    <3>1. sel' = sel \/ (fd \in UsedIn(sel) /\ sel' = Unregistered(sel, fd))
      BY <1>1, <2>3, UsedIsUsedIn DEF selector_unregister_fd, Fail
    <3> QED
      BY <1>2, <1>3, <3>1
  <2>4. ASSUME NEW interest \in Interests, selector_set_interest(fd, interest)
        PROVE  [Table!Next]_Abstract
    <3>1. sel' = sel \/ (fd \in UsedIn(sel) /\ sel' = WithInterest(sel, fd, interest))
      BY <1>1, <2>4, UsedIsUsedIn DEF selector_set_interest, Fail, WithInterest
    <3> QED
      BY <1>2, <1>4, <3>1
  <2> QED
    BY <1>5, <2>1, <2>2, <2>3, <2>4
<1>8. CASE LoopStep \/ (\E w \in Fds : WorkerStep(w)) \/ UNCHANGED vars
  <2>1. sel' = sel
    BY <1>8 DEF LoopStep, selector_select, SelectReturns, SelectInterrupted, SelectFails,
       handle_iteration_read, handle_iteration_write, HandlerReturns,
       handle_block_notifications, deliver_job, notifications_done, Fail, WorkerStep,
       notify_malloc, notify_lock, notify_push, notify_kill, vars, table
  <2> QED
    BY <1>2, <2>1
<1>9. CASE selector_destroy
  <2>1. Used = UsedIn(sel) /\ Used \subseteq Nat
    BY <1>1, UsedIsUsedIn, FdIsNat DEF Used
  <2>2. \/ Used # {} /\ sel' = Unregistered(sel, Min(Used))
        \/ sel' = sel
        \/ Used = {} /\ sel' = [sel EXCEPT !.fds = <<>>]
    BY <1>9 DEF selector_destroy, Fail
  <2>3. CASE Used # {} /\ sel' = Unregistered(sel, Min(Used))
    <3>1. Min(Used) \in UsedIn(sel)
      BY <2>1, <2>3, MinIsLeast
    <3> QED
      BY <1>3, <2>3, <3>1
  <2>4. CASE Used = {} /\ sel' = [sel EXCEPT !.fds = <<>>]
    BY <1>1, <2>1, <2>4, FreedIsSame
  <2> QED
    BY <1>2, <2>2, <2>3, <2>4
<1> QED
  BY <1>5, <1>6, <1>7, <1>8, <1>9 DEF Next, Stopped

\* selector.c's array, its growth, its walk and its destruction implement the
\* table of SelectorTable.tla, on which Socks5.tla builds.
THEOREM SelectorImplementsTable == Spec => ImplementsTable
<1>1. Init => Table!Init
  <2> SUFFICES ASSUME Init
               PROVE  Table!Init
    OBVIOUS
  <2>1. sel.max_fd = 0 /\ Len(sel.fds) = 0
    BY DEF Init
  <2>2. \A fd \in 0..(ITEMS_MAX_SIZE - 1) : ItemOf(sel, fd) = item_init
    BY <2>1 DEF ItemOf
  <2> QED
    BY <2>1, <2>2, AbstractIsImage
    DEF Table!Init, Table!selector_new, Table!UnusedItem, Table!OP_NOOP, Table!ItemFd,
        Image, item_init
<1>2. Inv /\ [Next]_vars => [Table!Next]_Abstract
  BY StepImplementsTable
<1>3. Spec => Init /\ [][Next]_vars
  BY DEF Spec
<1> QED
  BY <1>1, <1>2, <1>3, InvHolds, PTL DEF ImplementsTable, Table!Spec
=============================================================================
