------------------------------ MODULE Selector ------------------------------
(***************************************************************************)
(* selector.c: the table that maps a descriptor to its interest and data,  *)
(* the loop that waits in pselect and walks the descriptors that are       *)
(* ready, and the channel through which worker threads tell the loop that  *)
(* a blocking job is over (selector_notify_block).                         *)
(*                                                                         *)
(* The selector's thread runs the loop and, inside it, the users'          *)
(* handlers; a handler may call any operation of the selector, any number  *)
(* of times, and may start a job in a worker.  Workers touch only the list *)
(* of finished jobs, under resolution_mutex, and the signal; their steps   *)
(* interleave with everything.                                             *)
(***************************************************************************)
EXTENDS Integers, Sequences, FiniteSets, FiniteSetsExt

CONSTANTS ITEMS_MAX_SIZE,   \* FD_SETSIZE
          Fds,              \* the descriptors the users work with
          Initials,         \* arguments of selector_new; the server's is FD_SETSIZE
          Interests,        \* the interests users ask for
          NoData

ASSUME SelectorAssumption ==
  /\ ITEMS_MAX_SIZE \in Nat \ {0}
  /\ Fds \subseteq 0..(ITEMS_MAX_SIZE - 1)
  /\ Initials \subseteq Nat
  /\ Interests \subseteq SUBSET {"OP_READ", "OP_WRITE"}

VARIABLES
  sel,       \* the table part of struct fdselector
  walk,      \* handle_iteration: the descriptor, the limit, the ready bits
  pc,        \* where the selector's thread is
  initial,   \* the argument selector_new was given
  closed,    \* registered descriptors that were closed
  jobs,      \* s->resolution_jobs, newest first
  rest,      \* handle_block_notifications: the jobs still to deliver
  mutex,     \* who owns resolution_mutex, if anyone
  signal,    \* a conf.signal is pending for the selector's thread
  wpc,       \* where the worker of each descriptor is
  next,      \* job->next of the job each worker is inserting
  owed,      \* jobs inserted and not yet delivered (history)
  fault      \* the first access outside or behind the table, or "none"

table == <<sel, walk, pc, initial, closed, fault>>
channel == <<jobs, rest, mutex, signal, wpc, next, owed>>
vars == <<table, channel>>

READ == "OP_READ"
WRITE == "OP_WRITE"
Data == {"data"}

Item == [used : BOOLEAN, interest : SUBSET {READ, WRITE}, data : Data \cup {NoData}]
\* item_init; interest is what memset leaves in the other fields.
item_init == [used |-> FALSE, interest |-> {}, data |-> NoData]

fd_size == Len(sel.fds)
\* s->fds + fd, for fd inside the table.
item(fd) == sel.fds[fd + 1]
ITEM_USED(fd) == item(fd).used
InTable(fd) == fd < fd_size

NoWalk == [i |-> 0, n |-> 0, moved |-> FALSE, slave_r |-> {}, slave_w |-> {}]

-----------------------------------------------------------------------------
(* The table.                                                              *)

\* The next power of two beyond n (1 << bits, bits being the length of n in
\* binary), held back to ITEMS_MAX_SIZE, plus one.
next_capacity(n) ==
  LET powers == {p \in (n + 1)..ITEMS_MAX_SIZE : \E bits \in 0..p : p = 2^bits}
  IN  Min(powers \cup {ITEMS_MAX_SIZE}) + 1

\* What ensure_capacity(s, n) may do: the status it returns, the array it
\* leaves, and whether realloc moved it.
ensure_capacity(items, n) ==
  IF n < Len(items) THEN {[ret |-> "SELECTOR_SUCCESS", fds |-> items, moved |-> FALSE]}
  ELSE IF n > ITEMS_MAX_SIZE
    THEN {[ret |-> "SELECTOR_MAXFD", fds |-> items, moved |-> FALSE]}
  ELSE {[ret |-> "SELECTOR_ENOMEM", fds |-> items, moved |-> FALSE]}
    \cup {[ret |-> "SELECTOR_SUCCESS",
           fds |-> [k \in 1..next_capacity(n) |->
                      IF k <= Len(items) THEN items[k] ELSE item_init],
           moved |-> m] : m \in IF items = <<>> THEN {FALSE} ELSE BOOLEAN}

\* Mutant: the argument is ignored and the table starts as small as it can.
selector_new_ignores_size(n) == ensure_capacity(<<>>, 0)

\* selector_new: memset clears everything, then the table gets its first size.
selector_new(n) == ensure_capacity(<<>>, n)

\* Mutant: the write bit of the descriptor is left as it was.
update_forgets_write(s, fd) ==
  LET it == s.fds[fd + 1]
  IN  [s EXCEPT !.master_r = IF it.used /\ READ \in it.interest THEN @ \cup {fd}
                             ELSE @ \ {fd},
                !.master_w = IF it.used /\ WRITE \in it.interest THEN @ \cup {fd} ELSE @]

\* FD_CLR both bits, then FD_SET the ones the item asks for.
items_update_fdset_for_fd(s, fd) ==
  LET it == s.fds[fd + 1]
  IN  [s EXCEPT !.master_r = IF it.used /\ READ \in it.interest THEN @ \cup {fd}
                             ELSE @ \ {fd},
                !.master_w = IF it.used /\ WRITE \in it.interest THEN @ \cup {fd}
                             ELSE @ \ {fd}]

\* Mutant: the loop stops before the current maximum.
max_fd_stops_early(s) == Max({0} \cup {fd \in 0..(s.max_fd - 1) : s.fds[fd + 1].used})

\* The highest used item, looking no further than the current maximum.
items_max_fd(s) == Max({0} \cup {fd \in 0..s.max_fd : s.fds[fd + 1].used})

\* A user calls the selector from main, before the loop, or from a handler.
InUserCode == fault = "none" /\ pc \in {"setup", "on_read", "on_write", "on_block"}

\* The access goes outside the table: undefined, and the model stops here.
Fail(why) == fault' = why /\ UNCHANGED <<sel, walk, pc, initial, closed, channel>>

\* Stores an item and brings max_fd and the fd_sets up to date.
Stored(s, fd, interest) ==
  LET t == [s EXCEPT !.fds[fd + 1] = [used |-> TRUE, interest |-> interest, data |-> "data"],
                     !.max_fd = Max({@, fd})]
  IN  items_update_fdset_for_fd(t, fd)

\* The array is enlarged only for fd > fd_size: fd = fd_size is an access
\* just past its end.  A descriptor that was closed behind the selector's
\* back is given out by the kernel again, and found to be in use.
selector_register(fd, interest) ==
  /\ InUserCode
  /\ \E grown \in IF fd > fd_size THEN ensure_capacity(sel.fds, fd)
                  ELSE {[ret |-> "SELECTOR_SUCCESS", fds |-> sel.fds, moved |-> FALSE]} :
       IF grown.ret # "SELECTOR_SUCCESS"
       THEN UNCHANGED vars
       ELSE IF fd >= Len(grown.fds) THEN Fail("outside_table")
       ELSE LET s == [sel EXCEPT !.fds = grown.fds]
            IN  /\ sel' = IF s.fds[fd + 1].used THEN s ELSE Stored(s, fd, interest)
                /\ walk' = [walk EXCEPT !.moved = @ \/ (grown.moved /\ pc = "on_read")]
                /\ closed' = closed \ {fd}
                /\ UNCHANGED <<pc, initial, channel, fault>>

\* The item is made quiet and wiped, and max_fd looked for again.
Unregistered(s, fd) ==
  LET quiet   == items_update_fdset_for_fd([s EXCEPT !.fds[fd + 1].interest = {}], fd)
      cleared == [quiet EXCEPT !.fds[fd + 1] = item_init]
  IN  [cleared EXCEPT !.max_fd = items_max_fd(cleared)]

\* handle_close runs first; the handlers of this program only free and close
\* in it, so the item is still the same afterwards.
selector_unregister_fd(fd) ==
  /\ InUserCode
  /\ IF ~InTable(fd) THEN Fail("outside_table")
     ELSE /\ ITEM_USED(fd)
          /\ sel' = Unregistered(sel, fd)
          /\ closed' = closed \ {fd}
          /\ UNCHANGED <<walk, pc, initial, channel, fault>>

selector_set_interest(fd, interest) ==
  /\ InUserCode
  /\ IF ~InTable(fd) THEN Fail("outside_table")
     ELSE /\ ITEM_USED(fd)
          /\ sel' = items_update_fdset_for_fd(
                      [sel EXCEPT !.fds[fd + 1].interest = interest], fd)
          /\ UNCHANGED <<walk, pc, initial, closed, channel, fault>>

\* A handler closes a descriptor and leaves it registered.  One at a time.
CloseRegistered(fd) ==
  /\ InUserCode
  /\ InTable(fd) /\ ITEM_USED(fd) /\ closed = {}
  /\ closed' = {fd}
  /\ UNCHANGED <<sel, walk, pc, initial, channel, fault>>

-----------------------------------------------------------------------------
(* The loop.                                                               *)

\* main: selector_init, selector_new(SELECTOR_COUNT).  When it fails
\* selector_destroy frees what there is and main returns.
init_selector ==
  /\ pc = "start"
  /\ \E made \in selector_new(initial) :
       IF made.ret = "SELECTOR_SUCCESS"
       THEN sel' = [sel EXCEPT !.fds = made.fds] /\ pc' = "setup"
       ELSE sel' = sel /\ pc' = "exited"
  /\ UNCHANGED <<walk, initial, closed, channel, fault>>

\* main calls selector_select, which copies the fd_sets and goes to sleep.
\* Until it does, the signal can only become pending.
selector_select ==
  /\ fault = "none" /\ pc \in {"setup", "loop"}
  /\ pc' = "pselect"
  /\ UNCHANGED <<sel, walk, initial, closed, channel, fault>>

\* Mutant: the call of sigprocmask is missing.
never_blocked == FALSE

\* selector_init blocks the signal; pselect unblocks it while it waits.
blocked_outside_pselect == TRUE

BadDescriptor == closed \cap (sel.master_r \cup sel.master_w) # {}

\* pselect returns a nonempty set of ready descriptors, or none at the
\* timeout: handle_iteration starts, with n read here.
SelectReturns(r, w) ==
  /\ fault = "none" /\ pc = "pselect" /\ ~BadDescriptor
  /\ walk' = [NoWalk EXCEPT !.n = sel.max_fd, !.slave_r = r, !.slave_w = w]
  /\ pc' = "read"
  /\ UNCHANGED <<sel, initial, closed, channel, fault>>

\* EINTR: the signal is handled, the jobs are looked at.
SelectInterrupted ==
  /\ fault = "none" /\ pc = "pselect" /\ signal /\ ~BadDescriptor
  /\ signal' = FALSE
  /\ pc' = "notify"
  /\ UNCHANGED <<sel, walk, initial, closed, jobs, rest, mutex, wpc, next, owed, fault>>

\* EBADF: selector_select returns SELECTOR_IO without looking at the jobs,
\* main complains and calls it again.
SelectFails ==
  /\ fault = "none" /\ pc = "pselect" /\ BadDescriptor
  /\ pc' = "loop"
  /\ UNCHANGED <<sel, walk, initial, closed, channel, fault>>

\* The walk moves on to the next used item, or past n; bits it has passed
\* are not looked at again.
From(v, i) ==
  LET k == Min({j \in i..v.n : ITEM_USED(j)} \cup {v.n + 1})
  IN  [v EXCEPT !.i = k, !.moved = FALSE, !.slave_r = {f \in @ : f >= k},
                !.slave_w = {f \in @ : f >= k}]

\* Mutant: the jobs are looked at after an interruption only.
iteration_skips_jobs ==
  /\ fault = "none" /\ pc = "read"
  /\ IF walk.i > walk.n
     THEN walk' = NoWalk /\ pc' = "loop"
     ELSE IF ~ITEM_USED(walk.i) THEN walk' = From(walk, walk.i) /\ pc' = "read"
     ELSE /\ pc' = IF walk.i \in walk.slave_r /\ READ \in item(walk.i).interest
                   THEN "on_read" ELSE "write"
          /\ walk' = [walk EXCEPT !.slave_r = @ \ {walk.i}]
  /\ UNCHANGED <<sel, initial, closed, channel, fault>>

\* One descriptor of handle_iteration, up to the call of handle_read.
handle_iteration_read ==
  /\ fault = "none" /\ pc = "read"
  /\ IF walk.i > walk.n
     THEN walk' = NoWalk /\ pc' = "notify"
     ELSE IF ~ITEM_USED(walk.i) THEN walk' = From(walk, walk.i) /\ pc' = "read"
     ELSE /\ pc' = IF walk.i \in walk.slave_r /\ READ \in item(walk.i).interest
                   THEN "on_read" ELSE "write"
          /\ walk' = [walk EXCEPT !.slave_r = @ \ {walk.i}]
  /\ UNCHANGED <<sel, initial, closed, channel, fault>>

\* The same descriptor, up to the call of handle_write: item still points to
\* where the table was before handle_read was called.
handle_iteration_write ==
  /\ fault = "none" /\ pc = "write"
  /\ IF walk.i \in walk.slave_w /\ walk.moved THEN Fail("stale_item")
     ELSE /\ pc' = IF walk.i \in walk.slave_w /\ WRITE \in item(walk.i).interest
                   THEN "on_write" ELSE "read"
          /\ walk' = From(walk, walk.i + 1)
          /\ UNCHANGED <<sel, initial, closed, channel, fault>>

HandlerReturns ==
  /\ fault = "none" /\ pc \in {"on_read", "on_write", "on_block"}
  /\ pc' = CASE pc = "on_read" -> "write" [] pc = "on_write" -> "read"
             [] pc = "on_block" -> "deliver"
  /\ UNCHANGED <<sel, walk, initial, closed, channel, fault>>

-----------------------------------------------------------------------------
(* Finished jobs.                                                          *)

\* Mutant: the list is walked without the mutex.
notifications_unlocked ==
  /\ fault = "none" /\ pc = "notify"
  /\ rest' = jobs
  /\ pc' = "deliver"
  /\ UNCHANGED <<sel, walk, initial, closed, jobs, mutex, signal, wpc, next, owed, fault>>

\* handle_block_notifications takes the mutex and the head of the list.
handle_block_notifications ==
  /\ fault = "none" /\ pc = "notify" /\ mutex = "free"
  /\ mutex' = "selector"
  /\ rest' = jobs
  /\ pc' = "deliver"
  /\ UNCHANGED <<sel, walk, initial, closed, jobs, signal, wpc, next, owed, fault>>

\* One turn of its loop.  The mutex stays locked across handle_block.
deliver_job ==
  /\ fault = "none" /\ pc = "deliver" /\ rest # <<>>
  /\ IF ~InTable(Head(rest)) THEN Fail("outside_table")
     ELSE /\ pc' = IF ITEM_USED(Head(rest)) THEN "on_block" ELSE "deliver"
          /\ rest' = Tail(rest)
          /\ owed' = owed \ {Head(rest)}
          /\ UNCHANGED <<sel, walk, initial, closed, jobs, mutex, signal, wpc, next, fault>>

\* The end of the loop; selector_select returns to main.
notifications_done ==
  /\ fault = "none" /\ pc = "deliver" /\ rest = <<>>
  /\ jobs' = <<>>
  /\ mutex' = "free"
  /\ pc' = "loop"
  /\ UNCHANGED <<sel, walk, initial, closed, rest, signal, wpc, next, owed, fault>>

\* A handler hands the blocking work for a descriptor to a worker; a
\* descriptor has at most one such job at a time.
StartJob(fd) ==
  /\ InUserCode /\ pc # "setup"
  /\ InTable(fd) /\ ITEM_USED(fd)
  /\ wpc[fd] = "idle" /\ fd \notin owed
  /\ wpc' = [wpc EXCEPT ![fd] = "working"]
  /\ UNCHANGED <<table, jobs, rest, mutex, signal, next, owed>>

\* selector_notify_block: the worker is done and allocates a job, or cannot
\* and returns SELECTOR_ENOMEM.
notify_malloc(w) ==
  /\ fault = "none" /\ wpc[w] = "working"
  /\ wpc' \in {[wpc EXCEPT ![w] = "lock"], [wpc EXCEPT ![w] = "idle"]}
  /\ UNCHANGED <<table, jobs, rest, mutex, signal, next, owed>>

\* Lock, and job->next = s->resolution_jobs.
notify_lock(w) ==
  /\ fault = "none" /\ wpc[w] = "lock" /\ mutex = "free"
  /\ mutex' = "worker"
  /\ next' = [next EXCEPT ![w] = jobs]
  /\ wpc' = [wpc EXCEPT ![w] = "push"]
  /\ UNCHANGED <<table, jobs, rest, signal, owed>>

\* s->resolution_jobs = job, and unlock.
notify_push(w) ==
  /\ fault = "none" /\ wpc[w] = "push"
  /\ jobs' = <<w>> \o next[w]
  /\ owed' = owed \cup {w}
  /\ next' = [next EXCEPT ![w] = <<>>]
  /\ mutex' = "free"
  /\ wpc' = [wpc EXCEPT ![w] = "kill"]
  /\ UNCHANGED <<table, rest, signal>>

\* pthread_kill: the signal stays pending while it is blocked.
notify_kill(w) ==
  /\ fault = "none" /\ wpc[w] = "kill"
  /\ signal' = (signal \/ blocked_outside_pselect \/ pc = "pselect")
  /\ wpc' = [wpc EXCEPT ![w] = "idle"]
  /\ UNCHANGED <<table, jobs, rest, mutex, next, owed>>

-----------------------------------------------------------------------------
Used == {fd \in Fds : InTable(fd) /\ ITEM_USED(fd)}

\* selector_destroy, called between two rounds when no worker runs, item by
\* item.  Jobs that were not delivered are freed, each before its next pointer
\* is read.
selector_destroy ==
  /\ fault = "none" /\ pc \in {"setup", "loop", "destroy"}
  /\ \A w \in Fds : wpc[w] = "idle"
  /\ IF Used # {}
     THEN /\ sel' = Unregistered(sel, Min(Used))
          /\ closed' = closed \ {Min(Used)}
          /\ pc' = "destroy"
          /\ UNCHANGED <<walk, initial, channel, fault>>
     ELSE IF jobs # <<>> THEN Fail("freed_job")
     ELSE /\ sel' = [sel EXCEPT !.fds = <<>>]
          /\ pc' = "exited"
          /\ UNCHANGED <<walk, initial, closed, channel, fault>>

Init ==
  /\ sel = [fds |-> <<>>, max_fd |-> 0, master_r |-> {}, master_w |-> {}]
  /\ walk = NoWalk
  /\ pc = "start"
  /\ initial \in Initials
  /\ closed = {}
  /\ jobs = <<>> /\ rest = <<>> /\ owed = {}
  /\ mutex = "free" /\ signal = FALSE
  /\ wpc = [w \in Fds |-> "idle"]
  /\ next = [w \in Fds |-> <<>>]
  /\ fault = "none"

UserCall ==
  \E fd \in Fds :
    \/ selector_unregister_fd(fd)
    \/ CloseRegistered(fd)
    \/ StartJob(fd)
    \/ \E interest \in Interests :
         selector_register(fd, interest) \/ selector_set_interest(fd, interest)

\* What the selector's thread does when no user stands in its way.
LoopStep ==
  \/ selector_select
  \/ \E r \in SUBSET sel.master_r, w \in SUBSET sel.master_w : SelectReturns(r, w)
  \/ SelectInterrupted \/ SelectFails
  \/ handle_iteration_read \/ handle_iteration_write
  \/ HandlerReturns
  \/ handle_block_notifications \/ deliver_job \/ notifications_done

WorkerStep(w) == notify_malloc(w) \/ notify_lock(w) \/ notify_push(w) \/ notify_kill(w)

Stopped == (pc = "exited" \/ fault # "none") /\ UNCHANGED vars

Next ==
  \/ init_selector
  \/ UserCall
  \/ LoopStep
  \/ selector_destroy
  \/ \E w \in Fds : WorkerStep(w)
  \/ Stopped

\* Threads run; handlers return.
Fairness ==
  /\ WF_vars(LoopStep)
  /\ \A w \in Fds : WF_vars(WorkerStep(w))

Spec == Init /\ [][Next]_vars /\ Fairness

-----------------------------------------------------------------------------
(* Properties.                                                             *)

TypeOK ==
  /\ sel \in [fds : Seq(Item), max_fd : 0..(ITEMS_MAX_SIZE - 1),
              master_r : SUBSET Fds, master_w : SUBSET Fds]
  /\ fd_size <= ITEMS_MAX_SIZE + 1
  /\ walk \in [i : 0..ITEMS_MAX_SIZE, n : 0..(ITEMS_MAX_SIZE - 1), moved : BOOLEAN,
               slave_r : SUBSET Fds, slave_w : SUBSET Fds]
  /\ pc \in {"start", "setup", "loop", "pselect", "read", "on_read", "write", "on_write",
             "notify", "deliver", "on_block", "destroy", "exited"}
  /\ initial \in Initials /\ closed \subseteq Fds /\ owed \subseteq Fds
  /\ jobs \in Seq(Fds) /\ rest \in Seq(Fds)
  /\ mutex \in {"free", "selector", "worker"} /\ signal \in BOOLEAN
  /\ wpc \in [Fds -> {"idle", "working", "lock", "push", "kill"}]
  /\ next \in [Fds -> Seq(Fds)]
  /\ fault \in {"none", "outside_table", "stale_item", "freed_job"}

\* The table as SelectorOps.tla writes it.
Abstract == [item   |-> [fd \in 0..(ITEMS_MAX_SIZE - 1) |->
                          IF InTable(fd) THEN item(fd) ELSE item_init],
             max_fd |-> sel.max_fd]
Table == INSTANCE SelectorTable WITH table <- Abstract

\* Every change of the growing array, across reallocation, failed growth and
\* handlers that register and unregister in the middle of a walk, is one
\* whole operation of SelectorOps.tla on the table, max_fd included: what
\* Socks5.tla builds on.
ImplementsTable == Table!Spec

\* items_update_fdset_for_fd keeps the two fd_sets given to pselect in step
\* with the interests in the table, so that no descriptor is waited for that
\* nobody registered and none that was registered is forgotten; and max_fd,
\* raised by every registration and lowered to the next item in use, never
\* keeps pselect from looking at one.
MasterMatchesTable ==
  /\ TypeOK
  /\ \A fd \in Used : fd <= sel.max_fd
  /\ sel.master_r = {fd \in Used : READ \in item(fd).interest}
  /\ sel.master_w = {fd \in Used : WRITE \in item(fd).interest}

\* With the size the server asks for, SELECTOR_COUNT = FD_SETSIZE, no call
\* leaves the array and no item is used after realloc moved it; the check of
\* selector_register alone (fd > fd_size) does not give that for a smaller
\* table.
ServerTableNeverLeft ==
  fault \in {"outside_table", "stale_item"} => initial # ITEMS_MAX_SIZE

\* The jobs a worker inserted and the loop has not delivered are exactly the
\* ones on the list, once each, or the ones left of the list being walked:
\* the mutex lets no insertion be lost or delivered twice.
JobsAreConserved ==
  LET list == IF pc \in {"deliver", "on_block"} THEN rest ELSE jobs
  IN  /\ {list[k] : k \in DOMAIN list} = owed
      /\ Cardinality(owed) = Len(list)

\* A thread that sleeps in pselect while a finished job is on the list has
\* the signal pending, or a worker is about to send it: the wake-up cannot
\* fall between the look at the list and pselect.
WakeUpNotLost ==
  (pc = "pselect" /\ jobs # <<>>) => signal \/ \E w \in Fds : wpc[w] = "kill"

\* A job that was inserted is delivered, as long as pselect does not fail for
\* a descriptor that was closed and left registered and nobody destroys the
\* selector.
JobsAreDelivered ==
  \A w \in Fds : (w \in owed) ~> (w \notin owed \/ fault # "none" \/ pc = "destroy"
                                       \/ (pc = "pselect" /\ BadDescriptor))
=============================================================================
