---------------------------- MODULE Socks5Proofs ----------------------------
(***************************************************************************)
(* What Socks5.tla guarantees for every number of sessions, every limit on *)
(* descriptors, every size of the table and of the buffers, and whatever   *)
(* the peers and the kernel answer.                                        *)
(*                                                                         *)
(* The inductive invariant says, for every state of a session, which of    *)
(* its descriptors are in the table and what they wait for (InState); who  *)
(* owns each item and each descriptor (ItemsOwned, SessionsHold, Apart,    *)
(* ClientsOwned); and that a reply is offered to the client before the     *)
(* origin's first bytes are looked at when the client comes first in the   *)
(* walk (RepliesGoFirst).                                                  *)
(***************************************************************************)
EXTENDS Socks5, MinMaxLemmas, FiniteSetTheorems

-----------------------------------------------------------------------------
(* The inductive invariant.                                                *)

ItemType == [used : BOOLEAN, interest : Interest, data : Session \cup {NoData}]
SelType == [item : [ItemFd -> ItemType], max_fd : ItemFd]

\* A buffer holds something, or both its pointers are back at the start.
BufferType == {b \in [read : 0..BUFFER_SIZE, write : 0..BUFFER_SIZE] :
                 b.read < b.write \/ b = EmptyBuffer}

Origin == {"pending", "connected", "failed"}
Status == {"none", "general_failure", "connect_error", "succeeded", "command_not_supported"}

\* The states a session rests in: ERROR and DONE end in close_session.
AtRest == SessionState \ {"ERROR", "DONE"}

Methods == {SelectedMethod(offer) : offer \in Offers} \cup {UNSET}
Counters == [concurrentConnections : 0..UINT16_MAX, totalConnections : 0..UINT16_MAX]

SessionType ==
  [st : AtRest, cfd : Fd \cup {-1}, ofd : Fd \cup {-1},
   offer : Offers \cup {<<>>}, method : Methods,
   status : Status, input : BufferType, output : BufferType,
   duplex : [Side -> Interest], died : AtRest \cup {"none"}]

Types ==
  /\ sel \in SelType
  /\ slave_r \in SUBSET ItemFd /\ slave_w \in SUBSET ItemFd
  /\ kern \in [Fd -> FdKind]
  /\ sess \in [Session -> SessionType]
  /\ stadistics \in Counters
  /\ fault \in {"none", "no_read_handler", "no_write_handler", "use_after_free",
                "next_beyond_max_state", "check_interest_failed"}

\* The client waits for op and no origin is in the table.
ClientOnly(rec, item, interest) ==
  /\ item[rec.cfd].interest = interest
  /\ rec.ofd \in ItemFd => ~item[rec.ofd].used

\* Both ends are in the table.
BothEnds(rec, item) == rec.ofd \in ItemFd /\ item[rec.ofd].used

\* One end reads what the other end writes.
Paired(duplex) ==
  \A side \in Side : READ \in duplex[side] <=> WRITE \in duplex[other(side)]

\* What holds of a session whose client is in the table, state by state.
InState(rec, item) ==
  /\ rec.st \in {"start", "HELLO_READ", "HELLO_WRITE", "REQUEST_READ"} => rec.ofd = -1
  /\ rec.st \in {"start", "HELLO_READ", "REQUEST_READ", "REQUEST_CONNECTING"} =>
       rec.output = EmptyBuffer
  /\ rec.st \in {"start", "HELLO_READ", "REQUEST_READ"} => ClientOnly(rec, item, {READ})
  /\ rec.st \in {"REQUEST_READ", "REQUEST_CONNECTING"} => rec.status = "general_failure"
  /\ rec.st = "HELLO_WRITE" =>
       ClientOnly(rec, item, {WRITE}) /\ rec.method = SelectedMethod(rec.offer)
       /\ rec.offer \in Offers
  /\ rec.st = "REQUEST_CONNECTING" =>
       \/ ClientOnly(rec, item, {READ})
       \/ /\ BothEnds(rec, item)
          /\ item[rec.cfd].interest = {} /\ item[rec.ofd].interest = {WRITE}
  /\ rec.st = "REQUEST_WRITE" =>
       \/ ClientOnly(rec, item, {READ}) /\ rec.status = "command_not_supported"
       \/ /\ BothEnds(rec, item) /\ rec.status # "command_not_supported"
          /\ item[rec.cfd].interest = {WRITE} /\ item[rec.ofd].interest \subseteq {READ}
          /\ rec.output # EmptyBuffer
  /\ rec.st = "COPY" =>
       /\ BothEnds(rec, item) /\ Paired(rec.duplex)
       /\ item[rec.cfd].interest \subseteq rec.duplex["client"]
       /\ item[rec.ofd].interest \subseteq rec.duplex["server"]
       /\ item[rec.cfd].interest # {} \/ item[rec.ofd].interest # {}

\* An unused item is wiped; a used one is an open descriptor, below max_fd, of
\* the listener, of a live session, or the origin of one that was freed.
ItemsOwned ==
  \A fd \in ItemFd :
    /\ ~sel.item[fd].used => sel.item[fd] = UnusedItem
    /\ sel.item[fd].used => fd \in Open /\ fd <= sel.max_fd
    /\ sel.item[fd].used /\ fd # listener =>
         \E s \in Session :
           /\ sel.item[fd].data = s
           /\ \/ Live(s) /\ fd \in {sess[s].cfd, sess[s].ofd}
              \/ /\ sess[s].st = "freed" /\ fd = sess[s].ofd
                 /\ sel.item[fd].interest = {} \/ sess[s].died = "REQUEST_WRITE"

ListenerStays ==
  /\ kern[listener] = "listener"
  /\ sel.item[listener] = [used |-> TRUE, interest |-> OP_READ, data |-> NoData]

\* A session's origin stays open for ever; its client as long as it lives, and
\* in the table unless the number was beyond it, when the session never starts.
SessionsHold ==
  \A s \in Session : LET rec == sess[s] IN
    /\ rec.st = "unallocated" => rec.ofd = -1
    /\ rec.ofd # -1 => kern[rec.ofd] \in Origin
    /\ rec.ofd \in ItemFd /\ sel.item[rec.ofd].used => sel.item[rec.ofd].data = s
    /\ Live(s) =>
         /\ rec.cfd # -1 => kern[rec.cfd] = "client"
         /\ IF rec.cfd \in ItemFd
            THEN /\ sel.item[rec.cfd].used /\ sel.item[rec.cfd].data = s
                 /\ InState(rec, sel.item)
            ELSE rec.st = "start" /\ rec.ofd = -1

\* No two sessions have one descriptor.
Apart ==
  \A s, t \in Session : s # t =>
    /\ sess[s].ofd # -1 => sess[s].ofd # sess[t].ofd
    /\ Live(s) /\ Live(t) /\ sess[s].cfd # -1 => sess[s].cfd # sess[t].cfd

ClientsOwned ==
  \A fd \in Fd : kern[fd] = "client" => \E s \in Session : Live(s) /\ sess[s].cfd = fd

\* An origin can be readable while the reply waits only after the walk of an
\* earlier pselect, which reported the client writable too.
ReplyFirst(rec, item, readable, writable) ==
  /\ rec.st = "REQUEST_WRITE" /\ rec.status # "command_not_supported"
  /\ rec.output.read = 0 /\ rec.cfd < rec.ofd
  /\ rec.ofd \in readable /\ READ \in item[rec.ofd].interest
  => rec.cfd \in writable

RepliesGoFirst ==
  fault = "none" => \A s \in Session : ReplyFirst(sess[s], sel.item, slave_r, slave_w)

Ownership == ItemsOwned /\ ListenerStays /\ SessionsHold /\ Apart /\ ClientsOwned

\* The counter of open connections is a uint16_t that stops at its maximum.
FewSessions == IsFiniteSet(Session) /\ Cardinality(Session) <= UINT16_MAX

Counted == FewSessions => ConcurrentCountsSessions

Inv == Types /\ Ownership /\ RepliesGoFirst /\ AbortsHaveTheirCause /\ Counted

\* What HandlersTouchOwnItems says of one step.
TouchesOwn ==
  \A fd \in ItemFd :
    sel.item[fd].used /\ sel'.item[fd] # sel.item[fd]
      => sess'[sel.item[fd].data] # sess[sel.item[fd].data]

\* What is shown of every step.
Good == Inv' /\ TouchesOwn

-----------------------------------------------------------------------------
(* The table.                                                              *)

Bounded(table) == \A g \in ItemFd : table.item[g].used => g <= table.max_fd

\* Descriptor numbers.
LEMMA Numbers ==
  /\ -1 \notin Fd /\ -1 \notin ItemFd /\ listener \in Fd /\ listener \in ItemFd
  /\ \A fd \in Fd \cup ItemFd : fd \in Nat
  BY Socks5Assumption DEF Fd, ItemFd, listener

\* A descriptor is refused exactly if it is beyond the table.
LEMMA Valid ==
  ASSUME NEW fd \in Fd \cup ItemFd
  PROVE  INVALID_FD(fd) <=> fd \notin ItemFd
  BY Socks5Assumption DEF Fd, ItemFd, INVALID_FD

\* An item that is not used.
LEMMA UnusedIsItem ==
  /\ UnusedItem \in ItemType /\ ~UnusedItem.used
  /\ UnusedItem.interest = {} /\ UnusedItem.data = NoData
  BY DEF UnusedItem, ItemType, OP_NOOP, Interest

\* The table r is t but for the interest of fd.
Retuned(r, t, fd, interest) ==
  /\ r \in SelType /\ r.max_fd = t.max_fd
  /\ \A g \in ItemFd : g # fd => r.item[g] = t.item[g]
  /\ r.item[fd].used /\ r.item[fd].data = t.item[fd].data
  /\ r.item[fd].interest = interest
  /\ Bounded(t) => Bounded(r)

\* selector_set_interest changes the interest of one registered item.
LEMMA SetInterest ==
  ASSUME NEW t \in SelType, NEW fd \in ItemFd, t.item[fd].used, NEW interest \in Interest
  PROVE  Retuned(selector_set_interest(t, fd, interest), t, fd, interest)
<1> DEFINE new == [t.item[fd] EXCEPT !.interest = interest]
           items == [t.item EXCEPT ![fd] = new]
           r == selector_set_interest(t, fd, interest)
<1>1. set_interest_status(t, fd) = "SELECTOR_SUCCESS"
  BY Valid DEF set_interest_status, ITEM_USED
<1>2. r = [t EXCEPT !.item = items]
  BY <1>1 DEF selector_set_interest
<1>3. t.item \in [ItemFd -> ItemType] /\ t.max_fd \in ItemFd
  BY DEF SelType
<1>4. /\ new \in ItemType /\ new.interest = interest
      /\ new.used /\ new.data = t.item[fd].data
  BY <1>3 DEF ItemType
<1> HIDE DEF new
<1>5. /\ items \in [ItemFd -> ItemType]
      /\ \A g \in ItemFd : items[g] = IF g = fd THEN new ELSE t.item[g]
  BY <1>3, <1>4
<1> HIDE DEF items
<1>6. r \in SelType /\ r.item = items /\ r.max_fd = t.max_fd
  BY <1>2, <1>3, <1>5 DEF SelType
<1> HIDE DEF r
<1>7. /\ \A g \in ItemFd : g # fd => r.item[g] = t.item[g]
      /\ r.item[fd].used /\ r.item[fd].data = t.item[fd].data
      /\ r.item[fd].interest = interest
  BY <1>4, <1>5, <1>6
<1>8. Bounded(t) => Bounded(r)
  BY <1>6, <1>7 DEF Bounded
<1>9. Retuned(r, t, fd, interest)
  BY <1>6, <1>7, <1>8 DEF Retuned
<1> QED
  BY ONLY <1>9 DEF r

\* selector_register of a descriptor that is not in the table: refused beyond
\* the table's end, stored inside.
LEMMA Register ==
  ASSUME NEW t \in SelType, NEW fd \in Fd, fd \in ItemFd => ~t.item[fd].used,
         NEW interest \in Interest, NEW data \in Session \cup {NoData}
  PROVE  /\ register_status(t, fd) = "SELECTOR_SUCCESS" <=> fd \in ItemFd
         /\ selector_register(t, fd, interest, data) \in SelType
         /\ fd \notin ItemFd => selector_register(t, fd, interest, data) = t
         /\ \A g \in ItemFd :
              g # fd => selector_register(t, fd, interest, data).item[g] = t.item[g]
         /\ fd \in ItemFd =>
              selector_register(t, fd, interest, data).item[fd]
                = [used |-> TRUE, interest |-> interest, data |-> data]
         /\ Bounded(t) => Bounded(selector_register(t, fd, interest, data))
<1> DEFINE new == [used |-> TRUE, interest |-> interest, data |-> data]
           items == [t.item EXCEPT ![fd] = new]
           top == IF fd > t.max_fd THEN fd ELSE t.max_fd
           r == selector_register(t, fd, interest, data)
<1>1. register_status(t, fd) = "SELECTOR_SUCCESS" <=> fd \in ItemFd
  BY Valid DEF register_status, ITEM_USED
<1>2. t.item \in [ItemFd -> ItemType] /\ t.max_fd \in ItemFd
  BY DEF SelType
<1>3. CASE fd \notin ItemFd
  BY <1>1, <1>3 DEF selector_register
<1>4. CASE fd \in ItemFd
  <2>1. r = [item |-> items, max_fd |-> top]
    BY <1>1, <1>4 DEF selector_register
  <2>2. new \in ItemType /\ top \in ItemFd
    BY <1>2, <1>4 DEF ItemType
  <2>3. \A g \in ItemFd : g <= t.max_fd => g <= top
    BY <1>2, Numbers
  <2>4. fd <= top
    BY <1>2, <1>4, Numbers
  <2> HIDE DEF new, top
  <2>5. /\ items \in [ItemFd -> ItemType]
        /\ \A g \in ItemFd : items[g] = IF g = fd THEN new ELSE t.item[g]
    BY <1>2, <2>2
  <2> HIDE DEF items
  <2>6. r \in SelType /\ r.item = items /\ r.max_fd = top
    BY <2>1, <2>2, <2>5 DEF SelType
  <2> HIDE DEF r
  <2>7. Bounded(t) => Bounded(r)
    BY <1>4, <2>3, <2>4, <2>5, <2>6 DEF Bounded
  <2> QED
    BY <1>1, <1>4, <2>5, <2>6, <2>7 DEF r, new
<1> QED
  BY <1>3, <1>4

\* selector_unregister_fd wipes one item; max_fd still bounds the others.
LEMMA Unregister ==
  ASSUME NEW t \in SelType, Bounded(t), NEW fd \in ItemFd, t.item[fd].used
  PROVE  /\ selector_unregister_fd(t, fd) \in SelType
         /\ \A g \in ItemFd :
              g # fd => selector_unregister_fd(t, fd).item[g] = t.item[g]
         /\ selector_unregister_fd(t, fd).item[fd] = UnusedItem
         /\ Bounded(selector_unregister_fd(t, fd))
<1> DEFINE items == [t.item EXCEPT ![fd] = UnusedItem]
           cleared == [t EXCEPT !.item = items]
           used == {g \in 0..t.max_fd : items[g].used}
           all == {0} \cup used
           r == selector_unregister_fd(t, fd)
<1>1. r = [cleared EXCEPT !.max_fd = items_max_fd(cleared)]
  BY Valid DEF selector_unregister_fd, ITEM_USED
<1>2. t.item \in [ItemFd -> ItemType] /\ t.max_fd \in ItemFd
  BY DEF SelType
<1>3. /\ items \in [ItemFd -> ItemType] /\ items[fd] = UnusedItem
      /\ \A g \in ItemFd : g # fd => items[g] = t.item[g]
  BY <1>2, UnusedIsItem
<1> HIDE DEF items
<1>4. cleared \in SelType /\ cleared.item = items /\ cleared.max_fd = t.max_fd
  BY <1>2, <1>3 DEF SelType
<1>5. items_max_fd(cleared) = Max(all)
  BY <1>4 DEF items_max_fd, ITEM_USED
<1>6. used \subseteq 0..t.max_fd /\ t.max_fd \in Nat
  BY <1>2, Numbers
<1>7. all \subseteq 0..t.max_fd /\ all # {}
  BY <1>6
<1>8. Max(all) \in all /\ \A n \in all : n <= Max(all)
  <2> HIDE DEF all
  <2> QED
    BY <1>6, <1>7, MaxIsGreatest
<1>9. Max(all) \in ItemFd
  <2>1. Max(all) \in 0..t.max_fd
    <3> HIDE DEF all
    <3> QED
      BY <1>7, <1>8
  <2>2. \A n \in 0..t.max_fd : n \in ItemFd
    BY <1>2, Socks5Assumption DEF ItemFd
  <2> QED
    BY <2>1, <2>2
<1>10. r \in SelType /\ r.item = items /\ r.max_fd = Max(all)
  <2> DEFINE top == Max(all)
  <2> HIDE DEF cleared, top
  <2> QED
    BY <1>1, <1>4, <1>5, <1>9 DEF SelType, top
<1>11. ASSUME NEW g \in ItemFd, items[g].used
       PROVE  g <= Max(all)
  <2>1. g # fd /\ t.item[g].used
    BY <1>3, <1>11, UnusedIsItem
  <2>2. g <= t.max_fd /\ g \in Nat
    BY <2>1, Numbers DEF Bounded
  <2>3. g \in 0..t.max_fd
    BY <1>6, <2>2
  <2>4. g \in used
    BY <1>11, <2>3
  <2> HIDE DEF used
  <2> QED
    BY <1>8, <2>4
<1> HIDE DEF r
<1>12. Bounded(r)
  BY <1>10, <1>11 DEF Bounded
<1> QED
  BY <1>3, <1>10, <1>12 DEF r

-----------------------------------------------------------------------------
(* One session moves.                                                      *)

\* Session t becomes new while the table becomes table and the descriptors k:
\* only the ends of t are touched.
LocalStep(t, new, table, k) ==
  /\ t \in Session /\ new \in SessionType /\ table \in SelType /\ Bounded(table)
  /\ k \in [Fd -> FdKind] /\ new.st # "unallocated"
  /\ \/ Live(t) /\ new.cfd = sess[t].cfd /\ new.cfd \in ItemFd
     \/ /\ sess[t].st = "unallocated" /\ new.st = "start" /\ new.ofd = -1
        /\ new.cfd = -1 \/ kern[new.cfd] = "free"
  /\ \/ new.ofd = sess[t].ofd
     \/ sess[t].ofd = -1 /\ new.ofd \in Fd /\ kern[new.ofd] = "free"
  /\ \A g \in ItemFd : g \notin {new.cfd, new.ofd} => table.item[g] = sel.item[g]
  /\ \A g \in Fd : g \notin {new.cfd, new.ofd} => k[g] = kern[g]
  /\ new.ofd # -1 => k[new.ofd] \in Origin
  /\ new.ofd \in ItemFd =>
       \/ table.item[new.ofd] = UnusedItem
       \/ /\ table.item[new.ofd].used /\ table.item[new.ofd].data = t
          /\ new.st = "freed" =>
               table.item[new.ofd].interest = {} \/ new.died = "REQUEST_WRITE"
  /\ new.st = "freed" =>
       new.cfd \in ItemFd /\ k[new.cfd] = "free" /\ table.item[new.cfd] = UnusedItem
  /\ new.st # "freed" =>
       /\ new.cfd # -1 => k[new.cfd] = "client"
       /\ new.cfd \notin ItemFd => new.st = "start" /\ new.ofd = -1
       /\ new.cfd \in ItemFd => /\ table.item[new.cfd].used /\ table.item[new.cfd].data = t
                                /\ InState(new, table.item)

\* Nothing another session holds is touched, nor is the listener.
LEMMA Frame ==
  ASSUME Types, Ownership, NEW t, NEW new, NEW table, NEW k, LocalStep(t, new, table, k)
  PROVE  /\ \A s \in Session \ {t} :
              /\ sess[s].ofd # -1 => sess[s].ofd \notin {new.cfd, new.ofd}
              /\ Live(s) /\ sess[s].cfd # -1 => sess[s].cfd \notin {new.cfd, new.ofd}
         /\ listener \notin {new.cfd, new.ofd}
<1> USE DEF LocalStep
<1>1. new.cfd \in Fd \cup {-1} /\ new.ofd \in Fd \cup {-1}
  BY DEF SessionType
<1>2. \A s \in Session : sess[s].cfd \in Fd \cup {-1} /\ sess[s].ofd \in Fd \cup {-1}
  BY DEF Types, SessionType
<1>3. /\ new.cfd # -1 => kern[new.cfd] = "free" \/ (Live(t) /\ kern[new.cfd] = "client")
      /\ new.ofd # -1 => kern[new.ofd] = "free" \/
                         (new.ofd = sess[t].ofd /\ kern[new.ofd] \in Origin)
  BY <1>1, <1>2 DEF Ownership, SessionsHold
<1>4. ASSUME NEW s \in Session \ {t}, sess[s].ofd # -1
      PROVE  sess[s].ofd \notin {new.cfd, new.ofd}
  <2>1. kern[sess[s].ofd] \in Origin
    BY <1>4 DEF Ownership, SessionsHold
  <2>2. sess[s].ofd # sess[t].ofd
    BY <1>4 DEF Ownership, Apart
  <2> QED
    BY <1>3, <1>4, <2>1, <2>2 DEF Origin
<1>5. ASSUME NEW s \in Session \ {t}, Live(s), sess[s].cfd # -1
      PROVE  sess[s].cfd \notin {new.cfd, new.ofd}
  <2>1. kern[sess[s].cfd] = "client"
    BY <1>5 DEF Ownership, SessionsHold
  <2>2. Live(t) => sess[s].cfd # sess[t].cfd
    BY <1>5 DEF Ownership, Apart
  <2> QED
    BY <1>3, <1>5, <2>1, <2>2 DEF Origin
<1>6. kern[listener] = "listener" /\ listener # -1
  BY Numbers DEF Ownership, ListenerStays, listener
<1> QED
  BY <1>3, <1>4, <1>5, <1>6 DEF Origin

\* InState looks at the items of the session's own ends only.
LEMMA InStateLocal ==
  ASSUME NEW rec, NEW item, NEW item2, rec.cfd \in ItemFd, item2[rec.cfd] = item[rec.cfd],
         rec.ofd \in ItemFd => item2[rec.ofd] = item[rec.ofd], InState(rec, item)
  PROVE  InState(rec, item2)
  BY DEF InState, ClientOnly, BothEnds

\* Who owns what after a step of one session.
LEMMA OwnershipKept ==
  ASSUME Types, Ownership, NEW t, NEW new, NEW table, NEW k, LocalStep(t, new, table, k),
         sess' = [sess EXCEPT ![t] = new], sel' = table, kern' = k
  PROVE  Ownership'
<1>1. t \in Session /\ sess'[t] = new /\ \A s \in Session \ {t} : sess'[s] = sess[s]
  BY DEF LocalStep, Types
<1>2. \A s \in Session : sess[s].cfd \in Fd \cup {-1} /\ sess[s].ofd \in Fd \cup {-1}
  BY DEF Types, SessionType
<1>3. new.cfd \in Fd \cup {-1} /\ new.ofd \in Fd \cup {-1}
  BY DEF LocalStep, SessionType
<1>4. /\ \A s \in Session \ {t} :
           /\ sess[s].ofd # -1 => sess[s].ofd \notin {new.cfd, new.ofd}
           /\ Live(s) /\ sess[s].cfd # -1 => sess[s].cfd \notin {new.cfd, new.ofd}
      /\ listener \notin {new.cfd, new.ofd}
  BY Frame
<1>5. /\ \A g \in ItemFd : g \notin {new.cfd, new.ofd} => sel'.item[g] = sel.item[g]
      /\ \A g \in Fd : g \notin {new.cfd, new.ofd} => kern'[g] = kern[g]
  BY DEF LocalStep
<1>6. \A s \in Session \ {t} : Live(s)' <=> Live(s)
  BY <1>1 DEF Live
<1>7. Live(t)' <=> new.st # "freed"
  BY <1>1 DEF Live, LocalStep
<1>8. ItemsOwned'
  <2> SUFFICES ASSUME NEW g \in ItemFd
               PROVE  /\ ~sel'.item[g].used => sel'.item[g] = UnusedItem
                      /\ sel'.item[g].used => g \in Open' /\ g <= sel'.max_fd
                      /\ sel'.item[g].used /\ g # listener =>
                           \E s \in Session :
                             /\ sel'.item[g].data = s
                             /\ \/ Live(s)' /\ g \in {sess'[s].cfd, sess'[s].ofd}
                                \/ /\ sess'[s].st = "freed" /\ g = sess'[s].ofd
                                   /\ \/ sel'.item[g].interest = {}
                                      \/ sess'[s].died = "REQUEST_WRITE"
    BY DEF ItemsOwned
  <2>1. sel'.item[g].used => g <= sel'.max_fd
    BY DEF LocalStep, Bounded
  <2>2. CASE g = new.cfd
    <3>1. CASE new.st = "freed"
      BY <2>2, <3>1, UnusedIsItem DEF LocalStep
    <3>2. CASE new.st # "freed"
      <4>1. sel'.item[g].used /\ sel'.item[g].data = t
        BY <2>2, <3>2 DEF LocalStep
      <4>2. g \in Open'
        BY <1>3, <2>2, <3>2, Numbers DEF LocalStep, Open
      <4> QED
        BY <1>1, <1>7, <2>1, <2>2, <3>2, <4>1, <4>2
    <3> QED
      BY <3>1, <3>2
  <2>3. CASE g = new.ofd
    <3>1. g \in Open'
      BY <1>3, <2>3, Numbers DEF LocalStep, Open, Origin
    <3>2. CASE sel'.item[g] = UnusedItem
      BY <3>2, UnusedIsItem
    <3>3. CASE /\ sel'.item[g].used /\ sel'.item[g].data = t
               /\ new.st = "freed" =>
                    sel'.item[g].interest = {} \/ new.died = "REQUEST_WRITE"
      BY <1>1, <1>7, <2>1, <2>3, <3>1, <3>3
    <3> QED
      BY <2>3, <3>2, <3>3 DEF LocalStep
  <2>4. CASE g \notin {new.cfd, new.ofd}
    <3>1. sel'.item[g] = sel.item[g]
      BY <1>5, <2>4
    <3>2. ~sel.item[g].used => sel.item[g] = UnusedItem
      BY DEF Ownership, ItemsOwned
    <3>3. sel.item[g].used => g \in Open'
      BY <1>5, <2>4 DEF Ownership, ItemsOwned, Open
    <3>4. ASSUME sel.item[g].used, g # listener
          PROVE  \E s \in Session :
                   /\ sel'.item[g].data = s
                   /\ \/ Live(s)' /\ g \in {sess'[s].cfd, sess'[s].ofd}
                      \/ /\ sess'[s].st = "freed" /\ g = sess'[s].ofd
                         /\ sel'.item[g].interest = {} \/ sess'[s].died = "REQUEST_WRITE"
      <4>1. PICK s \in Session :
              /\ sel.item[g].data = s
              /\ \/ Live(s) /\ g \in {sess[s].cfd, sess[s].ofd}
                 \/ /\ sess[s].st = "freed" /\ g = sess[s].ofd
                    /\ sel.item[g].interest = {} \/ sess[s].died = "REQUEST_WRITE"
        BY <3>4 DEF Ownership, ItemsOwned
      <4>2. s # t
        BY <2>4, <4>1, Numbers DEF LocalStep, Live
      <4>3. sess'[s] = sess[s] /\ (Live(s)' <=> Live(s))
        BY <1>1, <1>6, <4>1, <4>2
      <4> QED
        BY <3>1, <4>1, <4>3
    <3> QED
      BY <2>1, <3>1, <3>2, <3>3, <3>4
  <2> QED
    BY <2>2, <2>3, <2>4
<1>9. ListenerStays'
  BY <1>4, <1>5, Numbers DEF Ownership, ListenerStays
<1>10. SessionsHold'
  <2> SUFFICES ASSUME NEW s \in Session
               PROVE  /\ sess'[s].st = "unallocated" => sess'[s].ofd = -1
                      /\ sess'[s].ofd # -1 => kern'[sess'[s].ofd] \in Origin
                      /\ sess'[s].ofd \in ItemFd /\ sel'.item[sess'[s].ofd].used
                           => sel'.item[sess'[s].ofd].data = s
                      /\ Live(s)' =>
                           /\ sess'[s].cfd # -1 => kern'[sess'[s].cfd] = "client"
                           /\ IF sess'[s].cfd \in ItemFd
                              THEN /\ sel'.item[sess'[s].cfd].used
                                   /\ sel'.item[sess'[s].cfd].data = s
                                   /\ InState(sess'[s], sel'.item)
                              ELSE sess'[s].st = "start" /\ sess'[s].ofd = -1
    BY DEF SessionsHold
  <2>1. CASE s = t
    <3>1. /\ new.st # "unallocated"
          /\ new.ofd # -1 => kern'[new.ofd] \in Origin
          /\ new.ofd \in ItemFd /\ sel'.item[new.ofd].used => sel'.item[new.ofd].data = t
      BY UnusedIsItem DEF LocalStep
    <3>2. new.st # "freed" =>
             /\ new.cfd # -1 => kern'[new.cfd] = "client"
             /\ new.cfd \notin ItemFd => new.st = "start" /\ new.ofd = -1
             /\ new.cfd \in ItemFd => /\ sel'.item[new.cfd].used /\ sel'.item[new.cfd].data = t
                                      /\ InState(new, sel'.item)
      BY DEF LocalStep
    <3> QED
      BY <1>1, <1>7, <2>1, <3>1, <3>2
  <2>2. CASE s # t
    <3> DEFINE rec == sess[s]
    <3>1. sess'[s] = rec /\ (Live(s)' <=> Live(s))
      BY <1>1, <1>6, <2>2
    <3>2. /\ rec.st = "unallocated" => rec.ofd = -1
          /\ rec.ofd # -1 => kern[rec.ofd] \in Origin
          /\ rec.ofd \in ItemFd /\ sel.item[rec.ofd].used => sel.item[rec.ofd].data = s
          /\ Live(s) =>
               /\ rec.cfd # -1 => kern[rec.cfd] = "client"
               /\ rec.cfd \in ItemFd => /\ sel.item[rec.cfd].used /\ sel.item[rec.cfd].data = s
                                        /\ InState(rec, sel.item)
               /\ rec.cfd \notin ItemFd => rec.st = "start" /\ rec.ofd = -1
      BY DEF Ownership, SessionsHold
    <3>3. /\ rec.cfd \in Fd \cup {-1} /\ rec.ofd \in Fd \cup {-1}
          /\ rec.ofd # -1 => rec.ofd \notin {new.cfd, new.ofd}
          /\ Live(s) /\ rec.cfd # -1 => rec.cfd \notin {new.cfd, new.ofd}
      BY <1>2, <1>4, <2>2
    <3> HIDE DEF rec
    <3>4. /\ rec.ofd # -1 => kern'[rec.ofd] = kern[rec.ofd]
          /\ rec.ofd \in ItemFd => sel'.item[rec.ofd] = sel.item[rec.ofd]
          /\ Live(s) /\ rec.cfd # -1 => kern'[rec.cfd] = kern[rec.cfd]
          /\ Live(s) /\ rec.cfd \in ItemFd => sel'.item[rec.cfd] = sel.item[rec.cfd]
      BY <1>5, <3>3, Numbers
    <3>5. Live(s) /\ rec.cfd \in ItemFd => InState(rec, sel'.item)
      BY <3>2, <3>4, InStateLocal
    <3> QED
      BY <3>1, <3>2, <3>4, <3>5
  <2> QED
    BY <2>1, <2>2
<1>11. Apart'
  <2> SUFFICES ASSUME NEW s \in Session, NEW u \in Session, s # u
               PROVE  /\ sess'[s].ofd # -1 => sess'[s].ofd # sess'[u].ofd
                      /\ Live(s)' /\ Live(u)' /\ sess'[s].cfd # -1 =>
                           sess'[s].cfd # sess'[u].cfd
    BY DEF Apart
  <2>1. CASE s # t /\ u # t
    BY <1>1, <1>6, <2>1 DEF Ownership, Apart
  <2>2. CASE s = t
    BY <1>1, <1>4, <1>6, <2>2
  <2>3. CASE u = t
    BY <1>1, <1>4, <1>6, <2>3
  <2> QED
    BY <2>1, <2>2, <2>3
<1>12. ClientsOwned'
  <2> SUFFICES ASSUME NEW g \in Fd, kern'[g] = "client"
               PROVE  \E s \in Session : Live(s)' /\ sess'[s].cfd = g
    BY DEF ClientsOwned
  <2>1. CASE g = new.cfd
    BY <1>1, <1>7, <2>1 DEF LocalStep
  <2>2. CASE g = new.ofd
    BY <2>2, Numbers DEF LocalStep, Origin
  <2>3. CASE g \notin {new.cfd, new.ofd}
    <3>1. PICK s \in Session : Live(s) /\ sess[s].cfd = g
      BY <1>5, <2>3 DEF Ownership, ClientsOwned
    <3>2. s # t
      BY <2>3, <3>1 DEF LocalStep, Live
    <3> QED
      BY <1>1, <1>6, <3>1, <3>2
  <2> QED
    BY <2>1, <2>2, <2>3
<1> QED
  BY <1>8, <1>9, <1>10, <1>11, <1>12 DEF Ownership

-----------------------------------------------------------------------------
(* A handler call.                                                         *)

\* The origin of the session that just moved cannot be read before its client
\* took the reply: it was not asked for, or the walk is past it.
ReplySafe(new, table, fd) ==
  \/ new.st # "REQUEST_WRITE" \/ new.status = "command_not_supported"
  \/ new.output.read # 0 \/ new.ofd <= fd
  \/ READ \notin table.item[new.ofd].interest

\* The walk never passes a client that waits to take its reply: a session that
\* does not run now keeps its order.
LEMMA OthersReplyFirst ==
  ASSUME Inv, NEW fd \in ItemFd, NEW op, IsNext(fd, op), Walk(fd, op),
         NEW s \in Session, sel.item[fd].data # s
  PROVE  ReplyFirst(sess[s], sel.item, slave_r', slave_w')
<1> USE DEF Inv
<1> DEFINE rec == sess[s]
<1>1. SUFFICES ASSUME rec.st = "REQUEST_WRITE", rec.status # "command_not_supported",
                      rec.output.read = 0, rec.cfd < rec.ofd,
                      rec.ofd \in slave_r', READ \in sel.item[rec.ofd].interest
               PROVE  rec.cfd \in slave_w'
  BY DEF ReplyFirst
<1>2. rec.ofd \in slave_r
  BY <1>1 DEF Walk
<1>3. ReplyFirst(rec, sel.item, slave_r, slave_w)
  BY DEF RepliesGoFirst, IsNext
<1>4. rec.cfd \in slave_w
  BY <1>1, <1>2, <1>3 DEF ReplyFirst
<1>5. /\ rec.cfd \in ItemFd /\ sel.item[rec.cfd].used /\ sel.item[rec.cfd].data = s
      /\ InState(rec, sel.item)
  BY <1>1 DEF Ownership, SessionsHold, Live
<1>6. WRITE \in sel.item[rec.cfd].interest
  BY <1>1, <1>5 DEF InState
<1>7. Ready(rec.cfd, WRITE)
  BY <1>4, <1>5, <1>6 DEF Ready, ITEM_USED, READ, WRITE
<1>8. ~(rec.cfd < fd)
  BY <1>5, <1>7 DEF IsNext
<1>9. rec.cfd # fd
  BY <1>5
<1>10. rec.cfd > fd
  BY <1>5, <1>8, <1>9, Numbers
<1> QED
  BY <1>4, <1>10 DEF Walk

\* A handler whose own session keeps to that order keeps it for all of them.
LEMMA RepliesKept ==
  ASSUME Inv, NEW fd \in ItemFd, NEW op, IsNext(fd, op), Walk(fd, op),
         NEW t, NEW new, NEW table, NEW k, LocalStep(t, new, table, k),
         sel.item[fd].data \in {t, NoData}, ReplySafe(new, table, fd),
         sess' = [sess EXCEPT ![t] = new], sel' = table
  PROVE  RepliesGoFirst'
<1> USE DEF Inv
<1> SUFFICES ASSUME NEW s \in Session
             PROVE  ReplyFirst(sess'[s], sel'.item, slave_r', slave_w')
  BY DEF RepliesGoFirst
<1>1. t \in Session /\ sess'[t] = new /\ \A u \in Session \ {t} : sess'[u] = sess[u]
  BY DEF LocalStep, Types
<1>2. \A g \in slave_r' : g \in slave_r /\ g > fd /\ g \in ItemFd
  BY DEF Walk, Types
<1>3. CASE s = t
  <2>1. ~(new.ofd \in slave_r' /\ new.ofd <= fd)
    BY <1>2, Numbers
  <2> QED
    BY <1>1, <1>3, <2>1 DEF ReplyFirst, ReplySafe
<1>4. CASE s # t
  <2>1. sess'[s] = sess[s]
    BY <1>1, <1>4
  <2>2. ReplyFirst(sess[s], sel.item, slave_r', slave_w')
    BY <1>4, OthersReplyFirst, Socks5Assumption
  <2>3. sess[s].ofd \in slave_r' => sel'.item[sess[s].ofd] = sel.item[sess[s].ofd]
    <3> SUFFICES ASSUME sess[s].ofd \in slave_r'
                 PROVE  sel'.item[sess[s].ofd] = sel.item[sess[s].ofd]
      OBVIOUS
    <3>1. sess[s].ofd \in ItemFd /\ sess[s].ofd # -1
      BY <1>2, Numbers
    <3>2. sess[s].ofd \notin {new.cfd, new.ofd}
      BY <1>4, <3>1, Frame
    <3> QED
      BY <3>1, <3>2 DEF LocalStep
  <2> QED
    BY <2>1, <2>2, <2>3 DEF ReplyFirst
<1> QED
  BY <1>3, <1>4

\* A handler that moved one session and killed nothing keeps the invariant.
LEMMA Kept ==
  ASSUME Inv, NEW fd \in ItemFd, NEW op, IsNext(fd, op), Walk(fd, op),
         NEW t, NEW new, NEW table, NEW k, LocalStep(t, new, table, k),
         sel.item[fd].data \in {t, NoData}, ReplySafe(new, table, fd),
         sess' = [sess EXCEPT ![t] = new], sel' = table, kern' = k,
         fault' = fault, stadistics' \in Counters, Counted', new # sess[t] \/ table = sel
  PROVE  Good
<1>1. Types'
  <2>1. /\ sel' \in SelType /\ kern' \in [Fd -> FdKind]
        /\ sess' \in [Session -> SessionType]
    BY DEF LocalStep, Inv, Types
  <2>2. slave_r' \in SUBSET ItemFd /\ slave_w' \in SUBSET ItemFd
    BY DEF Walk, Inv, Types
  <2> QED
    BY <2>1, <2>2 DEF Inv, Types
<1>2. Ownership'
  BY OwnershipKept DEF Inv
<1>3. RepliesGoFirst'
  BY RepliesKept
<1>4. AbortsHaveTheirCause'
  BY DEF IsNext, AbortsHaveTheirCause
<1>5. TouchesOwn
  <2> SUFFICES ASSUME NEW g \in ItemFd, sel.item[g].used, sel'.item[g] # sel.item[g]
               PROVE  sess'[sel.item[g].data] # sess[sel.item[g].data]
    BY DEF TouchesOwn
  <2>1. t \in Session /\ sess'[t] = new /\ new # sess[t]
    BY DEF LocalStep, Inv, Types
  <2>2. g \in {new.cfd, new.ofd}
    BY DEF LocalStep
  <2>3. g \in Open
    BY DEF Inv, Ownership, ItemsOwned
  <2>4. g \in {sess[t].cfd, sess[t].ofd} /\ (g = sess[t].cfd => Live(t))
    BY <2>2, <2>3, Numbers DEF LocalStep, Open, Inv, Ownership, SessionsHold
  <2>5. sel.item[g].data = t
    BY <2>1, <2>4 DEF Inv, Ownership, SessionsHold
  <2> QED
    BY <2>1, <2>5
<1> QED
  BY <1>1, <1>2, <1>3, <1>4, <1>5 DEF Inv, Good

\* What a handler leaves behind before Return: t's own ends changed at most.
Handled(t, rec, table, k) ==
  /\ rec \in SessionType /\ table \in SelType /\ Bounded(table) /\ k \in [Fd -> FdKind]
  /\ rec.st = sess[t].st /\ rec.cfd = sess[t].cfd /\ rec.cfd \in ItemFd /\ rec.cfd \in Fd
  /\ \/ rec.ofd = sess[t].ofd
     \/ sess[t].ofd = -1 /\ rec.ofd \in Fd /\ kern[rec.ofd] = "free"
  /\ \A g \in ItemFd : g \notin {rec.cfd, rec.ofd} => table.item[g] = sel.item[g]
  /\ table.item[rec.cfd].used /\ table.item[rec.cfd].data = t
  /\ rec.ofd \in ItemFd => \/ table.item[rec.ofd] = UnusedItem
                           \/ table.item[rec.ofd].used /\ table.item[rec.ofd].data = t
  /\ \A g \in Fd : g # rec.ofd => k[g] = kern[g]
  /\ rec.ofd # -1 => k[rec.ofd] \in Origin

\* The state machine moves to a state with handlers.
Going == StmState \ {"ERROR", "DONE"}

\* jump without the end of the session: state, buffers and descriptors of the new
\* state, and the arrival function that runs on the way.
LEMMA Jump ==
  ASSUME NEW rec \in SessionType, NEW ret \in Going
  PROVE  /\ jump(rec, ret) \in SessionType
         /\ jump(rec, ret).st = ret
         /\ jump(rec, ret).cfd = rec.cfd /\ jump(rec, ret).ofd = rec.ofd
         /\ jump(rec, ret).input = rec.input /\ jump(rec, ret).output = rec.output
         /\ jump(rec, ret).offer = rec.offer /\ jump(rec, ret).method = rec.method
         /\ ret # "REQUEST_READ" => jump(rec, ret).status = rec.status
         /\ ret = "REQUEST_READ" /\ rec.st # ret => jump(rec, ret).status = "general_failure"
         /\ ret = "COPY" /\ rec.st # ret =>
              jump(rec, ret).duplex = [side \in Side |-> {READ, WRITE}]
         /\ rec.st = ret => jump(rec, ret) = rec
<1>1. ret \in AtRest
  BY DEF Going, AtRest, SessionState, StmState
<1>2. CASE rec.st = ret
  BY <1>2 DEF jump
<1>3. CASE rec.st # ret
  <2>1. jump(rec, ret) = [arrival(rec, ret) EXCEPT !.st = ret]
    BY <1>3 DEF jump
  <2>2. CASE ret = "REQUEST_READ"
    <3>1. arrival(rec, ret) = [rec EXCEPT !.status = "general_failure"]
      BY <2>2 DEF arrival
    <3>2. "general_failure" \in Status
      BY DEF Status
    <3> QED
      BY <1>1, <1>3, <2>1, <2>2, <3>1, <3>2 DEF SessionType
  <2>3. CASE ret = "COPY"
    <3> DEFINE full == [side \in Side |-> {READ, WRITE}]
    <3>1. arrival(rec, ret) = [rec EXCEPT !.duplex = full]
      BY <2>3 DEF arrival
    <3>2. full \in [Side -> Interest]
      BY DEF Interest
    <3> HIDE DEF full
    <3>3. jump(rec, ret) = [[rec EXCEPT !.duplex = full] EXCEPT !.st = ret]
      BY <2>1, <3>1
    <3>4. jump(rec, ret).duplex = full
      BY <3>3 DEF SessionType
    <3>5. jump(rec, ret) \in SessionType
      BY <1>1, <3>2, <3>3 DEF SessionType
    <3>6. /\ jump(rec, ret).st = ret
         /\ jump(rec, ret).cfd = rec.cfd /\ jump(rec, ret).ofd = rec.ofd
         /\ jump(rec, ret).input = rec.input /\ jump(rec, ret).output = rec.output
         /\ jump(rec, ret).offer = rec.offer /\ jump(rec, ret).method = rec.method
         /\ jump(rec, ret).status = rec.status
      BY <3>3 DEF SessionType
    <3> QED
      BY <1>3, <2>3, <3>4, <3>5, <3>6 DEF full
  <2>4. CASE ret \notin {"REQUEST_READ", "COPY"}
    <3>1. arrival(rec, ret) = rec
      BY <2>4 DEF arrival
    <3> QED
      BY <1>1, <1>3, <2>1, <2>4, <3>1 DEF SessionType
  <2> QED
    BY <2>2, <2>3, <2>4
<1> QED
  BY <1>2, <1>3

\* The session goes on in state ret.
LEMMA Stays ==
  ASSUME Inv, NEW fd \in ItemFd, NEW op, NEW t \in Session, NEW st, Handle(fd, op, t, st),
         Live(t), NEW rec, NEW table, NEW k, Handled(t, rec, table, k),
         k[rec.cfd] = "client", NEW ret \in Going, Return(t, ret, rec, table, k),
         InState(jump(rec, ret), table.item), ReplySafe(jump(rec, ret), table, fd),
         ret # sess[t].st \/ rec # sess[t] \/ table = sel
  PROVE  Good
<1> DEFINE new == jump(rec, ret)
<1>1. /\ fault' = fault /\ sess' = [sess EXCEPT ![t] = new] /\ sel' = table /\ kern' = k
      /\ stadistics' = stadistics
  BY DEF Return, Going
<1>2. /\ new \in SessionType /\ new.st = ret /\ new.cfd = rec.cfd /\ new.ofd = rec.ofd
  BY Jump DEF Handled
<1> HIDE DEF new
<1>3. ret # "unallocated" /\ ret # "freed"
  BY DEF Going, StmState
<1>4. InState(new, table.item) /\ ReplySafe(new, table, fd)
  BY DEF new
<1>5. LocalStep(t, new, table, k)
  BY <1>2, <1>3, <1>4 DEF Handled, LocalStep
<1>6. IsNext(fd, op) /\ Walk(fd, op) /\ sel.item[fd].data \in {t, NoData}
  BY DEF Handle
<1>7. stadistics' \in Counters
  BY <1>1 DEF Inv, Types
<1>8. Counted'
  <2>1. \A s \in Session : Live(s)' <=> Live(s)
    BY <1>1, <1>2, <1>3 DEF Live, Inv, Types
  <2>2. {s \in Session : Live(s)'} = {s \in Session : Live(s)}
    BY <2>1
  <2> QED
    BY <1>1, <2>2 DEF Inv, Counted, ConcurrentCountsSessions
<1>9. new # sess[t] \/ table = sel
  <2>1. rec.st = ret => new = rec
    BY Jump DEF Handled, new
  <2> QED
    BY <1>2, <2>1 DEF Handled
<1> QED
  BY <1>1, <1>4, <1>5, <1>6, <1>7, <1>8, <1>9, Kept

\* The counter of open connections stays a counter.
LEMMA DecreaseType ==
  ASSUME NEW c \in Counters
  PROVE  stadistics_decrease_concurrent(c) \in Counters
<1> DEFINE n == c.concurrentConnections
           down == IF n > 0 THEN n - 1 ELSE n
<1>1. n \in 0..UINT16_MAX
  BY DEF Counters
<1>2. down \in 0..UINT16_MAX
  <2>1. UINT16_MAX \in Nat
    BY DEF UINT16_MAX
  <2> HIDE DEF n
  <2> QED
    BY <1>1, <2>1
<1>3. stadistics_decrease_concurrent(c) = [c EXCEPT !.concurrentConnections = down]
  BY DEF stadistics_decrease_concurrent
<1> HIDE DEF down
<1> QED
  BY <1>2, <1>3 DEF Counters

\* One session more, one session less.
LEMMA Cardinalities ==
  ASSUME FewSessions, NEW S, S \subseteq Session
  PROVE  /\ Cardinality(S) \in Nat
         /\ \A t \in S : Cardinality(S) > 0 /\ Cardinality(S \ {t}) = Cardinality(S) - 1
         /\ \A t \in Session \ S : /\ Cardinality(S \cup {t}) = Cardinality(S) + 1
                                   /\ Cardinality(S) < UINT16_MAX
<1>1. IsFiniteSet(Session) /\ Cardinality(Session) \in Nat /\ Cardinality(Session) <= UINT16_MAX
  BY FS_CardinalityType DEF FewSessions
<1>2. IsFiniteSet(S) /\ Cardinality(S) \in Nat
  BY <1>1, FS_Subset, FS_CardinalityType
<1>3. ASSUME NEW t \in S
      PROVE  Cardinality(S) > 0 /\ Cardinality(S \ {t}) = Cardinality(S) - 1
  <2>1. Cardinality(S) # 0
    BY <1>2, FS_EmptySet
  <2>2. Cardinality(S \ {t}) = Cardinality(S) - 1
    BY <1>2, FS_RemoveElement
  <2> QED
    BY <1>2, <2>1, <2>2
<1>4. ASSUME NEW t \in Session \ S
      PROVE  Cardinality(S \cup {t}) = Cardinality(S) + 1 /\ Cardinality(S) < UINT16_MAX
  <2> DEFINE T == S \cup {t}
  <2>1. Cardinality(T) = Cardinality(S) + 1
    BY <1>2, FS_AddElement
  <2>2. T \subseteq Session
    OBVIOUS
  <2> HIDE DEF T
  <2>3. Cardinality(T) <= Cardinality(Session)
    BY <1>1, <2>2, FS_Subset
  <2>4. UINT16_MAX \in Nat
    BY DEF UINT16_MAX
  <2> QED
    BY <1>1, <1>2, <2>1, <2>3, <2>4 DEF T
<1> QED
  BY <1>2, <1>3, <1>4

\* The session ends: close_session.
LEMMA Closes ==
  ASSUME Inv, NEW fd \in ItemFd, NEW op, NEW t \in Session, NEW st, Handle(fd, op, t, st),
         Live(t), NEW rec, NEW table, NEW k, Handled(t, rec, table, k),
         NEW ret \in {"ERROR", "DONE"}, Return(t, ret, rec, table, k),
         rec.ofd \in ItemFd /\ table.item[rec.ofd].used =>
           table.item[rec.ofd].interest = {} \/ st = "REQUEST_WRITE"
  PROVE  Good
<1> DEFINE new == [jump(rec, ret) EXCEPT !.st = "freed", !.died = current(t)]
           closed == selector_unregister_fd(table, rec.cfd)
           k2 == [k EXCEPT ![rec.cfd] = "free"]
<1>1. rec \in SessionType /\ rec.st \in AtRest /\ rec.st # ret
  BY DEF Handled, SessionType, AtRest
<1>2. jump(rec, ret) = [rec EXCEPT !.st = ret]
  BY <1>1 DEF jump, arrival
<1>3. current(t) \in AtRest /\ "freed" \in AtRest /\ current(t) = st
  BY <1>1 DEF current, AtRest, SessionState, StmState, Handled, Handle
<1>4. /\ new \in SessionType /\ new.st = "freed" /\ new.cfd = rec.cfd /\ new.ofd = rec.ofd
      /\ new.died = st
  BY <1>1, <1>2, <1>3 DEF SessionType
<1>5. ret \in StmState
  BY DEF StmState
<1>6. /\ fault' = fault /\ sess' = [sess EXCEPT ![t] = new] /\ sel' = closed /\ kern' = k2
      /\ stadistics' = stadistics_decrease_concurrent(stadistics)
  <2>1. jump(rec, ret).cfd = rec.cfd
    BY <1>1, <1>2 DEF SessionType
  <2> QED
    BY <1>5, <2>1 DEF Return, close_session
<1> HIDE DEF new
<1>7. rec.cfd # rec.ofd
  <2>1. kern[rec.cfd] = "client"
    BY Numbers DEF Handled, Inv, Ownership, SessionsHold
  <2>2. sess[t].ofd # -1 => kern[sess[t].ofd] \in Origin
    BY DEF Inv, Ownership, SessionsHold
  <2> QED
    BY <2>1, <2>2, Numbers DEF Handled, Origin
<1>8. /\ closed \in SelType /\ Bounded(closed) /\ closed.item[rec.cfd] = UnusedItem
      /\ \A g \in ItemFd : g # rec.cfd => closed.item[g] = table.item[g]
  BY Unregister DEF Handled
<1> HIDE DEF closed
<1>9. /\ k2 \in [Fd -> FdKind] /\ k2[rec.cfd] = "free"
      /\ \A g \in Fd : g # rec.cfd => k2[g] = k[g]
  BY DEF Handled, FdKind
<1> HIDE DEF k2
<1>10. LocalStep(t, new, closed, k2)
  <2>1. rec.ofd \in ItemFd => closed.item[rec.ofd] = table.item[rec.ofd]
    BY <1>7, <1>8
  <2>2. rec.ofd \in Fd \cup {-1}
    BY <1>1 DEF SessionType
  <2>3. rec.ofd # -1 => k2[rec.ofd] = k[rec.ofd]
    BY <1>7, <1>9, <2>2
  <2>4. \A g \in ItemFd : g \notin {rec.cfd, rec.ofd} => closed.item[g] = sel.item[g]
    BY <1>8 DEF Handled
  <2>5. \A g \in Fd : g \notin {rec.cfd, rec.ofd} => k2[g] = kern[g]
    BY <1>9 DEF Handled
  <2> QED
    BY <1>4, <1>8, <1>9, <2>1, <2>3, <2>4, <2>5 DEF Handled, LocalStep
<1>11. IsNext(fd, op) /\ Walk(fd, op) /\ sel.item[fd].data \in {t, NoData}
  BY DEF Handle
<1>12. stadistics' \in Counters
  BY <1>6, DecreaseType DEF Inv, Types
<1>13. ReplySafe(new, closed, fd)
  BY <1>4 DEF ReplySafe
<1>14. Counted'
  <2> SUFFICES ASSUME FewSessions
               PROVE  ConcurrentCountsSessions'
    BY DEF Counted
  <2> DEFINE S == {s \in Session : Live(s)}
             n == stadistics.concurrentConnections
  <2>1. n = Cardinality(S)
    BY DEF Inv, Counted, ConcurrentCountsSessions
  <2>2. {s \in Session : Live(s)'} = S \ {t}
    BY <1>4, <1>6 DEF Live, Inv, Types
  <2>3. t \in S /\ S \subseteq Session
    OBVIOUS
  <2> HIDE DEF S
  <2>4. Cardinality(S) \in Nat /\ Cardinality(S) > 0 /\ Cardinality(S \ {t}) = Cardinality(S) - 1
    BY <2>3, Cardinalities
  <2>5. stadistics'.concurrentConnections = n - 1
    BY <1>6, <2>1, <2>4 DEF stadistics_decrease_concurrent, Inv, Types, Counters
  <2> QED
    BY <2>1, <2>2, <2>4, <2>5 DEF ConcurrentCountsSessions
<1>15. new # sess[t]
  BY <1>4 DEF Live
<1> QED
  BY <1>6, <1>10, <1>11, <1>12, <1>13, <1>14, <1>15, Kept

-----------------------------------------------------------------------------
(* What a handler finds, and what it may do.                               *)

\* A handler runs for a live session, on one of its ends, which asked for op.
Found(fd, op, t) ==
  /\ Live(t) /\ Handled(t, sess[t], sel, kern) /\ kern[sess[t].cfd] = "client"
  /\ InState(sess[t], sel.item)
  /\ fd \in {sess[t].cfd, sess[t].ofd} /\ sess[t].cfd # sess[t].ofd
  /\ sel.item[fd].used /\ op \in sel.item[fd].interest

\* What is known when the walk calls a handler: the item's session is alive, owns
\* the descriptor and asked for the event.
LEMMA Entry ==
  ASSUME Inv, NEW fd \in ItemFd, NEW op, NEW t \in Session, NEW st \in StmState,
         Handle(fd, op, t, st)
  PROVE  Found(fd, op, t)
<1> USE DEF Inv, Ownership
<1> DEFINE rec == sess[t]
<1>1. /\ sel.item[fd].used /\ op \in sel.item[fd].interest /\ fd # listener
      /\ sel.item[fd].data = t /\ current(t) = st
  BY DEF Handle, IsNext, Ready, ITEM_USED
<1>2. rec \in SessionType /\ sel \in SelType /\ kern \in [Fd -> FdKind]
  BY DEF Types
<1>3. rec.cfd \in Fd \cup {-1} /\ rec.ofd \in Fd \cup {-1}
  BY <1>2 DEF SessionType
<1>4. rec.st \in {st, "start"}
  BY <1>1 DEF current
<1>5. Live(t)
  BY <1>4 DEF Live, StmState
<1>6. fd \in {rec.cfd, rec.ofd}
  BY <1>1, <1>5 DEF ItemsOwned, Live
<1>7. rec.cfd \in ItemFd
  BY <1>5, <1>6, Numbers DEF SessionsHold
<1>8. /\ rec.cfd \in Fd /\ kern[rec.cfd] = "client"
      /\ sel.item[rec.cfd].used /\ sel.item[rec.cfd].data = t /\ InState(rec, sel.item)
  BY <1>3, <1>5, <1>7, Numbers DEF SessionsHold
<1>9. /\ rec.ofd # -1 => kern[rec.ofd] \in Origin
      /\ rec.ofd \in ItemFd /\ sel.item[rec.ofd].used => sel.item[rec.ofd].data = t
  BY DEF SessionsHold
<1>10. rec.ofd \in ItemFd => \/ sel.item[rec.ofd] = UnusedItem
                             \/ sel.item[rec.ofd].used /\ sel.item[rec.ofd].data = t
  BY <1>9 DEF ItemsOwned
<1>11. rec.cfd # rec.ofd
  BY <1>7, <1>8, <1>9, Numbers DEF Origin
<1>12. Bounded(sel)
  BY DEF ItemsOwned, Bounded
<1> HIDE DEF rec
<1>13. Handled(t, rec, sel, kern)
  BY <1>2, <1>7, <1>8, <1>9, <1>10, <1>12 DEF Handled, rec
<1> QED
  BY <1>1, <1>5, <1>6, <1>8, <1>11, <1>13 DEF rec, Found

\* The handler changes the interest of one of its own descriptors.
LEMMA RetuneOwn ==
  ASSUME NEW t, NEW rec, NEW table, NEW k, Handled(t, rec, table, k),
         NEW fd \in ItemFd, fd \in {rec.cfd, rec.ofd}, table.item[fd].used,
         NEW interest \in Interest
  PROVE  /\ Handled(t, rec, selector_set_interest(table, fd, interest), k)
         /\ Retuned(selector_set_interest(table, fd, interest), table, fd, interest)
<1> DEFINE r == selector_set_interest(table, fd, interest)
<1>1. Retuned(r, table, fd, interest)
  BY SetInterest DEF Handled
<1> HIDE DEF r
<1>2. /\ r \in SelType /\ Bounded(r) /\ r.item[fd].used
      /\ \A g \in ItemFd : g # fd => r.item[g] = table.item[g]
      /\ r.item[fd].data = table.item[fd].data
  BY <1>1 DEF Retuned, Handled
<1>3. \A g \in ItemFd : g \notin {rec.cfd, rec.ofd} => r.item[g] = sel.item[g]
  BY <1>2 DEF Handled
<1>4. r.item[rec.cfd].used /\ r.item[rec.cfd].data = t
  BY <1>2 DEF Handled
<1>5. rec.ofd \in ItemFd => \/ r.item[rec.ofd] = UnusedItem
                            \/ r.item[rec.ofd].used /\ r.item[rec.ofd].data = t
  BY <1>2, UnusedIsItem DEF Handled
<1>6. Handled(t, rec, r, k)
  BY <1>2, <1>3, <1>4, <1>5 DEF Handled
<1> QED
  BY <1>1, <1>6 DEF r

\* The handler changes fields of its session other than its descriptors.
LEMMA ChangeOwn ==
  ASSUME NEW t, NEW rec, NEW table, NEW k, Handled(t, rec, table, k),
         NEW new \in SessionType, new.st = rec.st, new.cfd = rec.cfd, new.ofd = rec.ofd
  PROVE  Handled(t, new, table, k)
  BY DEF Handled

\* recv fills a buffer, a parser or send empties it.
LEMMA Filled ==
  ASSUME NEW fd, NEW b \in BufferType, NEW n \in Received(fd, b)
  PROVE  /\ buffer_write_adv(b, n) \in BufferType
         /\ buffer_write_adv(b, n) # EmptyBuffer /\ buffer_write_adv(b, n) # b
         /\ buffer_can_read(buffer_write_adv(b, n))
<1> DEFINE size == 0..BUFFER_SIZE
           w == b.write + n
<1>1. b \in [read : size, write : size] /\ (b.read < b.write \/ (b.read = 0 /\ b.write = 0))
  BY DEF BufferType, EmptyBuffer
<1>2. n \in 1..BUFFER_SIZE /\ n <= BUFFER_SIZE - b.write
  BY DEF Received, buffer_write_room
<1>3. b.read \in size /\ b.write \in size
  BY <1>1
<1>4. w \in size /\ b.read < w /\ w # 0 /\ w - b.read > 0 /\ w # b.write
  BY <1>1, <1>2, <1>3, Socks5Assumption
<1> HIDE DEF size, w
<1>5. buffer_write_adv(b, n) = [b EXCEPT !.write = w]
  BY DEF buffer_write_adv, w
<1>6. [b EXCEPT !.write = w] = [read |-> b.read, write |-> w]
  BY <1>1
<1> QED
  BY <1>1, <1>4, <1>5, <1>6 DEF BufferType, EmptyBuffer, buffer_can_read, size

\* buffer_reset, which rewinds both pointers.
LEMMA Rewound ==
  ASSUME NEW S, NEW b \in [read : S, write : S]
  PROVE  buffer_reset(b) = EmptyBuffer
<1> DEFINE c == [b EXCEPT !.read = 0]
           d == [c EXCEPT !.write = 0]
<1>1. c = [read |-> 0, write |-> b.write]
  OBVIOUS
<1>2. buffer_reset(b) = d
  BY DEF buffer_reset
<1> HIDE DEF c
<1>3. d = [read |-> 0, write |-> 0]
  BY <1>1
<1> QED
  BY <1>2, <1>3 DEF EmptyBuffer

\* A reader that takes n bytes leaves a buffer, and rewinds it when they were all.
LEMMA Emptied ==
  ASSUME NEW b \in BufferType, NEW n \in 1..buffer_read_avail(b)
  PROVE  /\ buffer_read_adv(b, n) \in BufferType /\ buffer_read_adv(b, n) # b
         /\ buffer_can_read(buffer_read_adv(b, n)) => buffer_read_adv(b, n).read # 0
         /\ ~buffer_can_read(buffer_read_adv(b, n)) => buffer_read_adv(b, n) = EmptyBuffer
<1> DEFINE size == 0..BUFFER_SIZE
           r == b.read + n
<1>1. b \in [read : size, write : size] /\ (b.read < b.write \/ (b.read = 0 /\ b.write = 0))
  BY DEF BufferType, EmptyBuffer
<1>2. b.read \in size /\ b.write \in size
  BY <1>1
<1>3. n \in Int /\ n >= 1 /\ n <= b.write - b.read
  BY <1>2, Socks5Assumption DEF buffer_read_avail
<1>4. /\ r \in size /\ r # 0 /\ r <= b.write /\ r # b.read
      /\ r # b.write => r < b.write /\ b.write - r > 0
  BY <1>2, <1>3, Socks5Assumption
<1> HIDE DEF r
<1>5. 0 \in size /\ EmptyBuffer \in BufferType
  BY Socks5Assumption DEF EmptyBuffer, BufferType
<1> HIDE DEF size
<1>6. [b EXCEPT !.read = r] = [read |-> r, write |-> b.write]
  BY <1>1
<1>7. buffer_read_adv(b, n) = IF r = b.write THEN EmptyBuffer
                              ELSE [read |-> r, write |-> b.write]
  <2> DEFINE moved == [b EXCEPT !.read = r]
  <2>1. moved.read = r /\ moved.write = b.write /\ moved \in [read : size, write : size]
    BY <1>1, <1>4
  <2>2. buffer_read_adv(b, n) = IF moved.read = moved.write THEN buffer_reset(moved) ELSE moved
    BY DEF buffer_read_adv, r
  <2> HIDE DEF moved
  <2>3. buffer_reset(moved) = EmptyBuffer
    BY <2>1, Rewound
  <2>4. moved = [read |-> r, write |-> b.write]
    BY <1>6 DEF moved
  <2> QED
    BY <2>1, <2>2, <2>3, <2>4
<1>8. CASE r = b.write
  BY <1>4, <1>5, <1>7, <1>8 DEF EmptyBuffer, buffer_can_read
<1>9. CASE r # b.write
  BY <1>2, <1>4, <1>7, <1>9 DEF BufferType, EmptyBuffer, buffer_can_read, size
<1> QED
  BY <1>8, <1>9

\* send takes at least one byte and at most what the buffer has.
LEMMA SentSome ==
  ASSUME NEW fd, NEW b, NEW n \in Sent(fd, b), b \in BufferType
  PROVE  n \in 1..buffer_read_avail(b)
<1>1. b.read \in 0..BUFFER_SIZE /\ b.write \in 0..BUFFER_SIZE
  BY DEF BufferType
<1> QED
  BY <1>1, Socks5Assumption DEF Sent, buffer_read_avail

\* What a parser may leave in the input buffer.
LEMMA LeftoversType ==
  ASSUME NEW b \in BufferType
  PROVE  Leftovers(b) \subseteq BufferType
  BY Emptied DEF Leftovers

\* The reply fits into the empty output buffer.
LEMMA Reply ==
  /\ EmptyBuffer \in BufferType /\ MarshalFits(EmptyBuffer)
  /\ Marshalled(EmptyBuffer) \in BufferType /\ Marshalled(EmptyBuffer) # EmptyBuffer
  BY Socks5Assumption DEF EmptyBuffer, BufferType, MarshalFits, Marshalled,
     buffer_write_room, buffer_write_adv, ReplyLength

\* The three values the handlers pass to selector_set_interest.
LEMMA Interests == OP_NOOP \in Interest /\ OP_READ \in Interest /\ OP_WRITE \in Interest
  BY DEF OP_NOOP, OP_READ, OP_WRITE, Interest

\* A recv whose bytes the parser then takes at once leaves an empty buffer.
LEMMA ResetType ==
  ASSUME NEW fd, NEW b \in BufferType, NEW n \in Received(fd, b)
  PROVE  buffer_reset(buffer_write_adv(b, n)) = EmptyBuffer
<1>1. buffer_write_adv(b, n) \in [read : 0..BUFFER_SIZE, write : 0..BUFFER_SIZE]
  BY Filled DEF BufferType
<1> QED
  BY <1>1, Rewound

-----------------------------------------------------------------------------
(* The method of the hello.                                                *)

\* The method after the first n bytes of METHODS, as the recursion sees it.
Selecting(f, offer, n) ==
  f = [i \in 0..n |-> IF i = 0 THEN UNSET ELSE on_hello_method(f[i - 1], offer[i])]

\* The recursion of SelectedMethod has a solution.
LEMMA SelectingExists ==
  ASSUME NEW offer \in Seq(STRING), NEW m \in Nat
  PROVE  \E f : Selecting(f, offer, m)
<1> DEFINE P == {n \in Nat : \E f : Selecting(f, offer, n)}
<1>1. 0 \in P
  <2> DEFINE f == [i \in 0..0 |-> UNSET]
  <2>1. f = [i \in 0..0 |-> IF i = 0 THEN UNSET ELSE on_hello_method(f[i - 1], offer[i])]
    OBVIOUS
  <2> QED
    BY <2>1 DEF Selecting
<1>2. ASSUME NEW n \in P
      PROVE  n + 1 \in P
  <2>1. PICK f : Selecting(f, offer, n)
    OBVIOUS
  <2> DEFINE g == [i \in 0..(n + 1) |->
                     IF i = n + 1 THEN on_hello_method(f[n], offer[n + 1]) ELSE f[i]]
  <2>2. n \in Nat
    OBVIOUS
  <2>3. \A i \in 0..n : /\ i \in 0..(n + 1) /\ i # n + 1 /\ g[i] = f[i]
                        /\ f[i] = IF i = 0 THEN UNSET ELSE on_hello_method(f[i - 1], offer[i])
    BY <2>1, <2>2 DEF Selecting
  <2>4. g[n + 1] = on_hello_method(g[n], offer[n + 1])
    BY <2>2, <2>3
  <2>5. ASSUME NEW i \in 0..(n + 1)
        PROVE  g[i] = IF i = 0 THEN UNSET ELSE on_hello_method(g[i - 1], offer[i])
    <3> HIDE DEF g
    <3>1. CASE i = n + 1
      BY <2>2, <2>4, <3>1
    <3>2. CASE i # n + 1
      <4>1. i \in 0..n /\ (i # 0 => i - 1 \in 0..n)
        BY <2>2, <3>2
      <4> QED
        BY <2>3, <4>1
    <3> QED
      BY <3>1, <3>2
  <2>6. g = [i \in 0..(n + 1) |-> g[i]]
    OBVIOUS
  <2> HIDE DEF g
  <2>7. Selecting(g, offer, n + 1)
    BY <2>5, <2>6 DEF Selecting
  <2> QED
    BY <2>2, <2>7
<1>3. P = Nat
  <2>1. P \subseteq Nat
    OBVIOUS
  <2> HIDE DEF P
  <2> QED
    BY <1>1, <1>2, <2>1, SetInduction
<1> QED
  BY <1>3

\* What SelectedMethod computes, without the recursion.
LEMMA SelectedMethodIs ==
  ASSUME NEW offer \in Seq(STRING)
  PROVE  \E f : Selecting(f, offer, Len(offer)) /\ SelectedMethod(offer) = f[Len(offer)]
<1> DEFINE m == Len(offer)
           sel0 == CHOOSE f : Selecting(f, offer, m)
<1>1. m \in Nat
  OBVIOUS
<1>2. Selecting(sel0, offer, m)
  <2> HIDE DEF m
  <2> QED
    BY <1>1, SelectingExists
<1>3. SelectedMethod(offer) = sel0[m]
  BY DEF SelectedMethod, Selecting
<1> QED
  BY <1>2, <1>3

\* USERNAME/PASSWORD is selected only if the client offered it.
LEMMA UserpassWasOffered ==
  ASSUME NEW offer \in Seq(STRING), SelectedMethod(offer) = USERPASS
  PROVE  USERPASS \in ToSet(offer)
<1> DEFINE m == Len(offer)
<1>1. PICK f : Selecting(f, offer, m) /\ f[m] = USERPASS
  BY SelectedMethodIs
<1>2. m \in Nat /\ DOMAIN offer = 1..m
  OBVIOUS
<1> HIDE DEF m
<1> DEFINE P == {n \in Nat : n <= m /\ f[n] = USERPASS => \E i \in 1..n : offer[i] = USERPASS}
<1>3. \A n \in 0..m : f[n] = IF n = 0 THEN UNSET ELSE on_hello_method(f[n - 1], offer[n])
  BY <1>1 DEF Selecting
<1>4. 0 \in P
  BY <1>2, <1>3 DEF UNSET, USERPASS
<1>5. ASSUME NEW n \in P
      PROVE  n + 1 \in P
  <2> SUFFICES ASSUME n + 1 <= m, f[n + 1] = USERPASS
               PROVE  \E i \in 1..(n + 1) : offer[i] = USERPASS
    OBVIOUS
  <2>1. n + 1 \in 0..m /\ n + 1 # 0 /\ (n + 1) - 1 = n /\ n \in Nat /\ n <= m
    BY <1>2
  <2>2. on_hello_method(f[n], offer[n + 1]) = USERPASS
    BY <1>3, <2>1
  <2>3. f[n] = USERPASS \/ offer[n + 1] = USERPASS
    BY <2>2 DEF on_hello_method, NO_AUTH, USERPASS
  <2>4. CASE f[n] = USERPASS
    BY <2>1, <2>4
  <2>5. CASE offer[n + 1] = USERPASS
    BY <2>1, <2>5
  <2> QED
    BY <2>3, <2>4, <2>5
<1>6. P = Nat
  <2>1. P \subseteq Nat
    OBVIOUS
  <2> HIDE DEF P
  <2> QED
    BY <1>4, <1>5, <2>1, SetInduction
<1>7. \E i \in 1..m : offer[i] = USERPASS
  BY <1>1, <1>2, <1>6
<1> QED
  BY <1>2, <1>7 DEF ToSet

\* The process dies: only the cause is left to show.
LEMMA Dies ==
  ASSUME Inv, NEW fd, NEW op, Walk(fd, op),
         NEW why \in {"no_read_handler", "no_write_handler", "use_after_free",
                      "next_beyond_max_state", "check_interest_failed"},
         Die(why), AbortsHaveTheirCause'
  PROVE  Good
<1> USE DEF Inv, Die
<1>1. Types'
  BY DEF Types, Walk
<1>2. Ownership'
  BY DEF Ownership, ItemsOwned, ListenerStays, SessionsHold, Apart, ClientsOwned, Live, Open
<1>3. RepliesGoFirst'
  BY DEF RepliesGoFirst
<1>4. Counted'
  BY DEF Counted, ConcurrentCountsSessions, Live
<1>5. TouchesOwn
  BY DEF TouchesOwn
<1> QED
  BY <1>1, <1>2, <1>3, <1>4, <1>5 DEF Good

\* The session after a send of n bytes.
AfterSend(rec, n) == [rec EXCEPT !.output = buffer_read_adv(@, n)]

\* A send takes part of the reply, or all of it, which rewinds the buffer.
LEMMA Sending ==
  ASSUME NEW rec \in SessionType, NEW fd, NEW n \in Sent(fd, rec.output)
  PROVE  /\ AfterSend(rec, n) \in SessionType
         /\ AfterSend(rec, n).st = rec.st /\ AfterSend(rec, n).cfd = rec.cfd
         /\ AfterSend(rec, n).ofd = rec.ofd /\ AfterSend(rec, n).offer = rec.offer
         /\ AfterSend(rec, n).method = rec.method /\ AfterSend(rec, n).status = rec.status
         /\ buffer_can_read(AfterSend(rec, n).output) =>
              AfterSend(rec, n).output.read # 0 /\ AfterSend(rec, n).output # EmptyBuffer
         /\ ~buffer_can_read(AfterSend(rec, n).output) => AfterSend(rec, n).output = EmptyBuffer
<1> DEFINE b == buffer_read_adv(rec.output, n)
<1>1. /\ b \in BufferType /\ (~buffer_can_read(b) => b = EmptyBuffer)
      /\ buffer_can_read(b) => b.read # 0
  <2>1. rec.output \in BufferType
    BY DEF SessionType
  <2> QED
    BY <2>1, SentSome, Emptied
<1>2. AfterSend(rec, n) = [rec EXCEPT !.output = b]
  BY DEF AfterSend
<1> HIDE DEF b
<1>3. EmptyBuffer.read = 0
  BY DEF EmptyBuffer
<1> QED
  BY <1>1, <1>2, <1>3 DEF SessionType


-----------------------------------------------------------------------------
(* hello.c                                                                 *)

\* hello_read keeps the invariant, also where it processes the offer.
LEMMA HelloRead ==
  ASSUME Inv, NEW fd \in ItemFd, NEW t \in Session, hello_read(fd, t)
  PROVE  Good
<1> DEFINE rec == sess[t]
<1>1. Handle(fd, READ, t, "HELLO_READ") /\ "HELLO_READ" \in StmState
  BY DEF hello_read, StmState
<1>2. /\ Live(t) /\ rec.st \in {"HELLO_READ", "start"}
      /\ Handled(t, rec, sel, kern) /\ kern[rec.cfd] = "client" /\ InState(rec, sel.item)
      /\ fd \in {rec.cfd, rec.ofd} /\ sel.item[fd].used
  <2>1. Found(fd, READ, t)
    BY <1>1, Entry
  <2>2. rec.st \in {"HELLO_READ", "start"}
    BY <1>1 DEF Handle, current
  <2> QED
    BY <2>1, <2>2 DEF Found
<1>3. /\ rec.ofd = -1 /\ rec.output = EmptyBuffer /\ sel.item[rec.cfd].interest = {READ}
      /\ rec \in SessionType /\ rec.input \in BufferType
  BY <1>2 DEF InState, ClientOnly, Handled, SessionType
<1>4. fd = rec.cfd /\ rec.ofd \notin ItemFd
  BY <1>2, <1>3, Numbers
<1>5. ASSUME ReturnSame(t, "ERROR", rec, sel)
      PROVE  Good
  BY <1>1, <1>2, <1>4, <1>5, Closes DEF ReturnSame
<1>6. ASSUME NEW n \in Received(fd, rec.input),
             ReturnSame(t, "HELLO_READ",
               [rec EXCEPT !.input = buffer_reset(buffer_write_adv(rec.input, n))], sel)
      PROVE  Good
  <2> DEFINE more == [rec EXCEPT !.input = EmptyBuffer]
             new == jump(more, "HELLO_READ")
  <2>1. Return(t, "HELLO_READ", more, sel, kern)
    BY <1>3, <1>6, ResetType DEF ReturnSame
  <2>2. /\ more \in SessionType /\ more.st = rec.st /\ more.cfd = rec.cfd /\ more.ofd = rec.ofd
        /\ more.output = rec.output
    BY <1>3, Reply DEF SessionType
  <2> HIDE DEF more
  <2>3. Handled(t, more, sel, kern)
    BY <1>2, <2>2, ChangeOwn
  <2>4. "HELLO_READ" \in Going
    BY DEF Going, StmState
  <2>5. /\ new.st = "HELLO_READ" /\ new.cfd = rec.cfd /\ new.ofd = rec.ofd
        /\ new.output = rec.output
    BY <2>2, <2>4, Jump
  <2> HIDE DEF new
  <2>6. InState(new, sel.item) /\ ReplySafe(new, sel, fd)
    BY <1>3, <1>4, <2>5 DEF InState, ClientOnly, ReplySafe
  <2> QED
    BY <1>1, <1>2, <2>1, <2>2, <2>3, <2>4, <2>6, Stays DEF new
<1>7. ASSUME NEW n \in Received(fd, rec.input),
             NEW left \in Leftovers(buffer_write_adv(rec.input, n)), NEW offer \in Offers,
             ReturnSame(t,
               IF MarshalFits(rec.output) /\ SelectedMethod(offer) # NO_ACCEPTABLE
               THEN "HELLO_WRITE" ELSE "ERROR",
               [rec EXCEPT !.input = left, !.offer = offer, !.method = SelectedMethod(offer),
                           !.output = Marshalled(@)],
               selector_set_interest(sel, fd, OP_WRITE))
      PROVE  Good
  <2> DEFINE method == SelectedMethod(offer)
             full == Marshalled(EmptyBuffer)
             ready == [rec EXCEPT !.input = left, !.offer = offer, !.method = method,
                                  !.output = full]
             table == selector_set_interest(sel, fd, OP_WRITE)
             ret == IF MarshalFits(rec.output) /\ method # NO_ACCEPTABLE
                    THEN "HELLO_WRITE" ELSE "ERROR"
             new == jump(ready, "HELLO_WRITE")
  <2>1. Return(t, ret, ready, table, kern)
    BY <1>3, <1>7 DEF ReturnSame
  <2>2. /\ left \in BufferType /\ full \in BufferType
    BY <1>3, Filled, LeftoversType, Reply
  <2>3. method \in Methods
    BY DEF Methods
  <2> HIDE DEF method, full
  <2>4. /\ ready \in SessionType /\ ready.st = rec.st /\ ready.cfd = rec.cfd
        /\ ready.ofd = rec.ofd /\ ready.method = method /\ ready.offer = offer
    BY <1>3, <2>2, <2>3 DEF SessionType
  <2> HIDE DEF ready
  <2>5. Handled(t, rec, table, kern) /\ Retuned(table, sel, fd, {WRITE})
    BY <1>2, RetuneOwn, Interests DEF OP_WRITE
  <2> HIDE DEF table
  <2>6. Handled(t, ready, table, kern)
    BY <2>4, <2>5, ChangeOwn
  <2>7. CASE ret = "ERROR"
    BY <1>1, <1>2, <1>4, <2>1, <2>4, <2>6, <2>7, Closes
  <2>8. CASE ret = "HELLO_WRITE"
    <3>1. "HELLO_WRITE" \in Going
      BY DEF Going, StmState
    <3>2. /\ new.st = "HELLO_WRITE" /\ new.cfd = rec.cfd /\ new.ofd = rec.ofd
          /\ new.method = method /\ new.offer = offer
      BY <2>4, <3>1, Jump
    <3> HIDE DEF new
    <3>3. table.item[fd].interest = {WRITE}
      BY <2>5 DEF Retuned
    <3>4. InState(new, table.item) /\ ReplySafe(new, table, fd)
      BY <1>3, <1>4, <3>2, <3>3 DEF InState, ClientOnly, ReplySafe, method
    <3> QED
      BY <1>1, <1>2, <2>1, <2>4, <2>6, <2>8, <3>1, <3>4, Stays DEF new
  <2> QED
    BY <2>7, <2>8
<1> HIDE DEF rec
<1> QED
  BY <1>5, <1>6, <1>7 DEF hello_read, rec

\* hello_write keeps the invariant: it refuses, goes on to the request or waits.
LEMMA HelloWrite ==
  ASSUME Inv, NEW fd \in ItemFd, NEW t \in Session, hello_write(fd, t)
  PROVE  Good
<1> DEFINE rec == sess[t]
<1>1. Handle(fd, WRITE, t, "HELLO_WRITE") /\ "HELLO_WRITE" \in StmState
  BY DEF hello_write, StmState
<1>2. /\ Live(t) /\ rec.st = "HELLO_WRITE"
      /\ Handled(t, rec, sel, kern) /\ kern[rec.cfd] = "client" /\ InState(rec, sel.item)
      /\ fd \in {rec.cfd, rec.ofd} /\ sel.item[fd].used
  <2>1. Found(fd, WRITE, t)
    BY <1>1, Entry
  <2>2. rec.st = "HELLO_WRITE"
    BY <1>1 DEF Handle, current
  <2> QED
    BY <2>1, <2>2 DEF Found
<1>3. /\ rec.ofd = -1 /\ sel.item[rec.cfd].interest = {WRITE}
      /\ rec.method = SelectedMethod(rec.offer) /\ rec.offer \in Offers
      /\ rec \in SessionType
  BY <1>2 DEF InState, ClientOnly, Handled
<1>4. fd = rec.cfd /\ rec.ofd \notin ItemFd
  BY <1>2, <1>3, Numbers
<1>5. ASSUME ReturnSame(t, "ERROR", rec, sel)
      PROVE  Good
  BY <1>1, <1>2, <1>4, <1>5, Closes DEF ReturnSame
<1>6. ASSUME NEW n \in Sent(fd, rec.output), buffer_can_read(AfterSend(rec, n).output),
             ReturnSame(t, "HELLO_WRITE", AfterSend(rec, n), sel)
      PROVE  Good
  <2> DEFINE sent == AfterSend(rec, n)
             new == jump(sent, "HELLO_WRITE")
  <2>1. /\ sent \in SessionType /\ sent.st = rec.st /\ sent.cfd = rec.cfd /\ sent.ofd = rec.ofd
        /\ sent.offer = rec.offer /\ sent.method = rec.method
    BY <1>3, Sending
  <2>2. Return(t, "HELLO_WRITE", sent, sel, kern)
    BY <1>6 DEF ReturnSame
  <2> HIDE DEF sent
  <2>3. Handled(t, sent, sel, kern)
    BY <1>2, <2>1, ChangeOwn
  <2>4. "HELLO_WRITE" \in Going
    BY DEF Going, StmState
  <2>5. new = sent
    BY <1>2, <2>1, <2>4, Jump
  <2>6. InState(new, sel.item) /\ ReplySafe(new, sel, fd)
    BY <1>2, <1>3, <1>4, <2>1, <2>5 DEF InState, ClientOnly, ReplySafe
  <2> QED
    BY <1>1, <1>2, <2>1, <2>2, <2>3, <2>4, <2>6, Stays
<1>7. ASSUME NEW n \in Sent(fd, rec.output), ~buffer_can_read(AfterSend(rec, n).output),
             ReturnSame(t, IF rec.method = USERPASS THEN "AUTH_READ" ELSE "REQUEST_READ",
                        AfterSend(rec, n), selector_set_interest(sel, fd, OP_READ))
      PROVE  Good
  <2> DEFINE sent == AfterSend(rec, n)
             table == selector_set_interest(sel, fd, OP_READ)
             new == jump(sent, "REQUEST_READ")
  <2>1. /\ sent \in SessionType /\ sent.st = rec.st /\ sent.cfd = rec.cfd /\ sent.ofd = rec.ofd
        /\ sent.output = EmptyBuffer
    BY <1>3, <1>7, Sending
  <2>2. CASE rec.method = USERPASS
    <3>1. Die("next_beyond_max_state")
      BY <1>7, <2>2 DEF ReturnSame, Return, StmState
    <3>2. USERPASS \in ToSet(rec.offer)
      BY <1>3, <2>2, UserpassWasOffered, Socks5Assumption
    <3>3. AbortsHaveTheirCause'
      BY <1>2, <3>1, <3>2 DEF AbortsHaveTheirCause, Die
    <3> QED
      BY <1>1, <3>1, <3>3, Dies DEF Handle
  <2>3. CASE rec.method # USERPASS
    <3>1. Return(t, "REQUEST_READ", sent, table, kern)
      BY <1>7, <2>3 DEF ReturnSame
    <3> HIDE DEF sent
    <3>2. Handled(t, rec, table, kern) /\ Retuned(table, sel, fd, {READ})
      BY <1>2, RetuneOwn, Interests DEF OP_READ
    <3> HIDE DEF table
    <3>3. Handled(t, sent, table, kern)
      BY <2>1, <3>2, ChangeOwn
    <3>4. "REQUEST_READ" \in Going
      BY DEF Going, StmState
    <3>5. /\ new.st = "REQUEST_READ" /\ new.cfd = rec.cfd /\ new.ofd = rec.ofd
          /\ new.output = EmptyBuffer /\ new.status = "general_failure"
      BY <1>2, <2>1, <3>4, Jump
    <3> HIDE DEF new
    <3>6. table.item[fd].interest = {READ}
      BY <3>2 DEF Retuned
    <3>7. InState(new, table.item) /\ ReplySafe(new, table, fd)
      BY <1>3, <1>4, <3>5, <3>6 DEF InState, ClientOnly, ReplySafe
    <3> QED
      BY <1>1, <1>2, <2>1, <3>1, <3>3, <3>4, <3>7, Stays DEF new
  <2> QED
    BY <2>2, <2>3
<1> HIDE DEF rec
<1> QED
  BY <1>5, <1>6, <1>7 DEF hello_write, rec, AfterSend

-----------------------------------------------------------------------------
(* request.c                                                               *)

\* The number the kernel hands out is free, so no item has it.
LEMMA FreshNumber ==
  ASSUME Inv, Fd \ Open # {}
  PROVE  /\ LowestFree \in Fd /\ kern[LowestFree] = "free"
         /\ LowestFree \in ItemFd => sel.item[LowestFree] = UnusedItem
<1> DEFINE free == Fd \ Open
<1>1. free \subseteq Nat /\ free # {}
  BY Numbers
<1> HIDE DEF free
<1>2. LowestFree \in free
  BY <1>1, MinIsLeast DEF LowestFree, free
<1>3. LowestFree \in Fd /\ LowestFree \notin Open
  BY <1>2 DEF free
<1>4. kern[LowestFree] = "free"
  BY <1>3 DEF Open
<1> QED
  BY <1>3, <1>4 DEF Inv, Ownership, ItemsOwned

\* A socket for the origin is open and not registered.
Opened(t, rec, table, k) ==
  /\ Handled(t, rec, table, k) /\ k[rec.cfd] = "client"
  /\ rec.ofd \in Fd /\ rec.ofd # rec.cfd
  /\ rec.ofd \in ItemFd => table.item[rec.ofd] = UnusedItem

\* request_connect has opened a socket for the origin.
LEMMA SocketOpened ==
  ASSUME Inv, NEW t \in Session, NEW rec, NEW table, Handled(t, rec, table, kern), rec.ofd = -1,
         kern[rec.cfd] = "client", Fd \ Open # {}, NEW kind \in Origin,
         NEW new \in SessionType, new.st = rec.st, new.cfd = rec.cfd, new.ofd = LowestFree
  PROVE  Opened(t, new, table, [kern EXCEPT ![LowestFree] = kind])
<1> DEFINE ofd == LowestFree
           k == [kern EXCEPT ![ofd] = kind]
<1>1. ofd \in Fd /\ kern[ofd] = "free" /\ (ofd \in ItemFd => sel.item[ofd] = UnusedItem)
  BY FreshNumber
<1> HIDE DEF ofd
<1>2. ofd # rec.cfd /\ ofd # -1
  BY <1>1, Numbers
<1>3. /\ k \in [Fd -> FdKind] /\ k[ofd] = kind /\ \A g \in Fd : g # ofd => k[g] = kern[g]
  BY <1>1 DEF Handled, Origin, FdKind
<1> HIDE DEF k
<1>4. sess[t].ofd = -1
  BY Numbers DEF Handled
<1>5. ofd \in ItemFd => table.item[ofd] = UnusedItem
  BY <1>1, <1>2 DEF Handled
<1>6. \A g \in ItemFd : g \notin {rec.cfd, ofd} => table.item[g] = sel.item[g]
  BY Numbers DEF Handled
<1>7. Handled(t, new, table, k)
  BY <1>1, <1>2, <1>3, <1>4, <1>5, <1>6 DEF Handled, ofd
<1>8. k[new.cfd] = "client"
  BY <1>2, <1>3 DEF Handled
<1> QED
  BY <1>1, <1>2, <1>5, <1>7, <1>8 DEF ofd, k, Opened

\* The socket is registered, if the table has room for its number.
Registered(t, rec, table, k, r, interest) ==
  /\ Handled(t, rec, r, k) /\ r.item[rec.cfd] = table.item[rec.cfd]
  /\ rec.ofd \in ItemFd => r.item[rec.ofd].used /\ r.item[rec.ofd].interest = interest

\* selector_register of the origin's descriptor touches no other item.
LEMMA RegisterOwn ==
  ASSUME NEW t \in Session, NEW rec, NEW table, NEW k, Opened(t, rec, table, k),
         NEW interest \in Interest
  PROVE  /\ Registered(t, rec, table, k,
                       selector_register(table, rec.ofd, interest, t), interest)
         /\ register_status(table, rec.ofd) = "SELECTOR_SUCCESS" <=> rec.ofd \in ItemFd
<1> DEFINE r == selector_register(table, rec.ofd, interest, t)
<1> USE DEF Opened
<1>1. table \in SelType /\ (rec.ofd \in ItemFd => ~table.item[rec.ofd].used)
  BY UnusedIsItem DEF Handled
<1>2. /\ register_status(table, rec.ofd) = "SELECTOR_SUCCESS" <=> rec.ofd \in ItemFd
      /\ r \in SelType
      /\ \A g \in ItemFd : g # rec.ofd => r.item[g] = table.item[g]
      /\ rec.ofd \in ItemFd => r.item[rec.ofd] = [used |-> TRUE, interest |-> interest, data |-> t]
      /\ Bounded(table) => Bounded(r)
  BY <1>1, Register
<1> HIDE DEF r
<1>3. rec.ofd \in ItemFd => /\ r.item[rec.ofd].used /\ r.item[rec.ofd].data = t
                            /\ r.item[rec.ofd].interest = interest
  BY <1>2
<1>4. Handled(t, rec, r, k)
  BY <1>2, <1>3 DEF Handled
<1>5. r.item[rec.cfd] = table.item[rec.cfd]
  BY <1>2 DEF Handled
<1>6. Registered(t, rec, table, k, r, interest)
  BY <1>3, <1>4, <1>5 DEF Registered
<1> QED
  BY <1>2, <1>6 DEF r

\* request_connect keeps the invariant, however socket, connect and the
\* registration end.
LEMMA RequestConnect ==
  ASSUME Inv, NEW fd \in ItemFd, NEW t \in Session, Handle(fd, READ, t, "REQUEST_READ"),
         Live(t), NEW rec, Handled(t, rec, sel, kern), kern[rec.cfd] = "client",
         rec.st = "REQUEST_READ", rec.ofd = -1, rec.output = EmptyBuffer,
         rec.status = "general_failure", fd = rec.cfd, sel.item[fd].interest = {READ},
         request_connect(fd, t, rec)
  PROVE  Good
<1> DEFINE ofd == LowestFree
           with == [rec EXCEPT !.ofd = ofd]
           refused == [with EXCEPT !.status = "connect_error", !.output = Marshalled(@)]
           quiet == selector_set_interest(sel, fd, OP_NOOP)
           answer == selector_set_interest(sel, rec.cfd, OP_WRITE)
           k(kind) == [kern EXCEPT ![ofd] = kind]
<1>1. rec \in SessionType /\ sel.item[fd].used /\ sess[t].st = "REQUEST_READ"
  BY DEF Handled
<1>2. CASE ReturnSame(t, "ERROR", rec, sel)
  BY <1>2, Numbers, Closes DEF ReturnSame
<1>3. "REQUEST_CONNECTING" \in Going /\ "REQUEST_WRITE" \in Going
  BY DEF Going, StmState
<1>4. ASSUME Fd \ Open # {}
      PROVE  /\ with \in SessionType /\ with.st = rec.st /\ with.cfd = rec.cfd /\ with.ofd = ofd
             /\ with.output = EmptyBuffer /\ with.status = "general_failure"
             /\ ofd \in Fd /\ ofd # rec.cfd
  <2>1. ofd \in Fd /\ kern[ofd] = "free"
    BY <1>4, FreshNumber
  <2> HIDE DEF ofd
  <2> QED
    BY <1>1, <2>1 DEF SessionType
<1>5. ASSUME Fd \ Open # {}, NEW kind \in Origin,
             Return(t, "REQUEST_CONNECTING", with, sel, k(kind))
      PROVE  Good
  <2> DEFINE new == jump(with, "REQUEST_CONNECTING")
             kk == k(kind)
  <2>1. /\ with \in SessionType /\ with.st = rec.st /\ with.cfd = rec.cfd
        /\ with.ofd = LowestFree
    BY <1>4, <1>5
  <2>2. /\ new.st = "REQUEST_CONNECTING" /\ new.cfd = rec.cfd /\ new.ofd = with.ofd
        /\ new.output = EmptyBuffer /\ new.status = "general_failure"
    BY <1>3, <1>4, <1>5, Jump
  <2> HIDE DEF with, new
  <2>3. Opened(t, with, sel, kk)
    BY <1>5, <2>1, SocketOpened
  <2> HIDE DEF kk, ofd
  <2>4. InState(new, sel.item) /\ ReplySafe(new, sel, fd)
    BY <2>2, <2>3, UnusedIsItem DEF InState, ClientOnly, ReplySafe, Opened
  <2> QED
    BY <1>3, <1>5, <2>3, <2>4, Stays DEF new, kk, Opened
<1>6. ASSUME Fd \ Open # {},
             Return(t, IF register_status(quiet, ofd) = "SELECTOR_SUCCESS"
                       THEN "REQUEST_CONNECTING" ELSE "ERROR",
                    with, selector_register(quiet, ofd, OP_WRITE, t), k("pending"))
      PROVE  Good
  <2> DEFINE new == jump(with, "REQUEST_CONNECTING")
             kk == k("pending")
             table == selector_register(quiet, with.ofd, OP_WRITE, t)
             ok == register_status(quiet, with.ofd) = "SELECTOR_SUCCESS"
  <2>1. Handled(t, rec, quiet, kern) /\ Retuned(quiet, sel, fd, {})
    BY <1>1, RetuneOwn, Interests DEF OP_NOOP
  <2>2. "pending" \in Origin
    BY DEF Origin
  <2>3. /\ with \in SessionType /\ with.st = rec.st /\ with.cfd = rec.cfd
        /\ with.ofd = LowestFree
    BY <1>4, <1>6
  <2>4. /\ new.st = "REQUEST_CONNECTING" /\ new.cfd = rec.cfd /\ new.ofd = with.ofd
        /\ new.output = EmptyBuffer /\ new.status = "general_failure"
    BY <1>3, <1>4, <1>6, Jump
  <2> HIDE DEF quiet, with
  <2>5. Return(t, IF ok THEN "REQUEST_CONNECTING" ELSE "ERROR", with, table, kk)
    BY <1>6, <2>3
  <2>6. Opened(t, with, quiet, kk)
    BY <1>6, <2>1, <2>2, <2>3, SocketOpened
  <2> HIDE DEF kk
  <2>7. Registered(t, with, quiet, kk, table, OP_WRITE) /\ (ok <=> with.ofd \in ItemFd)
    BY <2>6, RegisterOwn, Interests
  <2> HIDE DEF new, table, ok, ofd
  <2>8. CASE ~ok
    <3>1. Return(t, "ERROR", with, table, kk) /\ "ERROR" \in {"ERROR", "DONE"}
      BY <2>5, <2>8
    <3> QED
      BY <2>7, <2>8, <3>1, Closes DEF Registered
  <2>9. CASE ok
    <3>1. Return(t, "REQUEST_CONNECTING", with, table, kk)
      BY <2>5, <2>9
    <3>2. table.item[rec.cfd].interest = {}
      BY <2>1, <2>3, <2>7 DEF Retuned, Registered
    <3>3. InState(new, table.item) /\ ReplySafe(new, table, fd)
      BY <2>4, <2>7, <2>9, <3>2 DEF InState, BothEnds, ReplySafe, Registered, OP_WRITE
    <3> QED
      BY <1>1, <1>3, <2>6, <2>7, <3>1, <3>3, Stays DEF new, Opened, Registered
  <2> QED
    BY <2>8, <2>9
<1>7. ASSUME Fd \ Open # {},
             Return(t, IF register_status(answer, ofd) = "SELECTOR_SUCCESS"
                       THEN "REQUEST_WRITE" ELSE "ERROR",
                    refused, selector_register(answer, ofd, OP_NOOP, t), k("failed"))
      PROVE  Good
  <2> DEFINE full == Marshalled(EmptyBuffer)
             reply == [with EXCEPT !.status = "connect_error", !.output = full]
             new == jump(reply, "REQUEST_WRITE")
             kk == k("failed")
             table == selector_register(answer, reply.ofd, OP_NOOP, t)
             ok == register_status(answer, reply.ofd) = "SELECTOR_SUCCESS"
  <2>1. Handled(t, rec, answer, kern) /\ Retuned(answer, sel, fd, {WRITE})
    BY <1>1, RetuneOwn, Interests DEF OP_WRITE
  <2>2. "failed" \in Origin /\ "connect_error" \in Status
    BY DEF Origin, Status
  <2>3. full \in BufferType /\ full # EmptyBuffer
    BY Reply
  <2> HIDE DEF answer
  <2>4. /\ reply \in SessionType /\ reply.st = rec.st /\ reply.cfd = rec.cfd
        /\ reply.ofd = LowestFree /\ reply.output = full /\ reply.status = "connect_error"
    <3>1. with \in SessionType /\ with.st = rec.st /\ with.cfd = rec.cfd /\ with.ofd = LowestFree
      BY <1>4, <1>7
    <3> HIDE DEF with, full
    <3> QED
      BY <2>2, <2>3, <3>1 DEF SessionType
  <2>5. refused = reply
    BY <1>4, <1>7
  <2> HIDE DEF reply, full, refused
  <2>6. Return(t, IF ok THEN "REQUEST_WRITE" ELSE "ERROR", reply, table, kk)
    BY <1>7, <2>4, <2>5
  <2>7. /\ new.st = "REQUEST_WRITE" /\ new.cfd = rec.cfd /\ new.ofd = reply.ofd
        /\ new.output = full /\ new.status = "connect_error"
    BY <1>3, <2>4, Jump
  <2>8. Opened(t, reply, answer, kk)
    BY <1>7, <2>1, <2>2, <2>4, SocketOpened
  <2> HIDE DEF kk
  <2>9. Registered(t, reply, answer, kk, table, OP_NOOP) /\ (ok <=> reply.ofd \in ItemFd)
    BY <2>8, RegisterOwn, Interests
  <2> HIDE DEF new, table, ok, ofd
  <2>10. CASE ~ok
    <3>1. Return(t, "ERROR", reply, table, kk) /\ "ERROR" \in {"ERROR", "DONE"}
      BY <2>6, <2>10
    <3> QED
      BY <2>9, <2>10, <3>1, Closes DEF Registered
  <2>11. CASE ok
    <3>1. Return(t, "REQUEST_WRITE", reply, table, kk)
      BY <2>6, <2>11
    <3>2. table.item[rec.cfd].interest = {WRITE}
      BY <2>1, <2>4, <2>9 DEF Retuned, Registered
    <3>3. InState(new, table.item) /\ ReplySafe(new, table, fd)
      BY <2>3, <2>7, <2>9, <2>11, <3>2
         DEF InState, BothEnds, ReplySafe, Registered, OP_NOOP
    <3> QED
      BY <1>1, <1>3, <2>8, <2>9, <3>1, <3>3, Stays DEF new, Opened, Registered
  <2> QED
    BY <2>10, <2>11
<1>8. MarshalFits(rec.output)
  BY Reply
<1>9. "failed" \in Origin /\ "connected" \in Origin
  BY DEF Origin
<1> QED
  BY <1>2, <1>5, <1>6, <1>7, <1>8, <1>9 DEF request_connect

\* request_read keeps the invariant.
LEMMA RequestRead ==
  ASSUME Inv, NEW fd \in ItemFd, NEW t \in Session, request_read(fd, t)
  PROVE  Good
<1> DEFINE rec == sess[t]
<1>1. Handle(fd, READ, t, "REQUEST_READ") /\ "REQUEST_READ" \in StmState
  BY DEF request_read, StmState
<1>2. /\ Live(t) /\ rec.st = "REQUEST_READ"
      /\ Handled(t, rec, sel, kern) /\ kern[rec.cfd] = "client" /\ InState(rec, sel.item)
      /\ fd \in {rec.cfd, rec.ofd} /\ sel.item[fd].used
  <2>1. Found(fd, READ, t)
    BY <1>1, Entry
  <2>2. rec.st = "REQUEST_READ"
    BY <1>1 DEF Handle, current
  <2> QED
    BY <2>1, <2>2 DEF Found
<1>3. /\ rec.ofd = -1 /\ rec.output = EmptyBuffer /\ sel.item[rec.cfd].interest = {READ}
      /\ rec.status = "general_failure" /\ rec \in SessionType /\ rec.input \in BufferType
  BY <1>2 DEF InState, ClientOnly, Handled, SessionType
<1>4. fd = rec.cfd /\ rec.ofd \notin ItemFd
  BY <1>2, <1>3, Numbers
<1>5. ASSUME ReturnSame(t, "ERROR", rec, sel)
      PROVE  Good
  BY <1>1, <1>2, <1>4, <1>5, Closes DEF ReturnSame
<1>6. ASSUME NEW b \in BufferType
      PROVE  /\ [rec EXCEPT !.input = b] \in SessionType
             /\ [rec EXCEPT !.input = b].st = rec.st
             /\ [rec EXCEPT !.input = b].cfd = rec.cfd
             /\ [rec EXCEPT !.input = b].ofd = rec.ofd
             /\ [rec EXCEPT !.input = b].output = rec.output
             /\ [rec EXCEPT !.input = b].status = rec.status
  BY <1>3 DEF SessionType
<1>7. ASSUME NEW n \in Received(fd, rec.input),
             ReturnSame(t, "REQUEST_READ",
               [rec EXCEPT !.input = buffer_reset(buffer_write_adv(rec.input, n))], sel)
      PROVE  Good
  <2> DEFINE more == [rec EXCEPT !.input = EmptyBuffer]
             new == jump(more, "REQUEST_READ")
  <2>1. Return(t, "REQUEST_READ", more, sel, kern)
    BY <1>3, <1>7, ResetType DEF ReturnSame
  <2>2. /\ more \in SessionType /\ more.st = rec.st /\ more.cfd = rec.cfd /\ more.ofd = rec.ofd
        /\ more.output = rec.output /\ more.status = rec.status
    BY <1>6, Reply
  <2> HIDE DEF more
  <2>3. Handled(t, more, sel, kern)
    BY <1>2, <2>2, ChangeOwn
  <2>4. "REQUEST_READ" \in Going
    BY DEF Going, StmState
  <2>5. new = more
    BY <1>2, <2>2, <2>4, Jump
  <2> HIDE DEF new
  <2>6. InState(new, sel.item) /\ ReplySafe(new, sel, fd)
    BY <1>2, <1>3, <1>4, <2>2, <2>5 DEF InState, ClientOnly, ReplySafe
  <2> QED
    BY <1>1, <1>2, <2>1, <2>2, <2>3, <2>4, <2>6, Stays DEF new
<1>8. ASSUME NEW n \in Received(fd, rec.input),
             NEW left \in Leftovers(buffer_write_adv(rec.input, n)), NEW kind \in Requests,
             request_process(fd, t, [rec EXCEPT !.input = left], kind)
      PROVE  Good
  <2> DEFINE read == [rec EXCEPT !.input = left]
  <2>1. left \in BufferType
    BY <1>3, Filled, LeftoversType
  <2>2. /\ read \in SessionType /\ read.st = rec.st /\ read.cfd = rec.cfd /\ read.ofd = rec.ofd
        /\ read.output = rec.output /\ read.status = rec.status
    BY <1>6, <2>1
  <2>3. request_process(fd, t, read, kind)
    BY <1>8
  <2> HIDE DEF read
  <2>4. Handled(t, read, sel, kern)
    BY <1>2, <2>2, ChangeOwn
  <2>5. kind \in {"connect_ip", "connect_domain", "other_command"}
    BY Socks5Assumption DEF RequestKind
  <2>6. CASE kind = "connect_ip"
    <3>1. request_connect(fd, t, read)
      BY <2>3, <2>6 DEF request_process
    <3> QED
      BY <1>1, <1>2, <1>3, <1>4, <2>2, <2>4, <3>1, RequestConnect
  <2>7. CASE kind = "connect_domain"
    <3> DEFINE new == jump(read, "REQUEST_CONNECTING")
    <3>1. Return(t, "REQUEST_CONNECTING", read, sel, kern)
      BY <2>3, <2>7 DEF request_process, ReturnSame
    <3>2. "REQUEST_CONNECTING" \in Going
      BY DEF Going, StmState
    <3>3. /\ new.st = "REQUEST_CONNECTING" /\ new.cfd = rec.cfd /\ new.ofd = rec.ofd
          /\ new.output = rec.output /\ new.status = rec.status
      BY <2>2, <3>2, Jump
    <3> HIDE DEF new
    <3>4. InState(new, sel.item) /\ ReplySafe(new, sel, fd)
      BY <1>3, <1>4, <3>3 DEF InState, ClientOnly, ReplySafe
    <3> QED
      BY <1>1, <1>2, <2>2, <2>4, <3>1, <3>2, <3>4, Stays DEF new
  <2>8. CASE kind = "other_command"
    <3> DEFINE no == [read EXCEPT !.status = "command_not_supported"]
               new == jump(no, "REQUEST_WRITE")
    <3>1. Return(t, "REQUEST_WRITE", no, sel, kern)
      BY <2>3, <2>8 DEF request_process, ReturnSame
    <3>2. "REQUEST_WRITE" \in Going /\ "command_not_supported" \in Status
      BY DEF Going, StmState, Status
    <3>3. /\ no \in SessionType /\ no.st = rec.st /\ no.cfd = rec.cfd /\ no.ofd = rec.ofd
          /\ no.status = "command_not_supported"
      BY <2>2, <3>2 DEF SessionType
    <3> HIDE DEF no
    <3>4. /\ new.st = "REQUEST_WRITE" /\ new.cfd = rec.cfd /\ new.ofd = rec.ofd
          /\ new.status = "command_not_supported"
      BY <3>2, <3>3, Jump
    <3> HIDE DEF new
    <3>5. InState(new, sel.item) /\ ReplySafe(new, sel, fd)
      BY <1>3, <1>4, <3>4 DEF InState, ClientOnly, ReplySafe
    <3>6. Handled(t, no, sel, kern)
      BY <2>2, <2>4, <3>3, ChangeOwn
    <3> QED
      BY <1>1, <1>2, <3>1, <3>2, <3>3, <3>5, <3>6, Stays DEF new
  <2> QED
    BY <2>5, <2>6, <2>7, <2>8
<1> HIDE DEF rec
<1> QED
  BY <1>5, <1>7, <1>8 DEF request_read, rec

\* request_connecting keeps the invariant: the reply it marshals is pending.
LEMMA RequestConnecting ==
  ASSUME Inv, NEW fd \in ItemFd, NEW t \in Session, request_connecting(fd, t)
  PROVE  Good
<1> DEFINE rec == sess[t]
           status == IF kern[rec.ofd] = "failed" THEN rec.status ELSE "succeeded"
           full == Marshalled(EmptyBuffer)
           answered == [rec EXCEPT !.status = status, !.output = full]
           client == selector_set_interest(sel, rec.cfd, OP_WRITE)
           table == selector_set_interest(client, rec.ofd, OP_READ)
           new == jump(answered, "REQUEST_WRITE")
<1>1. Handle(fd, WRITE, t, "REQUEST_CONNECTING") /\ "REQUEST_CONNECTING" \in StmState
  BY DEF request_connecting, StmState
<1>2. Found(fd, WRITE, t)
  BY <1>1, Entry
<1>3. rec.st = "REQUEST_CONNECTING"
  BY <1>1 DEF Handle, current
<1>4. /\ rec.output = EmptyBuffer /\ rec.status = "general_failure"
      /\ fd = rec.ofd /\ BothEnds(rec, sel.item) /\ rec.cfd # rec.ofd
  BY <1>2, <1>3 DEF Found, InState, ClientOnly, BothEnds, READ, WRITE
<1>5. /\ Live(t) /\ Handled(t, rec, sel, kern) /\ rec \in SessionType /\ kern[rec.cfd] = "client"
      /\ rec.cfd \in ItemFd /\ sel.item[rec.cfd].used /\ sel.item[rec.ofd].used
  BY <1>2, <1>4 DEF Found, Handled, BothEnds
<1>6. Return(t, "REQUEST_WRITE", answered, table, kern)
  BY <1>4, Reply DEF request_connecting, ReturnSame
<1>7. status \in {"general_failure", "succeeded"} /\ {"general_failure", "succeeded"} \subseteq Status
  BY <1>4 DEF Status
<1>8. full \in BufferType /\ full # EmptyBuffer
  BY Reply
<1> HIDE DEF status, full
<1>9. /\ answered \in SessionType /\ answered.st = rec.st /\ answered.cfd = rec.cfd
      /\ answered.ofd = rec.ofd /\ answered.status = status /\ answered.output = full
  BY <1>5, <1>7, <1>8 DEF SessionType
<1> HIDE DEF answered
<1>10. Handled(t, rec, client, kern) /\ Retuned(client, sel, rec.cfd, {WRITE})
  BY <1>5, RetuneOwn, Interests DEF OP_WRITE
<1> HIDE DEF client
<1>11. client.item[rec.ofd].used
  BY <1>4, <1>5, <1>10 DEF Retuned, BothEnds
<1>12. Handled(t, rec, table, kern) /\ Retuned(table, client, rec.ofd, {READ})
  BY <1>4, <1>10, <1>11, RetuneOwn, Interests DEF OP_READ, BothEnds
<1> HIDE DEF table
<1>13. /\ table.item[rec.cfd].interest = {WRITE} /\ table.item[rec.ofd].interest = {READ}
       /\ table.item[rec.ofd].used
  BY <1>4, <1>5, <1>10, <1>12 DEF Retuned
<1>14. Handled(t, answered, table, kern)
  BY <1>9, <1>12, ChangeOwn
<1>15. "REQUEST_WRITE" \in Going
  BY DEF Going, StmState
<1>16. /\ new.st = "REQUEST_WRITE" /\ new.cfd = rec.cfd /\ new.ofd = rec.ofd
       /\ new.status = status /\ new.output = full
  BY <1>9, <1>15, Jump
<1> HIDE DEF new
<1>17. ReplySafe(new, table, fd)
  BY <1>4, <1>16, Numbers DEF ReplySafe
<1>18. InState(new, table.item)
  BY <1>4, <1>7, <1>8, <1>13, <1>16 DEF InState, BothEnds
<1> QED
  BY <1>1, <1>3, <1>5, <1>6, <1>9, <1>14, <1>15, <1>17, <1>18, Stays DEF new

\* request_write keeps the invariant: the relay starts once the reply is out.
LEMMA RequestWrite ==
  ASSUME Inv, NEW fd \in ItemFd, NEW t \in Session, request_write(fd, t)
  PROVE  Good
<1> DEFINE rec == sess[t]
<1>1. Handle(fd, WRITE, t, "REQUEST_WRITE") /\ "REQUEST_WRITE" \in StmState
  BY DEF request_write, StmState
<1>2. Found(fd, WRITE, t)
  BY <1>1, Entry
<1>3. rec.st = "REQUEST_WRITE"
  BY <1>1 DEF Handle, current
<1>4. /\ fd = rec.cfd /\ BothEnds(rec, sel.item) /\ rec.cfd # rec.ofd
      /\ rec.status # "command_not_supported" /\ sel.item[rec.cfd].interest = {WRITE}
      /\ sel.item[rec.ofd].interest \subseteq {READ}
  BY <1>2, <1>3 DEF Found, InState, ClientOnly, BothEnds, READ, WRITE
<1>5. /\ Live(t) /\ Handled(t, rec, sel, kern) /\ rec \in SessionType /\ kern[rec.cfd] = "client"
      /\ rec.cfd \in ItemFd /\ sel.item[rec.cfd].used /\ sel.item[rec.ofd].used
  BY <1>2, <1>4 DEF Found, Handled, BothEnds
<1>6. ASSUME ReturnSame(t, "ERROR", rec, sel)
      PROVE  Good
  BY <1>1, <1>5, <1>6, Closes DEF ReturnSame
<1>7. ASSUME NEW n \in Sent(fd, rec.output), buffer_can_read(AfterSend(rec, n).output),
             ReturnSame(t, "REQUEST_WRITE", AfterSend(rec, n), sel)
      PROVE  Good
  <2> DEFINE sent == AfterSend(rec, n)
             new == jump(sent, "REQUEST_WRITE")
  <2>1. /\ sent \in SessionType /\ sent.st = rec.st /\ sent.cfd = rec.cfd /\ sent.ofd = rec.ofd
        /\ sent.status = rec.status /\ sent.output.read # 0 /\ sent.output # EmptyBuffer
    BY <1>5, <1>7, Sending
  <2>2. Return(t, "REQUEST_WRITE", sent, sel, kern)
    BY <1>7 DEF ReturnSame
  <2> HIDE DEF sent
  <2>3. Handled(t, sent, sel, kern)
    BY <1>5, <2>1, ChangeOwn
  <2>4. "REQUEST_WRITE" \in Going
    BY DEF Going, StmState
  <2>5. new = sent
    BY <1>3, <2>1, <2>4, Jump
  <2>6. InState(new, sel.item) /\ ReplySafe(new, sel, fd)
    BY <1>3, <1>4, <2>1, <2>5 DEF InState, BothEnds, ReplySafe
  <2> QED
    BY <1>1, <1>5, <2>1, <2>2, <2>3, <2>4, <2>6, Stays
<1>8. ASSUME NEW n \in Sent(fd, rec.output), ~buffer_can_read(AfterSend(rec, n).output),
             ReturnSame(t, "COPY", AfterSend(rec, n), selector_set_interest(sel, fd, OP_READ))
      PROVE  Good
  <2> DEFINE sent == AfterSend(rec, n)
             table == selector_set_interest(sel, fd, OP_READ)
             new == jump(sent, "COPY")
  <2>1. sent \in SessionType /\ sent.st = rec.st /\ sent.cfd = rec.cfd /\ sent.ofd = rec.ofd
    BY <1>5, <1>8, Sending
  <2>2. Return(t, "COPY", sent, table, kern)
    BY <1>8 DEF ReturnSame
  <2> HIDE DEF sent
  <2>3. Handled(t, rec, table, kern) /\ Retuned(table, sel, fd, {READ})
    BY <1>4, <1>5, RetuneOwn, Interests DEF OP_READ
  <2> HIDE DEF table
  <2>4. Handled(t, sent, table, kern)
    BY <2>1, <2>3, ChangeOwn
  <2>5. "COPY" \in Going
    BY DEF Going, StmState
  <2>6. /\ new.st = "COPY" /\ new.cfd = rec.cfd /\ new.ofd = rec.ofd
        /\ new.duplex = [side \in Side |-> {READ, WRITE}]
    BY <1>3, <2>1, <2>5, Jump
  <2> HIDE DEF new
  <2>7. /\ table.item[rec.cfd].interest = {READ} /\ table.item[rec.ofd] = sel.item[rec.ofd]
    BY <1>4, <2>3 DEF Retuned, BothEnds
  <2>8. /\ Paired(new.duplex) /\ new.duplex["client"] = {READ, WRITE}
        /\ new.duplex["server"] = {READ, WRITE}
    BY <2>6 DEF Paired, Side, other
  <2>9. /\ table.item[rec.cfd].interest \subseteq new.duplex["client"]
        /\ table.item[rec.ofd].interest \subseteq new.duplex["server"]
        /\ table.item[rec.cfd].interest # {}
    BY <1>4, <2>7, <2>8
  <2>10. BothEnds(new, table.item)
    BY <1>4, <2>6, <2>7 DEF BothEnds
  <2>11. InState(new, table.item) /\ ReplySafe(new, table, fd)
    BY <2>6, <2>8, <2>9, <2>10 DEF InState, ReplySafe
  <2> QED
    BY <1>1, <1>3, <1>5, <2>1, <2>2, <2>4, <2>5, <2>11, Stays DEF new
<1> HIDE DEF rec
<1> QED
  BY <1>6, <1>7, <1>8 DEF request_write, rec, AfterSend

-----------------------------------------------------------------------------
(* copy.c                                                                  *)

\* The two ends and the buffers between them.
LEMMA Sides ==
  ASSUME NEW rec, NEW side \in Side
  PROVE  /\ other(side) \in Side /\ other(other(side)) = side /\ other(side) # side
         /\ write_buff(side) = read_buff(other(side))
         /\ read_buff(side) = write_buff(other(side))
         /\ {FdOf(rec, side), FdOf(rec, other(side))} = {rec.cfd, rec.ofd}
         /\ \A s \in Side : s \in {side, other(side)}
  BY DEF Side, other, write_buff, read_buff, FdOf

\* A buffer that takes nothing has something to give.
LEMMA FullOrReadable ==
  ASSUME NEW b \in BufferType
  PROVE  buffer_can_write(b, BUFFER_SIZE) \/ buffer_can_read(b)
<1>1. b.read \in 0..BUFFER_SIZE /\ b.write \in 0..BUFFER_SIZE
  BY DEF BufferType
<1>2. b.read < b.write \/ b.write = 0
  BY DEF BufferType, EmptyBuffer
<1> QED
  BY <1>1, <1>2, Socks5Assumption DEF buffer_can_write, buffer_can_read

\* The interest check_interest asks for at one end.
Asks(rec, side) ==
  check_interest(rec.duplex[side], rec[read_buff(side)], rec[write_buff(side)], BUFFER_SIZE)

\* An end asks for no direction that is shut.
LEMMA AsksWithinDuplex ==
  ASSUME NEW rec \in SessionType, NEW side \in Side
  PROVE  Asks(rec, side) \subseteq rec.duplex[side] /\ Asks(rec, side) \in Interest
<1>1. rec.duplex[side] \in Interest
  BY DEF SessionType
<1> QED
  BY <1>1 DEF Asks, check_interest, Interest

\* An open direction is asked for at one end or at the other.
LEMMA SomeEndAsks ==
  ASSUME NEW rec \in SessionType, Paired(rec.duplex), NEW side \in Side, rec.duplex[side] # {}
  PROVE  Asks(rec, side) # {} \/ Asks(rec, other(side)) # {}
<1>1. rec.duplex[side] \in Interest /\ rec.input \in BufferType /\ rec.output \in BufferType
  BY DEF SessionType
<1>2. rec[read_buff(side)] \in BufferType /\ rec[write_buff(side)] \in BufferType
  BY <1>1 DEF read_buff, write_buff, other, Side
<1>3. /\ other(side) \in Side /\ other(other(side)) = side
      /\ write_buff(side) = read_buff(other(side)) /\ read_buff(side) = write_buff(other(side))
  BY Sides
<1>4. \/ READ \in rec.duplex[side] /\ WRITE \in rec.duplex[other(side)]
      \/ WRITE \in rec.duplex[side] /\ READ \in rec.duplex[other(side)]
  BY <1>1, <1>3 DEF Interest, Paired
<1>5. CASE READ \in rec.duplex[side] /\ WRITE \in rec.duplex[other(side)]
  <2>1. \/ buffer_can_write(rec[read_buff(side)], BUFFER_SIZE)
        \/ buffer_can_read(rec[write_buff(other(side))])
    BY <1>2, <1>3, FullOrReadable
  <2> QED
    BY <1>5, <2>1 DEF Asks, check_interest, READ, WRITE
<1>6. CASE WRITE \in rec.duplex[side] /\ READ \in rec.duplex[other(side)]
  <2>1. \/ buffer_can_read(rec[write_buff(side)])
        \/ buffer_can_write(rec[read_buff(other(side))], BUFFER_SIZE)
    BY <1>2, <1>3, FullOrReadable
  <2> QED
    BY <1>6, <2>1 DEF Asks, check_interest, READ, WRITE
<1> QED
  BY <1>4, <1>5, <1>6

\* With no direction left at one end there is none at the other.
LEMMA BothShut ==
  ASSUME NEW rec \in SessionType, Paired(rec.duplex), NEW side \in Side, rec.duplex[side] = {}
  PROVE  rec.duplex[other(side)] = {}
<1>1. rec.duplex[other(side)] \in Interest /\ other(side) \in Side /\ other(other(side)) = side
  BY Sides DEF SessionType
<1>2. READ \notin rec.duplex[other(side)] /\ WRITE \notin rec.duplex[other(side)]
  BY <1>1 DEF Paired
<1> QED
  BY <1>1, <1>2 DEF Interest

\* The end of copy_read and copy_write.
LEMMA CopyReturns ==
  ASSUME Inv, NEW fd \in ItemFd, NEW op, NEW t \in Session, Handle(fd, op, t, "COPY"),
         NEW rec \in SessionType, rec.st = "COPY", rec.cfd = sess[t].cfd, rec.ofd = sess[t].ofd,
         Paired(rec.duplex), rec # sess[t], NEW side \in Side, CopyReturn(t, rec, side)
  PROVE  Good
<1> DEFINE a == FdOf(rec, side)
           b == FdOf(rec, other(side))
           first == Refreshed(sel, rec, side)
           table == Refreshed(first, rec, other(side))
<1>1. Found(fd, op, t)
  BY Entry DEF StmState
<1>2. sess[t].st = "COPY"
  BY DEF Handle, current
<1>3. Live(t) /\ Handled(t, rec, sel, kern) /\ kern[rec.cfd] = "client"
  BY <1>1, <1>2, ChangeOwn DEF Found
<1>4. /\ rec.cfd # rec.ofd /\ rec.cfd \in ItemFd /\ rec.ofd \in ItemFd
      /\ sel.item[rec.cfd].used /\ sel.item[rec.ofd].used
  BY <1>1, <1>2 DEF Found, InState, BothEnds, Handled
<1>5. /\ other(side) \in Side /\ {a, b} = {rec.cfd, rec.ofd}
  BY Sides
<1>6. /\ a \in ItemFd /\ b \in ItemFd /\ a \in {rec.cfd, rec.ofd} /\ b \in {rec.cfd, rec.ofd}
      /\ a # b /\ sel.item[a].used /\ sel.item[b].used
  BY <1>4, <1>5
<1>7. ReturnSame(t, IF rec.duplex[side] = {} THEN "DONE" ELSE "COPY", rec, table)
  <2>1. ASSUME NEW e \in Side
        PROVE  set_interest_status(sel, FdOf(rec, e)) = "SELECTOR_SUCCESS"
    <3>1. FdOf(rec, e) \in ItemFd /\ sel.item[FdOf(rec, e)].used
      BY <1>4 DEF FdOf
    <3> QED
      BY <3>1, Valid DEF set_interest_status, ITEM_USED
  <2> QED
    BY <2>1 DEF CopyReturn
<1> HIDE DEF a, b
<1>8. /\ Asks(rec, side) \in Interest /\ Asks(rec, side) \subseteq rec.duplex[side]
      /\ Asks(rec, other(side)) \in Interest
      /\ Asks(rec, other(side)) \subseteq rec.duplex[other(side)]
  BY <1>5, AsksWithinDuplex
<1>9. /\ first = selector_set_interest(sel, a, Asks(rec, side))
      /\ table = selector_set_interest(first, b, Asks(rec, other(side)))
  BY DEF Refreshed, Asks, a, b
<1> HIDE DEF first, table
<1>10. Handled(t, rec, first, kern) /\ Retuned(first, sel, a, Asks(rec, side))
  BY <1>3, <1>6, <1>8, <1>9, RetuneOwn
<1>11. first.item[b].used
  BY <1>6, <1>10 DEF Retuned
<1>12. Handled(t, rec, table, kern) /\ Retuned(table, first, b, Asks(rec, other(side)))
  BY <1>6, <1>8, <1>9, <1>10, <1>11, RetuneOwn
<1>13. /\ table.item[a].interest = Asks(rec, side) /\ table.item[a].used
       /\ table.item[b].interest = Asks(rec, other(side)) /\ table.item[b].used
  BY <1>6, <1>10, <1>12 DEF Retuned
<1>14. /\ table.item[rec.cfd].interest = Asks(rec, "client")
       /\ table.item[rec.ofd].interest = Asks(rec, "server") /\ table.item[rec.ofd].used
  BY <1>13 DEF a, b, FdOf, Side, other
<1>15. CASE rec.duplex[side] = {}
  <2>1. rec.duplex[other(side)] = {}
    BY <1>15, BothShut
  <2>2. table.item[a].interest = {} /\ table.item[b].interest = {}
    BY <1>8, <1>13, <1>15, <2>1
  <2>3. table.item[rec.ofd].interest = {}
    BY <1>5, <2>2 DEF a, b
  <2>4. Return(t, "DONE", rec, table, kern) /\ "DONE" \in {"ERROR", "DONE"}
    BY <1>7, <1>15 DEF ReturnSame
  <2> QED
    BY <1>3, <1>12, <2>3, <2>4, Closes
<1>16. CASE rec.duplex[side] # {}
  <2>1. "COPY" \in Going
    BY DEF Going, StmState
  <2>2. Return(t, "COPY", rec, table, kern)
    BY <1>7, <1>16 DEF ReturnSame
  <2>3. jump(rec, "COPY") = rec
    BY DEF jump
  <2>4. Asks(rec, side) # {} \/ Asks(rec, other(side)) # {}
    BY <1>16, SomeEndAsks
  <2>5. table.item[rec.cfd].interest # {} \/ table.item[rec.ofd].interest # {}
    BY <1>14, <2>4 DEF Side, other
  <2>6. /\ table.item[rec.cfd].interest \subseteq rec.duplex["client"]
        /\ table.item[rec.ofd].interest \subseteq rec.duplex["server"]
    BY <1>14, AsksWithinDuplex DEF Side
  <2>7. BothEnds(rec, table.item)
    BY <1>4, <1>14 DEF BothEnds
  <2>8. InState(rec, table.item) /\ ReplySafe(rec, table, fd)
    BY <2>5, <2>6, <2>7 DEF InState, ReplySafe
  <2> QED
    BY <1>3, <1>12, <2>1, <2>2, <2>3, <2>8, Stays
<1> QED
  BY <1>15, <1>16

\* The session in COPY whose handler runs.
LEMMA Relaying ==
  ASSUME Inv, NEW fd \in ItemFd, NEW op, NEW t \in Session, Handle(fd, op, t, "COPY")
  PROVE  /\ sess[t] \in SessionType /\ sess[t].st = "COPY" /\ Paired(sess[t].duplex)
         /\ SideOf(sess[t], fd) \in Side /\ FdOf(sess[t], other(SideOf(sess[t], fd))) # -1
         /\ op \in sess[t].duplex[SideOf(sess[t], fd)]
<1>1. Found(fd, op, t)
  BY Entry DEF StmState
<1>2. sess[t].st = "COPY"
  BY DEF Handle, current
<1>3. sess[t].cfd # -1 /\ sess[t].ofd # -1 /\ Paired(sess[t].duplex)
  BY <1>1, <1>2, Numbers DEF Found, InState, BothEnds, Handled
<1>4. op \in sess[t].duplex[SideOf(sess[t], fd)]
  BY <1>1, <1>2 DEF Found, InState, SideOf
<1> QED
  BY <1>1, <1>2, <1>3, <1>4 DEF Found, Handled, SideOf, FdOf, other, Side

\* A direction is shut at both ends, so they stay paired.
LEMMA ShutPairs ==
  ASSUME NEW rec \in SessionType, Paired(rec.duplex), NEW side \in Side,
         FdOf(rec, other(side)) # -1,
         NEW op, NEW opposite, {op, opposite} = {READ, WRITE}, op # opposite
  PROVE  /\ Shut(rec, side, op, opposite) \in SessionType
         /\ Shut(rec, side, op, opposite).st = rec.st
         /\ Shut(rec, side, op, opposite).cfd = rec.cfd
         /\ Shut(rec, side, op, opposite).ofd = rec.ofd
         /\ Paired(Shut(rec, side, op, opposite).duplex)
         /\ op \in rec.duplex[side] => Shut(rec, side, op, opposite) # rec
<1> DEFINE d == [s \in Side |-> IF s = side THEN rec.duplex[s] \ {op}
                                ELSE rec.duplex[s] \ {opposite}]
<1>1. rec.duplex \in [Side -> Interest]
  BY DEF SessionType
<1>2. other(side) \in Side /\ other(side) # side /\ \A s \in Side : s \in {side, other(side)}
  BY Sides
<1>3. [[rec.duplex EXCEPT ![side] = @ \ {op}] EXCEPT ![other(side)] = @ \ {opposite}] = d
  BY <1>1, <1>2
<1>4. Shut(rec, side, op, opposite) =
        [rec EXCEPT !.duplex =
           [[rec.duplex EXCEPT ![side] = @ \ {op}] EXCEPT ![other(side)] = @ \ {opposite}]]
  BY <1>2 DEF Shut, SessionType
<1>5. d \in [Side -> Interest]
  BY <1>1 DEF Interest
<1>6. Paired(d) /\ (op \in rec.duplex[side] => d[side] # rec.duplex[side])
  BY <1>1 DEF Paired, Side, other
<1> HIDE DEF d
<1>7. Shut(rec, side, op, opposite) = [rec EXCEPT !.duplex = d]
  BY <1>3, <1>4
<1> QED
  BY <1>5, <1>6, <1>7 DEF SessionType

\* The session after recv or send moved the buffer of one end.
LEMMA BufferMoved ==
  ASSUME NEW rec \in SessionType, NEW side \in Side, NEW b \in BufferType
  PROVE  /\ [rec EXCEPT ![read_buff(side)] = b] \in SessionType
         /\ [rec EXCEPT ![read_buff(side)] = b].st = rec.st
         /\ [rec EXCEPT ![read_buff(side)] = b].cfd = rec.cfd
         /\ [rec EXCEPT ![read_buff(side)] = b].ofd = rec.ofd
         /\ [rec EXCEPT ![read_buff(side)] = b].duplex = rec.duplex
         /\ b # rec[read_buff(side)] => [rec EXCEPT ![read_buff(side)] = b] # rec
<1>1. CASE side = "client"
  <2>1. /\ [rec EXCEPT ![read_buff(side)] = b] = [rec EXCEPT !.input = b]
        /\ rec[read_buff(side)] = rec.input
    BY <1>1 DEF read_buff
  <2> QED
    BY <2>1 DEF SessionType
<1>2. CASE side = "server"
  <2>1. /\ [rec EXCEPT ![read_buff(side)] = b] = [rec EXCEPT !.output = b]
        /\ rec[read_buff(side)] = rec.output
    BY <1>2 DEF read_buff
  <2> QED
    BY <2>1 DEF SessionType
<1> QED
  BY <1>1, <1>2 DEF Side

\* copy_read keeps the invariant.
LEMMA CopyRead ==
  ASSUME Inv, NEW fd \in ItemFd, NEW t \in Session, copy_read(fd, t)
  PROVE  Good
<1> DEFINE rec == sess[t]
           side == SideOf(rec, fd)
           b == rec[read_buff(side)]
<1>1. Handle(fd, READ, t, "COPY")
  BY DEF copy_read
<1>2. /\ rec \in SessionType /\ rec.st = "COPY" /\ Paired(rec.duplex)
      /\ side \in Side /\ FdOf(rec, other(side)) # -1 /\ READ \in rec.duplex[side]
  BY <1>1, Relaying
<1>3. b \in BufferType
  BY <1>2 DEF SessionType, read_buff, Side
<1>4. \/ CopyReturn(t, Shut(rec, side, READ, WRITE), side)
      \/ \E n \in Received(fd, b) :
           CopyReturn(t, [rec EXCEPT ![read_buff(side)] = buffer_write_adv(b, n)], side)
  BY DEF copy_read
<1> HIDE DEF side
<1>5. CASE CopyReturn(t, Shut(rec, side, READ, WRITE), side)
  <2> DEFINE shut == Shut(rec, side, READ, WRITE)
  <2>1. /\ shut \in SessionType /\ shut.st = "COPY" /\ shut.cfd = rec.cfd /\ shut.ofd = rec.ofd
        /\ Paired(shut.duplex) /\ shut # rec
    <3>1. READ # WRITE
      BY DEF READ, WRITE
    <3> QED
      BY <1>2, <3>1, ShutPairs
  <2> HIDE DEF shut
  <2> QED
    BY <1>1, <1>2, <1>5, <2>1, CopyReturns DEF shut
<1>6. ASSUME NEW n \in Received(fd, b),
             CopyReturn(t, [rec EXCEPT ![read_buff(side)] = buffer_write_adv(b, n)], side)
      PROVE  Good
  <2> DEFINE got == buffer_write_adv(b, n)
             moved == [rec EXCEPT ![read_buff(side)] = got]
  <2>1. got \in BufferType /\ got # b
    BY <1>3, Filled
  <2> HIDE DEF got
  <2>2. /\ moved \in SessionType /\ moved.st = "COPY" /\ moved.cfd = rec.cfd
        /\ moved.ofd = rec.ofd /\ moved.duplex = rec.duplex /\ moved # rec
    BY <1>2, <2>1, BufferMoved
  <2>3. CopyReturn(t, moved, side)
    BY <1>6 DEF got
  <2> HIDE DEF moved
  <2> QED
    BY <1>1, <1>2, <2>2, <2>3, CopyReturns
<1> QED
  BY <1>4, <1>5, <1>6

\* copy_write keeps the invariant.
LEMMA CopyWrite ==
  ASSUME Inv, NEW fd \in ItemFd, NEW t \in Session, copy_write(fd, t)
  PROVE  Good
<1> DEFINE rec == sess[t]
           side == SideOf(rec, fd)
           b == rec[write_buff(side)]
<1>1. Handle(fd, WRITE, t, "COPY")
  BY DEF copy_write
<1>2. /\ rec \in SessionType /\ rec.st = "COPY" /\ Paired(rec.duplex)
      /\ side \in Side /\ FdOf(rec, other(side)) # -1 /\ WRITE \in rec.duplex[side]
  BY <1>1, Relaying
<1>3. b \in BufferType
  BY <1>2 DEF SessionType, write_buff, read_buff, other, Side
<1>4. \/ CopyReturn(t, Shut(rec, side, WRITE, READ), side)
      \/ \E n \in Sent(fd, b) :
           CopyReturn(t, [rec EXCEPT ![write_buff(side)] = buffer_read_adv(b, n)], side)
  BY DEF copy_write
<1> HIDE DEF side
<1>5. CASE CopyReturn(t, Shut(rec, side, WRITE, READ), side)
  <2> DEFINE shut == Shut(rec, side, WRITE, READ)
  <2>1. /\ shut \in SessionType /\ shut.st = "COPY" /\ shut.cfd = rec.cfd /\ shut.ofd = rec.ofd
        /\ Paired(shut.duplex) /\ shut # rec
    <3>1. READ # WRITE /\ {WRITE, READ} = {READ, WRITE}
      BY DEF READ, WRITE
    <3> QED
      BY <1>2, <3>1, ShutPairs
  <2> HIDE DEF shut
  <2> QED
    BY <1>1, <1>2, <1>5, <2>1, CopyReturns DEF shut
<1>6. ASSUME NEW n \in Sent(fd, b),
             CopyReturn(t, [rec EXCEPT ![write_buff(side)] = buffer_read_adv(b, n)], side)
      PROVE  Good
  <2> DEFINE rest == buffer_read_adv(b, n)
             moved == [rec EXCEPT ![read_buff(other(side))] = rest]
  <2>1. rest \in BufferType /\ rest # rec[read_buff(other(side))]
    BY <1>3, SentSome, Emptied DEF write_buff
  <2>2. CopyReturn(t, moved, side)
    BY <1>6 DEF write_buff
  <2> HIDE DEF rest
  <2>3. other(side) \in Side
    BY <1>2, Sides
  <2>4. /\ moved \in SessionType /\ moved.st = "COPY" /\ moved.cfd = rec.cfd
        /\ moved.ofd = rec.ofd /\ moved.duplex = rec.duplex /\ moved # rec
    BY <1>2, <2>1, <2>3, BufferMoved
  <2> HIDE DEF moved
  <2> QED
    BY <1>1, <1>2, <2>2, <2>4, CopyReturns
<1> QED
  BY <1>4, <1>5, <1>6

-----------------------------------------------------------------------------
(* The calls that end in abort() or in freed memory.                       *)

\* An origin that speaks in REQUEST_WRITE, below whose number the client's
\* reply was still to be offered, would have been walked after the client.
LEMMA OriginSpokeEarly ==
  ASSUME Inv, NEW fd \in ItemFd, NEW t \in Session, Handle(fd, READ, t, "REQUEST_WRITE"),
         fd = sess[t].ofd, sess[t].st = "REQUEST_WRITE",
         sess[t].status # "command_not_supported"
  PROVE  sess[t].ofd \in 0..(sess[t].cfd - 1) \/ sess[t].output.read > 0
<1> DEFINE rec == sess[t]
<1>1. Found(fd, READ, t)
  BY Entry DEF StmState
<1>2. /\ rec.cfd \in ItemFd /\ rec.cfd # fd /\ sel.item[rec.cfd].used
      /\ sel.item[rec.cfd].interest = {WRITE} /\ READ \in sel.item[fd].interest
      /\ rec \in SessionType
  BY <1>1 DEF Found, InState, ClientOnly, Handled, READ, WRITE
<1>3. rec.output.read \in Nat
  BY <1>2, Socks5Assumption DEF SessionType, BufferType
<1>4. SUFFICES ASSUME rec.output.read = 0, rec.cfd < fd
               PROVE  FALSE
  <2>1. rec.cfd \in Nat /\ fd \in Nat
    BY <1>2, Numbers
  <2> QED
    BY <1>2, <1>3, <2>1
<1>5. IsNext(fd, READ)
  BY DEF Handle
<1>6. fd \in slave_r
  BY <1>5 DEF IsNext, Ready, READ
<1>7. rec.cfd \in slave_w
  <2>1. ReplyFirst(rec, sel.item, slave_r, slave_w)
    BY <1>5 DEF Inv, RepliesGoFirst, IsNext
  <2> QED
    BY <1>2, <1>4, <1>6, <2>1 DEF ReplyFirst
<1>8. Ready(rec.cfd, WRITE)
  BY <1>2, <1>7 DEF Ready, ITEM_USED, READ, WRITE
<1> QED
  BY <1>2, <1>4, <1>5, <1>8 DEF IsNext

\* A state without on_read_ready gets no read event, except where the assertion
\* of handle_read has a cause that AbortsHaveTheirCause names.
LEMMA NoReadHandler ==
  ASSUME Inv, NEW fd \in ItemFd, NEW t \in Session,
         NEW st \in StmState \ HasReadHandler, Handle(fd, READ, t, st)
  PROVE  \/ /\ sess[t].st = "REQUEST_WRITE"
            /\ sess[t].ofd \in 0..(sess[t].cfd - 1) \/ sess[t].output.read > 0
         \/ /\ sess[t].st \in {"REQUEST_CONNECTING", "REQUEST_WRITE"}
            /\ sess[t].status # "succeeded"
            /\ READ \in sel.item[sess[t].cfd].interest
<1> DEFINE rec == sess[t]
<1>1. Found(fd, READ, t)
  BY Entry
<1>2. rec.st = st
  BY DEF Handle, current, HasReadHandler
<1>3. rec.st \in AtRest
  BY <1>1 DEF Found, Handled, SessionType
<1>4. st \in {"HELLO_WRITE", "REQUEST_CONNECTING", "REQUEST_WRITE"}
  BY <1>2, <1>3 DEF StmState, HasReadHandler, AtRest
<1>5. st # "HELLO_WRITE"
  <2> SUFFICES ASSUME st = "HELLO_WRITE"
               PROVE  FALSE
    OBVIOUS
  <2>1. rec.ofd = -1 /\ sel.item[rec.cfd].interest = {WRITE}
    BY <1>1, <1>2 DEF Found, InState, ClientOnly
  <2> QED
    BY <1>1, <2>1, Numbers DEF Found, READ, WRITE
<1>6. CASE st = "REQUEST_CONNECTING"
  BY <1>1, <1>2, <1>6 DEF Found, InState, ClientOnly, BothEnds, READ, WRITE
<1>7. CASE st = "REQUEST_WRITE"
  <2>1. CASE rec.status = "command_not_supported"
    BY <1>1, <1>2, <1>7, <2>1 DEF Found, InState, ClientOnly
  <2>2. CASE rec.status # "command_not_supported"
    <3>1. fd = rec.ofd
      BY <1>1, <1>2, <1>7, <2>2 DEF Found, InState, ClientOnly, READ, WRITE
    <3> QED
      BY <1>2, <1>7, <2>2, <3>1, OriginSpokeEarly
  <2> QED
    BY <2>1, <2>2
<1> QED
  BY <1>4, <1>5, <1>6, <1>7

\* A state without on_write_ready gets no write event.
LEMMA NoWriteHandler ==
  ASSUME Inv, NEW fd \in ItemFd, NEW t \in Session,
         NEW st \in StmState \ HasWriteHandler, Handle(fd, WRITE, t, st)
  PROVE  FALSE
<1> DEFINE rec == sess[t]
<1>1. Found(fd, WRITE, t)
  BY Entry
<1>2. rec.st \in {st, "start"} /\ rec.st \in AtRest
  BY <1>1 DEF Handle, current, Found, Handled, SessionType
<1>3. rec.st \in {"start", "HELLO_READ", "REQUEST_READ"}
  BY <1>2 DEF StmState, HasWriteHandler, AtRest
<1>4. rec.ofd = -1 /\ sel.item[rec.cfd].interest = {READ}
  BY <1>1, <1>3 DEF Found, InState, ClientOnly
<1> QED
  BY <1>1, <1>4, Numbers DEF Found, READ, WRITE

\* The assertions of handle_read and handle_write fail for a stated cause only.
LEMMA NoHandler ==
  ASSUME Inv, NEW fd \in ItemFd, NEW t \in Session, NEW op \in {READ, WRITE},
         no_handler(fd, op, t)
  PROVE  Good
<1>1. CASE op = READ
  <2>1. PICK st \in StmState \ HasReadHandler : Handle(fd, READ, t, st)
    BY <1>1 DEF no_handler
  <2>2. Die("no_read_handler")
    BY <1>1 DEF no_handler
  <2>3. AbortsHaveTheirCause'
    BY <2>1, <2>2, NoReadHandler DEF Die, AbortsHaveTheirCause
  <2> QED
    BY <2>1, <2>2, <2>3, Dies DEF Handle
<1>2. CASE op = WRITE
  <2>1. PICK st \in StmState \ HasWriteHandler : Handle(fd, WRITE, t, st)
    BY <1>2 DEF no_handler, READ, WRITE
  <2> QED
    BY <2>1, NoWriteHandler
<1> QED
  BY <1>1, <1>2

\* A handler called for a freed session ends the process; AbortsHaveTheirCause
\* says nothing of that fault, which MCSocks5Dangling is about.
LEMMA Dangling ==
  ASSUME Inv, NEW fd \in ItemFd, NEW t \in Session, NEW op \in {READ, WRITE},
         dangling(fd, op, t)
  PROVE  Good
<1>1. Walk(fd, op) /\ Die("use_after_free")
  BY DEF dangling, Handle
<1>2. AbortsHaveTheirCause'
  BY <1>1 DEF Die, AbortsHaveTheirCause
<1> QED
  BY <1>1, <1>2, Dies

-----------------------------------------------------------------------------
(* New connections, the kernel and pselect.                                *)

\* The counter of accepted connections stays a counter.
LEMMA IncreaseType ==
  ASSUME NEW c \in Counters
  PROVE  stadistics_increase_concurrent(c) \in Counters
<1> DEFINE up(n) == IF n < UINT16_MAX THEN n + 1 ELSE n
<1>1. UINT16_MAX \in Nat
  BY DEF UINT16_MAX
<1>2. \A n \in 0..UINT16_MAX : up(n) \in 0..UINT16_MAX
  BY <1>1
<1>3. c.concurrentConnections \in 0..UINT16_MAX /\ c.totalConnections \in 0..UINT16_MAX
  BY DEF Counters
<1>4. stadistics_increase_concurrent(c)
        = [concurrentConnections |-> up(c.concurrentConnections),
           totalConnections |-> up(c.totalConnections)]
  BY DEF stadistics_increase_concurrent
<1> HIDE DEF up
<1> QED
  BY <1>2, <1>3, <1>4 DEF Counters

\* What new_connection stores has the type of a session.
LEMMA NewSessionIs ==
  ASSUME NEW fd \in Fd \cup {-1}
  PROVE  /\ NewSession(fd) \in SessionType /\ NewSession(fd).st = "start"
         /\ NewSession(fd).cfd = fd /\ NewSession(fd).ofd = -1
         /\ NewSession(fd).output = EmptyBuffer
<1>1. /\ "start" \in AtRest /\ "unallocated" \in AtRest /\ "none" \in Status /\ UNSET \in Methods
  BY DEF AtRest, SessionState, Status, Methods
<1>2. EmptyBuffer \in BufferType
  BY Reply
<1>3. NoDuplex \in [Side -> Interest]
  BY DEF NoDuplex, Interest
<1> DEFINE bare == [st |-> "unallocated", cfd |-> -1, ofd |-> -1, offer |-> <<>>,
              method |-> UNSET, status |-> "none", input |-> EmptyBuffer,
              output |-> EmptyBuffer, duplex |-> NoDuplex, died |-> "none"]
<1>4. bare \in SessionType /\ bare.output = EmptyBuffer /\ bare.ofd = -1
  BY <1>1, <1>2, <1>3 DEF SessionType
<1>5. NewSession(fd) = [bare EXCEPT !.st = "start", !.cfd = fd]
  BY DEF NewSession, NoSession
<1> HIDE DEF bare
<1> QED
  BY <1>1, <1>4, <1>5 DEF SessionType

\* An accept keeps the invariant, whichever of its calls fails.
LEMMA NewConnection ==
  ASSUME Inv, new_connection
  PROVE  Good
<1>1. /\ IsNext(listener, READ) /\ Walk(listener, READ) /\ fault' = fault
      /\ listener \in ItemFd
  BY Numbers DEF new_connection
<1>2. sel.item[listener].data = NoData /\ NoData \notin Session
  BY Socks5Assumption DEF Inv, Ownership, ListenerStays
<1>3. CASE UNCHANGED <<sel, kern, sess, stadistics>>
  <2>1. Types'
    BY <1>1, <1>3 DEF Inv, Types, Walk
  <2>2. Ownership'
    BY <1>3 DEF Inv, Ownership, ItemsOwned, ListenerStays, SessionsHold, Apart, ClientsOwned,
               Live, Open
  <2>3. RepliesGoFirst'
    BY <1>1, <1>2, <1>3, OthersReplyFirst DEF RepliesGoFirst
  <2>4. AbortsHaveTheirCause'
    BY <1>1 DEF IsNext, AbortsHaveTheirCause
  <2>5. Counted' /\ TouchesOwn
    BY <1>3 DEF Inv, Counted, ConcurrentCountsSessions, Live, TouchesOwn
  <2> QED
    BY <2>1, <2>2, <2>3, <2>4, <2>5 DEF Inv, Good
<1>4. ASSUME Accepted
      PROVE  Good
  <2>1. stadistics' \in Counters
    BY <1>4, IncreaseType DEF Accepted, Inv, Types
  <2>2. PICK t \in Session :
          /\ sess[t].st = "unallocated"
          /\ \/ /\ Fd \ Open # {}
                /\ sel' = selector_register(sel, LowestFree, OP_READ, t)
                /\ kern' = [kern EXCEPT ![LowestFree] = "client"]
                /\ sess' = [sess EXCEPT ![t] = NewSession(LowestFree)]
             \/ /\ sess' = [sess EXCEPT ![t] = NewSession(-1)]
                /\ UNCHANGED <<sel, kern>>
    BY <1>4 DEF Accepted
  <2>3. /\ sel \in SelType /\ Bounded(sel) /\ kern \in [Fd -> FdKind] /\ sess[t].ofd = -1
    BY <2>2 DEF Inv, Types, Ownership, ItemsOwned, SessionsHold, Bounded
  <2>4. ASSUME NEW new, new.st = "start", sess' = [sess EXCEPT ![t] = new]
        PROVE  Counted' /\ new # sess[t]
    <3> SUFFICES ASSUME FewSessions
                 PROVE  ConcurrentCountsSessions'
      BY <2>2, <2>4 DEF Counted
    <3> DEFINE S == {s \in Session : Live(s)}
               n == stadistics.concurrentConnections
    <3>1. n = Cardinality(S)
      BY DEF Inv, Counted, ConcurrentCountsSessions
    <3>2. {s \in Session : Live(s)'} = S \cup {t}
      BY <2>4 DEF Live, Inv, Types
    <3>3. t \in Session \ S /\ S \subseteq Session
      BY <2>2 DEF Live
    <3> HIDE DEF S
    <3>4. /\ Cardinality(S) \in Nat /\ Cardinality(S \cup {t}) = Cardinality(S) + 1
          /\ Cardinality(S) < UINT16_MAX
      BY <3>3, Cardinalities
    <3>5. stadistics'.concurrentConnections = n + 1
      BY <1>4, <3>1, <3>4 DEF Accepted, stadistics_increase_concurrent
    <3> QED
      BY <3>1, <3>2, <3>4, <3>5 DEF ConcurrentCountsSessions
  <2>5. CASE /\ Fd \ Open # {}
             /\ sel' = selector_register(sel, LowestFree, OP_READ, t)
             /\ kern' = [kern EXCEPT ![LowestFree] = "client"]
             /\ sess' = [sess EXCEPT ![t] = NewSession(LowestFree)]
    <3> DEFINE fd == LowestFree
               new == NewSession(fd)
               table == selector_register(sel, fd, OP_READ, t)
               k == [kern EXCEPT ![fd] = "client"]
    <3>1. /\ fd \in Fd /\ kern[fd] = "free" /\ (fd \in ItemFd => sel.item[fd] = UnusedItem)
      BY <2>5, FreshNumber
    <3> HIDE DEF fd
    <3>2. /\ new \in SessionType /\ new.st = "start" /\ new.cfd = fd /\ new.ofd = -1
          /\ new.output = EmptyBuffer
      BY <3>1, NewSessionIs
    <3>3. /\ table \in SelType /\ Bounded(table)
          /\ \A g \in ItemFd : g # fd => table.item[g] = sel.item[g]
          /\ fd \in ItemFd => table.item[fd] = [used |-> TRUE, interest |-> OP_READ, data |-> t]
      <4>1. fd \in ItemFd => ~sel.item[fd].used
        BY <3>1, UnusedIsItem
      <4> QED
        BY <2>3, <3>1, <4>1, Register, Interests
    <3>4. /\ k \in [Fd -> FdKind] /\ k[fd] = "client" /\ \A g \in Fd : g # fd => k[g] = kern[g]
      BY <2>3, <3>1 DEF FdKind
    <3> HIDE DEF new, table, k
    <3>5. fd \in ItemFd => /\ table.item[fd].used /\ table.item[fd].data = t
                           /\ table.item[fd].interest = {READ}
      BY <3>3 DEF OP_READ
    <3>6. fd \in ItemFd => InState(new, table.item)
      BY <3>2, <3>5, Numbers DEF InState, ClientOnly
    <3>7. LocalStep(t, new, table, k)
      BY <2>2, <2>3, <3>1, <3>2, <3>3, <3>4, <3>5, <3>6, Numbers DEF LocalStep
    <3>8. ReplySafe(new, table, listener)
      BY <3>2 DEF ReplySafe
    <3>9. sess' = [sess EXCEPT ![t] = new] /\ sel' = table /\ kern' = k
      BY <2>5 DEF new, table, k, fd
    <3>10. Counted' /\ new # sess[t]
      BY <2>4, <3>2, <3>9
    <3> QED
      BY <1>1, <1>2, <2>1, <3>7, <3>8, <3>9, <3>10, Kept
  <2>6. CASE /\ sess' = [sess EXCEPT ![t] = NewSession(-1)]
             /\ UNCHANGED <<sel, kern>>
    <3> DEFINE new == NewSession(-1)
    <3>1. new \in SessionType /\ new.st = "start" /\ new.cfd = -1 /\ new.ofd = -1
      BY NewSessionIs
    <3> HIDE DEF new
    <3>2. LocalStep(t, new, sel, kern)
      BY <2>2, <2>3, <3>1, Numbers DEF LocalStep
    <3>3. ReplySafe(new, sel, listener)
      BY <3>1 DEF ReplySafe
    <3>4. sess' = [sess EXCEPT ![t] = new] /\ sel' = sel /\ kern' = kern
      BY <2>6 DEF new
    <3>5. Counted' /\ new # sess[t]
      BY <2>4, <3>1, <3>4
    <3> QED
      BY <1>1, <1>2, <2>1, <3>2, <3>3, <3>4, <3>5, Kept
  <2> QED
    BY <2>2, <2>5, <2>6
<1> QED
  BY <1>3, <1>4 DEF new_connection

\* The end of a pending connect keeps the invariant.
LEMMA OriginAnswersKeeps ==
  ASSUME Inv, NEW fd \in Fd, OriginAnswers(fd)
  PROVE  Good
<1> USE DEF Inv, Ownership
<1>1. PICK answer \in {"connected", "failed"} : kern' = [kern EXCEPT ![fd] = answer]
  BY DEF OriginAnswers
<1>2. /\ kern[fd] = "pending" /\ fault = "none"
      /\ UNCHANGED <<sel, slave_r, slave_w, sess, stadistics, fault>>
  BY DEF OriginAnswers
<1>3. /\ kern' \in [Fd -> FdKind] /\ kern'[fd] \in Origin /\ kern'[fd] # "free"
      /\ \A g \in Fd : g # fd => kern'[g] = kern[g]
  BY <1>1 DEF Types, FdKind, Origin
<1>4. /\ \A g \in Fd : /\ (g \in Open' <=> g \in Open)
                       /\ (kern'[g] = "client" <=> kern[g] = "client")
                       /\ (kern'[g] = "listener" <=> kern[g] = "listener")
                       /\ (kern[g] \in Origin => kern'[g] \in Origin)
  BY <1>2, <1>3 DEF Open, Origin
<1>5. \A s \in Session : sess[s].cfd \in Fd \cup {-1} /\ sess[s].ofd \in Fd \cup {-1}
  BY DEF Types, SessionType
<1>6. Types'
  BY <1>2, <1>3 DEF Types
<1>7. ItemsOwned'
  <2>1. \A g : g \in Open => g \in Open'
    BY <1>4 DEF Open
  <2> QED
    BY <1>2, <2>1 DEF ItemsOwned, Live
<1>8. ListenerStays'
  BY <1>2, <1>4, Numbers DEF ListenerStays
<1>9. SessionsHold'
  <2> SUFFICES ASSUME NEW s \in Session
               PROVE  /\ sess[s].st = "unallocated" => sess[s].ofd = -1
                      /\ sess[s].ofd # -1 => kern'[sess[s].ofd] \in Origin
                      /\ sess[s].ofd \in ItemFd /\ sel.item[sess[s].ofd].used
                           => sel.item[sess[s].ofd].data = s
                      /\ Live(s) =>
                           /\ sess[s].cfd # -1 => kern'[sess[s].cfd] = "client"
                           /\ IF sess[s].cfd \in ItemFd
                              THEN /\ sel.item[sess[s].cfd].used
                                   /\ sel.item[sess[s].cfd].data = s
                                   /\ InState(sess[s], sel.item)
                              ELSE sess[s].st = "start" /\ sess[s].ofd = -1
    BY <1>2 DEF SessionsHold, Live
  <2> QED
    BY <1>4, <1>5 DEF SessionsHold
<1>10. Apart'
  BY <1>2 DEF Apart, Live
<1>11. ClientsOwned'
  BY <1>2, <1>4 DEF ClientsOwned, Live
<1>12. RepliesGoFirst'
  BY <1>2 DEF RepliesGoFirst
<1>13. AbortsHaveTheirCause'
  BY <1>2 DEF AbortsHaveTheirCause
<1>14. Counted' /\ TouchesOwn
  BY <1>2 DEF Counted, ConcurrentCountsSessions, Live, TouchesOwn
<1> QED
  BY <1>6, <1>7, <1>8, <1>9, <1>10, <1>11, <1>12, <1>13, <1>14 DEF Good

\* pselect starts a new walk, which keeps the invariant.
LEMMA SelectorSelect ==
  ASSUME Inv, selector_select
  PROVE  Good
<1> USE DEF Inv
<1>1. /\ fault = "none" /\ UNCHANGED <<sel, kern, sess, stadistics, fault>>
      /\ slave_r' \in ReadySets(READ) /\ slave_w' \in ReadySets(WRITE)
  BY DEF selector_select
<1>2. slave_r' \in SUBSET ItemFd /\ slave_w' \in SUBSET ItemFd
  BY <1>1 DEF ReadySets, Master
<1>3. Types'
  BY <1>1, <1>2 DEF Types
<1>4. Ownership'
  BY <1>1 DEF Ownership, ItemsOwned, ListenerStays, SessionsHold, Apart, ClientsOwned, Live, Open
<1>5. RepliesGoFirst'
  <2> SUFFICES ASSUME NEW s \in Session, sess[s].st = "REQUEST_WRITE",
                      sess[s].status # "command_not_supported"
               PROVE  sess[s].cfd \in slave_w'
    BY <1>1 DEF RepliesGoFirst, ReplyFirst
  <2> DEFINE fd == sess[s].cfd
  <2>1. /\ fd \in ItemFd /\ sel.item[fd].used /\ sel.item[fd].data = s
        /\ InState(sess[s], sel.item) /\ kern[fd] = "client"
    BY Numbers DEF Ownership, SessionsHold, Live
  <2>2. WRITE \in sel.item[fd].interest
    BY <2>1 DEF InState
  <2>3. fd \in Master(sel, WRITE) /\ fd <= sel.max_fd
    BY <2>1, <2>2 DEF Master, ITEM_USED, Ownership, ItemsOwned
  <2>4. fd # listener
    BY <2>1 DEF Ownership, ListenerStays
  <2>5. MayBeReady(fd)
    BY <2>1, <2>4 DEF MayBeReady
  <2>6. MustBeReady(fd, WRITE)
    BY <2>1 DEF MustBeReady
  <2> HIDE DEF fd
  <2>7. \A R \in ReadySets(WRITE) : fd \in R
    BY <2>3, <2>5, <2>6 DEF ReadySets
  <2> QED
    BY <1>1, <2>7 DEF fd
<1>6. AbortsHaveTheirCause'
  BY <1>1 DEF AbortsHaveTheirCause
<1>7. Counted' /\ TouchesOwn
  BY <1>1 DEF Counted, ConcurrentCountsSessions, Live, TouchesOwn
<1> QED
  BY <1>3, <1>4, <1>5, <1>6, <1>7 DEF Good

\* The invariant holds when the server starts.
LEMMA Initially ==
  ASSUME Init
  PROVE  Inv
<1> DEFINE blank == [item |-> [fd \in ItemFd |-> UnusedItem], max_fd |-> 0]
<1>1. blank \in SelType /\ Bounded(blank) /\ \A g \in ItemFd : blank.item[g] = UnusedItem
  BY UnusedIsItem, Numbers DEF SelType, Bounded, listener
<1>2. sel = selector_register(blank, listener, OP_READ, NoData)
  BY DEF Init, selector_new
<1> HIDE DEF blank
<1>3. /\ sel \in SelType /\ Bounded(sel)
      /\ \A g \in ItemFd : g # listener => sel.item[g] = UnusedItem
      /\ sel.item[listener] = [used |-> TRUE, interest |-> OP_READ, data |-> NoData]
  <2>1. ~blank.item[listener].used
    BY <1>1, Numbers, UnusedIsItem
  <2> QED
    BY <1>1, <1>2, <2>1, Register, Interests, Numbers
<1>4. /\ kern \in [Fd -> FdKind] /\ kern[listener] = "listener"
      /\ \A g \in Fd : g # listener => kern[g] = "free"
  BY Numbers DEF Init, FdKind
<1>5. /\ NoSession \in SessionType /\ NoSession.st = "unallocated" /\ NoSession.ofd = -1
  <2>1. /\ "unallocated" \in AtRest /\ "none" \in Status /\ UNSET \in Methods
    BY DEF AtRest, SessionState, Status, Methods
  <2>2. EmptyBuffer \in BufferType
    BY Reply
  <2>3. NoDuplex \in [Side -> Interest]
    BY DEF NoDuplex, Interest
  <2> QED
    BY <2>1, <2>2, <2>3 DEF SessionType, NoSession
<1>6. sess = [s \in Session |-> NoSession]
  BY DEF Init
<1> HIDE DEF Init
<1>7. \A s \in Session : sess[s] = NoSession /\ ~Live(s)
  BY <1>5, <1>6 DEF Live
<1>8. Types
  <2>1. stadistics \in Counters
    BY DEF Init, Counters, UINT16_MAX
  <2> QED
    BY <1>3, <1>4, <1>5, <1>6, <2>1 DEF Init, Types
<1>9. ItemsOwned
  <2>1. listener \in Open
    BY <1>4, Numbers DEF Open
  <2> QED
    BY <1>3, <2>1, UnusedIsItem DEF ItemsOwned, Bounded
<1>10. ListenerStays /\ SessionsHold /\ Apart /\ ClientsOwned
  BY <1>3, <1>4, <1>5, <1>7, Numbers DEF ListenerStays, SessionsHold, Apart, ClientsOwned
<1>11. RepliesGoFirst
  BY <1>5, <1>7 DEF RepliesGoFirst, ReplyFirst
<1>12. AbortsHaveTheirCause
  BY DEF Init, AbortsHaveTheirCause
<1>13. Counted
  <2>1. {s \in Session : Live(s)} = {}
    BY <1>7
  <2>2. stadistics.concurrentConnections = 0 /\ Cardinality({}) = 0
    BY FS_EmptySet DEF Init
  <2> QED
    BY <2>1, <2>2 DEF Counted, ConcurrentCountsSessions
<1> QED
  BY <1>8, <1>9, <1>10, <1>11, <1>12, <1>13 DEF Inv, Ownership

-----------------------------------------------------------------------------
(* The theorems.                                                           *)

\* Every step keeps the invariant.
LEMMA NextStep ==
  ASSUME Inv, Next
  PROVE  Good
<1>1. CASE HandlerStep
  <2>1. PICK fd \in ItemFd, t \in Session :
          \/ hello_read(fd, t) \/ hello_write(fd, t)
          \/ request_read(fd, t) \/ request_connecting(fd, t) \/ request_write(fd, t)
          \/ copy_read(fd, t) \/ copy_write(fd, t)
          \/ \E op \in {READ, WRITE} : no_handler(fd, op, t) \/ dangling(fd, op, t)
    BY <1>1 DEF HandlerStep
  <2> QED
    BY <2>1, HelloRead, HelloWrite, RequestRead, RequestConnecting, RequestWrite,
       CopyRead, CopyWrite, NoHandler, Dangling
<1>2. CASE UNCHANGED vars
  <2> USE <1>2 DEF vars
  <2>1. Types'
    BY DEF Inv, Types
  <2>2. Ownership'
    BY DEF Inv, Ownership, ItemsOwned, ListenerStays, SessionsHold, Apart, ClientsOwned,
           Live, Open
  <2>3. RepliesGoFirst' /\ AbortsHaveTheirCause'
    BY DEF Inv, RepliesGoFirst, AbortsHaveTheirCause
  <2>4. Counted' /\ TouchesOwn
    BY DEF Inv, Counted, ConcurrentCountsSessions, Live, TouchesOwn
  <2> QED
    BY <2>1, <2>2, <2>3, <2>4 DEF Inv, Good
<1> QED
  BY <1>1, <1>2, NewConnection, SelectorSelect, OriginAnswersKeeps DEF Next, Dead

\* So does a stuttering step.
LEMMA StutterStep ==
  ASSUME Inv, UNCHANGED vars
  PROVE  Inv'
<1> USE DEF vars
<1>1. Types'
  BY DEF Inv, Types
<1>2. Ownership'
  BY DEF Inv, Ownership, ItemsOwned, ListenerStays, SessionsHold, Apart, ClientsOwned,
         Live, Open
<1>3. RepliesGoFirst' /\ AbortsHaveTheirCause' /\ Counted'
  BY DEF Inv, RepliesGoFirst, AbortsHaveTheirCause, Counted, ConcurrentCountsSessions, Live
<1> QED
  BY <1>1, <1>2, <1>3 DEF Inv

\* The inductive invariant of the proxy: who owns each item of the table and
\* each descriptor, what every state of a session waits for, and that replies
\* are offered before origins are read.
THEOREM InvHolds == Spec => []Inv
<1>1. Init => Inv
  BY Initially
<1>2. Inv /\ [Next]_vars => Inv'
  BY NextStep, StutterStep DEF Good
<1> QED
  BY <1>1, <1>2, PTL DEF Spec

\* The invariant's types are those TLC checks.
LEMMA TypesGiveTypeOK ==
  ASSUME Types
  PROVE  TypeOK
<1>1. sel.item \in [ItemFd -> ItemType] /\ sel.max_fd \in ItemFd
  BY DEF Types, SelType
<1>2. DOMAIN sess = Session
  BY DEF Types
<1>3. ASSUME NEW s \in Session
      PROVE  /\ sess[s].st \in SessionState
             /\ {sess[s].cfd, sess[s].ofd} \subseteq Fd \cup {-1}
             /\ \A b \in {sess[s].input, sess[s].output} :
                  0 <= b.read /\ b.read <= b.write /\ b.write <= BUFFER_SIZE
             /\ sess[s].duplex \in [Side -> Interest]
  <2>1. sess[s] \in SessionType
    BY DEF Types
  <2>2. /\ sess[s].st \in SessionState /\ sess[s].cfd \in Fd \cup {-1}
        /\ sess[s].ofd \in Fd \cup {-1} /\ sess[s].duplex \in [Side -> Interest]
        /\ sess[s].input \in BufferType /\ sess[s].output \in BufferType
    BY <2>1 DEF SessionType, AtRest
  <2>3. ASSUME NEW b \in BufferType
        PROVE  0 <= b.read /\ b.read <= b.write /\ b.write <= BUFFER_SIZE
    <3>1. b.read \in 0..BUFFER_SIZE /\ b.write \in 0..BUFFER_SIZE
      BY DEF BufferType
    <3>2. b.read < b.write \/ (b.read = 0 /\ b.write = 0)
      BY DEF BufferType, EmptyBuffer
    <3> QED
      BY <3>1, <3>2, Socks5Assumption
  <2> QED
    BY <2>2, <2>3
<1> QED
  BY <1>1, <1>2, <1>3 DEF Types, TypeOK, ItemType, Counters

\* Who owns what, seen from the table.
LEMMA OwnershipGivesDescriptors ==
  ASSUME Types, Ownership
  PROVE  SessionsOwnDescriptors
<1> USE DEF Ownership
<1>1. TypeOK /\ RegisteredIsOpen
  BY TypesGiveTypeOK DEF RegisteredIsOpen, ITEM_USED, ItemsOwned
<1>2. \A fd \in Open : kern[fd] = "client" => \E s \in Session : Live(s) /\ sess[s].cfd = fd
  BY DEF ClientsOwned, Open
<1>3. ASSUME NEW s \in Session, Live(s)
      PROVE  /\ sess[s].cfd \in ItemFd =>
                  ITEM_USED(sel, sess[s].cfd) /\ sel.item[sess[s].cfd].data = s
             /\ sess[s].st = "COPY" =>
                  \A fd \in {sess[s].cfd, sess[s].ofd} :
                    fd \in ItemFd /\ ITEM_USED(sel, fd) /\ sel.item[fd].data = s
             /\ \A fd \in ItemFd :
                  sel.item[fd].data = s => fd \in {sess[s].cfd, sess[s].ofd} \ {-1}
             /\ \A t \in Session \ {s} : Live(t) =>
                  ({sess[s].cfd, sess[s].ofd} \ {-1}) \cap {sess[t].cfd, sess[t].ofd} = {}
  <2>1. sess[s].cfd \in ItemFd =>
          ITEM_USED(sel, sess[s].cfd) /\ sel.item[sess[s].cfd].data = s
    BY <1>3 DEF SessionsHold, ITEM_USED
  <2>2. ASSUME sess[s].st = "COPY"
        PROVE  \A fd \in {sess[s].cfd, sess[s].ofd} :
                 fd \in ItemFd /\ ITEM_USED(sel, fd) /\ sel.item[fd].data = s
    <3>1. sess[s].cfd \in ItemFd /\ BothEnds(sess[s], sel.item)
      BY <1>3, <2>2 DEF SessionsHold, InState
    <3> QED
      BY <2>1, <3>1 DEF BothEnds, SessionsHold, ITEM_USED
  <2>3. ASSUME NEW fd \in ItemFd, sel.item[fd].data = s
        PROVE  fd \in {sess[s].cfd, sess[s].ofd} \ {-1}
    <3>1. fd # listener /\ sel.item[fd].used
      BY <2>3, UnusedIsItem, Socks5Assumption DEF ItemsOwned, ListenerStays
    <3>2. fd \in {sess[s].cfd, sess[s].ofd}
      BY <1>3, <2>3, <3>1 DEF ItemsOwned, Live
    <3> QED
      BY <3>2, Numbers
  <2>4. ASSUME NEW t \in Session \ {s}, Live(t)
        PROVE  ({sess[s].cfd, sess[s].ofd} \ {-1}) \cap {sess[t].cfd, sess[t].ofd} = {}
    <3>1. /\ sess[s].ofd # -1 => sess[s].ofd # sess[t].ofd /\ kern[sess[s].ofd] \in Origin
          /\ sess[s].cfd # -1 => sess[s].cfd # sess[t].cfd /\ kern[sess[s].cfd] = "client"
      BY <1>3, <2>4 DEF Apart, SessionsHold
    <3>2. /\ sess[t].ofd # -1 => kern[sess[t].ofd] \in Origin
          /\ sess[t].cfd # -1 => kern[sess[t].cfd] = "client"
      BY <2>4 DEF SessionsHold
    <3> QED
      BY <3>1, <3>2 DEF Origin
  <2> QED
    BY <2>1, <2>2, <2>3, <2>4
<1> QED
  BY <1>1, <1>2, <1>3 DEF SessionsOwnDescriptors

\* Every descriptor has one owner: the table holds open descriptors only, a
\* live session's client and origin are its own, and a client's descriptor never
\* outlives its session (socks5.c, close_session; selector.c:551).
THEOREM DescriptorsHaveOneOwner == Spec => []SessionsOwnDescriptors
<1>1. Inv => SessionsOwnDescriptors
  BY OwnershipGivesDescriptors DEF Inv
<1> QED
  BY <1>1, InvHolds, PTL

\* abort() is reached for the known causes only: no event meets a state without
\* a write handler and check_interest never fails (stm.c:69, copy.c:26).
THEOREM AbortsAreExplained == Spec => []AbortsHaveTheirCause
<1>1. Inv => AbortsHaveTheirCause
  BY DEF Inv
<1> QED
  BY <1>1, InvHolds, PTL

\* A session in a state with handlers has an event to wait for.
LEMMA InStateCanWake ==
  ASSUME Types, Ownership
  PROVE  SomeEventCanWake
<1> USE DEF Ownership
<1> SUFFICES ASSUME NEW s \in Session, Live(s), sess[s].cfd \in ItemFd
             PROVE  \E fd \in {sess[s].cfd, sess[s].ofd} \cap ItemFd :
                      sel.item[fd].data = s /\ sel.item[fd].interest # OP_NOOP
  BY DEF SomeEventCanWake
<1>1. sel.item[sess[s].cfd].data = s /\ InState(sess[s], sel.item)
  BY DEF SessionsHold
<1>2. BothEnds(sess[s], sel.item) => sel.item[sess[s].ofd].data = s
  BY DEF SessionsHold, BothEnds
<1>3. sess[s].st \in AtRest \ {"unallocated", "freed"}
  BY DEF Types, SessionType, Live
<1>4. \/ sel.item[sess[s].cfd].interest # {}
      \/ BothEnds(sess[s], sel.item) /\ sel.item[sess[s].ofd].interest # {}
  BY <1>1, <1>3 DEF InState, ClientOnly, AtRest, SessionState, StmState
<1> QED
  BY <1>1, <1>2, <1>4 DEF BothEnds, OP_NOOP

\* No session is left waiting for nothing: in every state and after every
\* half-close one of its descriptors has an interest (copy.c, check_interest).
THEOREM SessionsCanWake == Spec => []SomeEventCanWake
<1>1. Inv => SomeEventCanWake
  BY InStateCanWake DEF Inv
<1> QED
  BY <1>1, InvHolds, PTL

\* The origin's item that close_session forgets fires only if the session died
\* while its reply was being written (socks5.c:203).
THEOREM OrphansStayQuiet == Spec => []OrphansAreQuiet
<1>1. Inv => OrphansAreQuiet
  <2> SUFFICES ASSUME Inv, NEW fd \in ItemFd, sel.item[fd].used, sel.item[fd].data # NoData,
                      sess[sel.item[fd].data].st = "freed", sel.item[fd].interest # {}
               PROVE  sess[sel.item[fd].data].died = "REQUEST_WRITE"
    BY DEF OrphansAreQuiet, ITEM_USED, OP_NOOP
  <2>1. fd # listener
    BY DEF Inv, Ownership, ListenerStays
  <2> QED
    BY <2>1 DEF Inv, Ownership, ItemsOwned, Live
<1> QED
  BY <1>1, InvHolds, PTL

\* A reply that was decided is in the output buffer and the selector is asked
\* to send it, until it is out (request.c, request_marshal and request_write).
THEOREM RepliesStayPending == Spec => []ReplyIsPending
<1>1. Inv => ReplyIsPending
  <2> SUFFICES ASSUME Inv, NEW s \in Session, sess[s].st = "REQUEST_WRITE",
                      sess[s].status # "command_not_supported"
               PROVE  /\ buffer_can_read(sess[s].output)
                      /\ WRITE \in sel.item[sess[s].cfd].interest
    BY DEF ReplyIsPending
  <2>1. InState(sess[s], sel.item)
    BY DEF Inv, Ownership, SessionsHold, Live
  <2>2. sess[s].output # EmptyBuffer /\ WRITE \in sel.item[sess[s].cfd].interest
    BY <2>1 DEF InState
  <2>3. sess[s].output \in BufferType
    BY DEF Inv, Types, SessionType
  <2>4. buffer_can_read(sess[s].output)
    <3> DEFINE b == sess[s].output
    <3>1. b.read \in 0..BUFFER_SIZE /\ b.write \in 0..BUFFER_SIZE /\ b.read < b.write
      BY <2>2, <2>3 DEF BufferType
    <3> QED
      BY <3>1, Socks5Assumption DEF buffer_can_read
  <2> QED
    BY <2>2, <2>4
<1> QED
  BY <1>1, InvHolds, PTL

\* The counter the management protocol reports is the number of sessions that
\* were created and not closed, as long as a uint16_t can hold it
\* (stadistics.c, stadistics_increase_concurrent and its counterpart).
THEOREM CounterCountsSessions ==
  ASSUME IsFiniteSet(Session), Cardinality(Session) <= UINT16_MAX
  PROVE  Spec => []ConcurrentCountsSessions
<1>1. Inv => ConcurrentCountsSessions
  BY DEF Inv, Counted, FewSessions
<1> QED
  BY <1>1, InvHolds, PTL

\* No handler disturbs the registration of another session's descriptors.
THEOREM HandlersStayAtHome == Spec => HandlersTouchOwnItems
<1>1. Inv /\ [Next]_vars =>
        [\A fd \in ItemFd :
           ITEM_USED(sel, fd) /\ sel'.item[fd] # sel.item[fd]
             => sess'[sel.item[fd].data] # sess[sel.item[fd].data]]_vars
  BY NextStep DEF Good, TouchesOwn, ITEM_USED
<1> QED
  BY <1>1, InvHolds, PTL DEF Spec, HandlersTouchOwnItems
=============================================================================
