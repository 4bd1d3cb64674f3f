---------------------------- MODULE Transactions ----------------------------
(***************************************************************************)
(* Several transactions at once: TransactionManager of                     *)
(* src/tinydb/transaction/txn_manager.py, the shadow pages of              *)
(* shadow_paging.py and the version chains of concurrency/mvcc_manager.py. *)
(*                                                                         *)
(* Every statement is run for the oldest active transaction, whoever       *)
(* issued it.  A page is looked at through the buffer pool; that the pool  *)
(* is in step with the file is the subject of Storage.                     *)
(***************************************************************************)
EXTENDS Naturals, Sequences

CONSTANTS
    Txn,            \* the numbers transactions may get
    Base,           \* the pages of tables
    Spare,          \* the pages the file may grow by
    Data,           \* what a page may hold
    Blank,          \* what a page holds when the file has grown by it
    NoPage, NoTxn, NoData,
    Avoided         \* what the client stays away from, see EnsureShadow

ASSUME TxnAssumption == Txn \subseteq Nat /\ NoTxn \notin Txn
ASSUME DataAssumption == Blank \in Data /\ NoData \notin Data
ASSUME PageAssumption == NoPage \notin Spare /\ Base \cap Spare = {}

VARIABLES
    counter,        \* _txn_counter
    state,          \* Transaction.state
    snapshot,       \* the active transactions each saw when it began
    shadow,         \* Transaction.shadow_pages, NoPage where there is none
    content,        \* of each page in the file
    used, free,     \* spare pages of the file, and those in the free list
    held, dirty,    \* what the pool holds of spare pages, and which it will write
    versions        \* MVCCManager._versions: newest first

vars == <<counter, state, snapshot, shadow, content, used, free, held, dirty, versions>>

\* The keys of _active_txns.
active == {t \in Txn : state[t] = "active"}

NoShadows == [p \in Base |-> NoPage]
Version == [data : Data, created : Txn]

\* Mutant: the transaction that began last.
Newest == CHOOSE t \in active : \A u \in active : u <= t
\* min(active), and the first key of the dictionary.
Oldest == CHOOSE t \in active : \A u \in active : t <= u

-----------------------------------------------------------------------------

\* What a statement sees: the shadows of the oldest transaction, as the pool
\* has them, over the pages.
Pooled(s) == IF held[s] # NoData THEN held[s] ELSE content[s]
Shadowed(p) == active # {} /\ shadow[Oldest][p] # NoPage
View == [p \in Base |-> IF Shadowed(p) THEN Pooled(shadow[Oldest][p]) ELSE content[p]]

\* Mutant: the freed page stays in the free list.
TakeFreeTwice(s) ==
    /\ s \in IF free # {} THEN free ELSE Spare \ used
    /\ free' = free /\ used' = used \cup {s}
\* Mutant: the file forgets that it has grown.
TakeUncounted(s) ==
    /\ s \in IF free # {} THEN free ELSE Spare \ used
    /\ free' = free \ {s} /\ used' = used
\* A page of the free list, or else one more page.
Take(s) ==
    /\ s \in IF free # {} THEN free ELSE Spare \ used
    /\ free' = free \ {s} /\ used' = used \cup {s}

Init ==
    /\ counter = 0 /\ state = [t \in Txn |-> "none"]
    /\ snapshot = [t \in Txn |-> {}]
    /\ shadow = [t \in Txn |-> NoShadows]
    /\ content \in {c \in [Base \cup Spare -> Data] : \A s \in Spare : c[s] = Blank}
    /\ used = {} /\ free = {} /\ dirty = {}
    /\ held = [s \in Spare |-> NoData]
    /\ versions = [p \in Base |-> <<>>]

Begin ==
    /\ counter + 1 \in Txn
    /\ counter' = counter + 1
    /\ state' = [state EXCEPT ![counter'] = "active"]
    /\ snapshot' = [snapshot EXCEPT ![counter'] = active \cup {counter'}]
    /\ UNCHANGED <<shadow, content, used, free, held, dirty, versions>>

\* Mutant: the new version goes to the end of the chain.
PushedLast(chain, v) == Append(chain, v)
\* MVCCManager.create_version.
Pushed(chain, v) == <<v>> \o chain

\* TransactionManager.ensure_shadow: the copy goes to the file, past what the
\* pool may still hold of that page; the page as it was becomes a version.
EnsureShadow(p) ==
    /\ active # {} /\ ~ Shadowed(p)
    /\ \E s \in Spare :
        /\ Take(s)
        /\ "stale shadow" \in Avoided => held[s] = NoData
        /\ shadow' = [shadow EXCEPT ![Oldest][p] = s]
        /\ content' = [content EXCEPT ![s] = content[p]]
    /\ versions' = [versions EXCEPT ![p] = Pushed(@, [data |-> content[p], created |-> Oldest])]
    /\ UNCHANGED <<counter, state, snapshot, held, dirty>>

\* A statement changes a page that has no shadow: ShadowBufferPool makes one.
WriteShadow(p, d) ==
    /\ active # {} /\ ~ Shadowed(p)
    /\ \E s \in Spare :
        /\ Take(s)
        /\ shadow' = [shadow EXCEPT ![Oldest][p] = s]
        /\ content' = [content EXCEPT ![s] = content[p]]
        /\ held' = [held EXCEPT ![s] = d] /\ dirty' = dirty \cup {s}
    /\ UNCHANGED <<counter, state, snapshot, versions>>

\* It changes the shadow, or, outside transactions, the page.
Write(p, d) ==
    /\ Shadowed(p)
    /\ held' = [held EXCEPT ![shadow[Oldest][p]] = d]
    /\ dirty' = dirty \cup {shadow[Oldest][p]}
    /\ UNCHANGED <<counter, state, snapshot, shadow, content, used, free, versions>>
WriteOutside(p, d) ==
    /\ active = {}
    /\ content' = [content EXCEPT ![p] = d]
    /\ UNCHANGED <<counter, state, snapshot, shadow, used, free, held, dirty, versions>>

\* A statement reads a shadow; the pool then holds it.
Read(p) ==
    /\ Shadowed(p)
    /\ held' = [held EXCEPT ![shadow[Oldest][p]] = Pooled(shadow[Oldest][p])]
    /\ UNCHANGED <<counter, state, snapshot, shadow, content, used, free, dirty, versions>>

-----------------------------------------------------------------------------

\* Mutant: also versions of the oldest transaction itself.
GarbageOfOldest(v, others) == \A t \in others : v.created <= t
\* MVCCManager._no_active_txn_can_see.
Garbage(v, others) == v.created \notin others /\ \A t \in others : v.created < t
\* MVCCManager.gc on one chain, from its head to its end.
Collected(chain, others) ==
    LET kept[i \in 0 .. Len(chain)] ==
            IF i = 0 THEN <<>>
            ELSE IF Garbage(chain[i], others) THEN kept[i - 1]
            ELSE Append(kept[i - 1], chain[i])
    IN  kept[Len(chain)]

Flushed == [p \in Base \cup Spare |-> IF p \in dirty THEN held[p] ELSE content[p]]
\* Mutant: nothing is copied.
PublishedNothing(t) == Flushed
\* The shadows are copied over their originals.
Published(t) ==
    [p \in Base \cup Spare |->
        IF p \in Base /\ shadow[t][p] # NoPage THEN Flushed[shadow[t][p]] ELSE Flushed[p]]

\* The shadows stay in the file, in no list.  A page that was freed while the
\* pool held changes of it is written over its link; with the link of a table
\* of one page in its place, the free list ends there.
Commit(t) ==
    /\ t \in active
    /\ content' = Published(t)
    /\ state' = [state EXCEPT ![t] = "committed"]
    /\ shadow' = [shadow EXCEPT ![t] = NoShadows]
    /\ versions' = [p \in Base |-> Collected(versions[p], active \ {t})]
    /\ held' = [s \in Spare |-> NoData] /\ dirty' = {}
    /\ IF free \cap dirty = {} THEN free' = free ELSE free' \in SUBSET free
    /\ UNCHANGED <<counter, snapshot, used>>

\* The pool keeps what it holds of the freed pages.
Rollback(t) ==
    /\ t \in active
    /\ free' = free \cup {shadow[t][p] : p \in {p \in Base : shadow[t][p] # NoPage}}
    /\ state' = [state EXCEPT ![t] = "aborted"]
    /\ shadow' = [shadow EXCEPT ![t] = NoShadows]
    /\ UNCHANGED <<counter, snapshot, content, used, held, dirty, versions>>

Next ==
    \/ Begin
    \/ \E p \in Base : EnsureShadow(p) \/ Read(p) \/ \E d \in Data : WriteShadow(p, d) \/ Write(p, d) \/ WriteOutside(p, d)
    \/ \E t \in Txn : Commit(t) \/ Rollback(t)

Spec == Init /\ [][Next]_vars

-----------------------------------------------------------------------------
(* Properties.                                                             *)

\* Transactions get increasing numbers and pages one of their places.
TypeOK ==
    /\ counter \in Nat
    /\ state \in [Txn -> {"none", "active", "committed", "aborted"}]
    /\ \A t \in Txn : t > counter => state[t] = "none"
    /\ snapshot \in [Txn -> SUBSET Txn]
    /\ shadow \in [Txn -> [Base -> Spare \cup {NoPage}]]
    /\ content \in [Base \cup Spare -> Data]
    /\ used \subseteq Spare /\ free \subseteq used
    /\ held \in [Spare -> Data \cup {NoData}] /\ dirty \subseteq {s \in used : held[s] # NoData}
    /\ versions \in [Base -> Seq(Version)]

\* Only the oldest transaction ever has shadow pages, so no two transactions
\* have changed one page; no shadow is shared, and none is in the free list.
OneWriter == \A t \in Txn : shadow[t] # NoShadows => t \in active /\ t = Oldest
Holds(t, p) == shadow[t][p] # NoPage
ShadowsAreApart ==
    /\ OneWriter
    /\ \A t \in Txn : \A p, q \in Base :
        Holds(t, p) => /\ shadow[t][p] \in used \ free
                       /\ Holds(t, q) /\ p # q => shadow[t][p] # shadow[t][q]

\* The version a transaction leaves of a page is what the page holds until the
\* transaction ends: it can be undone, or read around, by the chain alone.
BeforeImagesAreCurrent ==
    \A p \in Base : \A i \in DOMAIN versions[p] :
        versions[p][i].created \in active => versions[p][i].data = content[p]

\* Chains are in descending order of their creators, as the code says, and no
\* transaction leaves two versions of a page.
ChainsDescend ==
    \A p \in Base : \A i, j \in DOMAIN versions[p] :
        i < j => versions[p][j].created < versions[p][i].created

\* Collecting garbage never takes a version of a transaction that goes on.
Left(p, chains, t) == {i \in DOMAIN chains[p] : chains[p][i].created = t}
OwnVersionsStay ==
    [][\A p \in Base, t \in active' : Left(p, versions, t) # {} => Left(p, versions', t) # {}]_vars

\* The transactions together keep the promise of one workspace: commits and
\* rollbacks are complete, and only the writer's have an effect.
Writer == IF \E t \in Txn : shadow[t] # NoShadows THEN CHOOSE t \in Txn : shadow[t] # NoShadows ELSE NoTxn
Promise == INSTANCE Workspace WITH db <- [p \in Base |-> content[p]], view <- View, writer <- Writer
ImplementsWorkspace == Promise!Spec

\* What a transaction reads of a page through its snapshot: the newest version
\* it can see, or else the page.
Visible(v, t) == v.created \in snapshot[t]
SnapshotRead(t, p) ==
    LET seen == SelectSeq(versions[p], LAMBDA v : Visible(v, t))
    IN  IF seen = <<>> THEN content[p] ELSE seen[1].data
RepeatableRead == [][\A t \in active \cap active', p \in Base :
                        SnapshotRead(t, p) = SnapshotRead(t, p)']_vars
=============================================================================
