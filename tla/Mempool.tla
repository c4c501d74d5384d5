-------------------------------- MODULE Mempool --------------------------------
(***************************************************************************)
(* The MempoolManager of                                                   *)
(* src/blockchain/transactions/mempool/mempool_manager.py.                 *)
(*                                                                         *)
(* mempool is the heap list of (-priority, transaction) tuples, an entry   *)
(* [key, tx]; transaction_set the set of ids.  A transaction is the        *)
(* caller's dict: [p] when submitted, [p, timestamp] once add_transaction  *)
(* has written its timestamp into it.  _get_transaction_id digests the     *)
(* whole dict, so the id is the dict itself.  The priority fee / len(json) *)
(* is a constant of the payload.  The heapq operations are modelled step   *)
(* for step (CPython's _heapq): comparing two tuples with equal priorities *)
(* compares the dicts, which raises TypeError unless they are equal, and   *)
(* the swaps done before the raise stay done.                              *)
(***************************************************************************)
EXTENDS Integers, SequencesExt

CONSTANTS
    Payloads,         \* transaction contents a caller submits
    Fee,              \* Payloads -> fee
    Key,              \* Payloads -> -priority, the heap key
    MinFee,           \* config "min_fee"
    MaxTransactions,  \* config "max_transactions"
    ExpirationTime,   \* config "transaction_expiration_seconds"
    MaxTime           \* bound on the clock

VARIABLES mempool, transaction_set, now

vars == <<mempool, transaction_set, now>>

GetTransactionId(tx) == tx

\* tuple < tuple: "lt", "nlt", or "error" (TypeError comparing two dicts).
Cmp(a, b) ==
    CASE a.key < b.key -> "lt"
      [] a.key > b.key -> "nlt"
      [] a.tx = b.tx   -> "nlt"
      [] OTHER         -> "error"

\* Swap 0-based positions i and j.
Swap(h, i, j) == [h EXCEPT ![i + 1] = h[j + 1], ![j + 1] = h[i + 1]]

\* heapq's siftdown(heap, startpos, pos): move the item at pos up while it is
\* less than its parent.  Result: the list and whether no comparison raised.
RECURSIVE SiftDown(_, _, _)
SiftDown(h, start, pos) ==
    IF pos <= start THEN [h |-> h, ok |-> TRUE]
    ELSE LET parent == (pos - 1) \div 2
             c      == Cmp(h[pos + 1], h[parent + 1])
         IN  CASE c = "error" -> [h |-> h, ok |-> FALSE]
               [] c = "nlt"   -> [h |-> h, ok |-> TRUE]
               [] OTHER       -> SiftDown(Swap(h, pos, parent), start, parent)

\* heapq's siftup(heap, pos): bubble the smaller child up until pos is a
\* leaf, then siftdown from the original position.
RECURSIVE BubbleUp(_, _, _)
BubbleUp(h, start, pos) ==
    LET child == 2 * pos + 1
        c     == IF child + 1 < Len(h) THEN Cmp(h[child + 1], h[child + 2]) ELSE "lt"
    IN  CASE pos >= Len(h) \div 2 -> SiftDown(h, start, pos)
          [] c = "error"          -> [h |-> h, ok |-> FALSE]
          [] c = "lt"             -> BubbleUp(Swap(h, pos, child), start, child)
          [] OTHER                -> BubbleUp(Swap(h, pos, child + 1), start, child + 1)

\* heapify: siftup every position from n//2 - 1 down to 0, stopping at a raise.
RECURSIVE HeapifyFrom(_, _)
HeapifyFrom(h, i) ==
    IF i < 0 THEN [h |-> h, ok |-> TRUE]
    ELSE LET r == BubbleUp(h, i, i)
         IN  IF r.ok THEN HeapifyFrom(r.h, i - 1) ELSE r

Heapify(h) == HeapifyFrom(h, Len(h) \div 2 - 1)

\* heappush: append, then siftdown from the new last position.
HeapPush(h, e) == SiftDown(Append(h, e), 0, Len(h))

Init ==
    /\ mempool = <<>>
    /\ transaction_set = {}
    /\ now = 0

\* Mutant of add_transaction: the capacity check off by one.
AddTransactionOverfull(x) ==
    LET tx     == [p |-> x]
        stored == [p |-> x, timestamp |-> now]
        r      == HeapPush(mempool, [key |-> Key[x], tx |-> stored])
    IN  /\ GetTransactionId(tx) \notin transaction_set
        /\ Fee[x] >= MinFee
        /\ Len(mempool) <= MaxTransactions
        /\ mempool' = r.h
        /\ transaction_set' = IF r.ok THEN transaction_set \cup {GetTransactionId(tx)}
                                      ELSE transaction_set
        /\ UNCHANGED now

\* add_transaction of a freshly built dict: the id is taken before the
\* timestamp is written into the dict; duplicate, low-fee and full-pool
\* submissions return False and change nothing.  If heappush raises, the
\* entry stays in the heap and the id is never added to the set.
AddTransaction(x) ==
    LET tx     == [p |-> x]
        stored == [p |-> x, timestamp |-> now]
        r      == HeapPush(mempool, [key |-> Key[x], tx |-> stored])
    IN  /\ GetTransactionId(tx) \notin transaction_set
        /\ Fee[x] >= MinFee
        /\ Len(mempool) < MaxTransactions
        /\ mempool' = r.h
        /\ transaction_set' = IF r.ok THEN transaction_set \cup {GetTransactionId(tx)}
                                      ELSE transaction_set
        /\ UNCHANGED now

\* remove_confirmed_transactions(confirmed): keep the entries whose id is
\* not confirmed, heapify, then rebuild the set from the ids of the stored
\* (timestamped) dicts; a raise in heapify leaves the old set.
RemoveConfirmedTransactions(confirmed) ==
    LET r == Heapify(SelectSeq(mempool, LAMBDA e : GetTransactionId(e.tx) \notin confirmed))
    IN  /\ mempool' = r.h
        /\ transaction_set' = IF r.ok THEN { GetTransactionId(e.tx) : e \in Range(r.h) }
                                      ELSE transaction_set
        /\ UNCHANGED now

\* The caller confirms the id of one stored transaction.
RemoveConfirmed ==
    \E e \in Range(mempool) : RemoveConfirmedTransactions({GetTransactionId(e.tx)})

Live(e) == now - e.tx.timestamp <= ExpirationTime

\* cleanup_expired_transactions: walk the heap list, removing the id of each
\* expired entry from the set; set.remove raises KeyError for an id not in
\* it, which ends the call with the earlier removals done and the heap list
\* unchanged.  Otherwise the live entries are heapified.
CleanupExpiredTransactions ==
    LET expiredIds == [i \in 1 .. Len(SelectSeq(mempool, LAMBDA e : ~Live(e))) |->
                         GetTransactionId(SelectSeq(mempool, LAMBDA e : ~Live(e))[i].tx)]
        RECURSIVE RemoveAll(_, _)
        RemoveAll(s, ids) ==
            IF ids = <<>> THEN [set |-> s, ok |-> TRUE]
            ELSE IF Head(ids) \notin s THEN [set |-> s, ok |-> FALSE]
            ELSE RemoveAll(s \ {Head(ids)}, Tail(ids))
        removed == RemoveAll(transaction_set, expiredIds)
    IN  /\ transaction_set' = removed.set
        /\ mempool' = IF removed.ok THEN Heapify(SelectSeq(mempool, Live)).h ELSE mempool
        /\ UNCHANGED now

\* time.time() advances.
Tick ==
    /\ now < MaxTime
    /\ now' = now + 1
    /\ UNCHANGED <<mempool, transaction_set>>

Next ==
    \/ \E x \in Payloads : AddTransaction(x)
    \/ RemoveConfirmed
    \/ CleanupExpiredTransactions
    \/ Tick

Spec == Init /\ [][Next]_vars

-----------------------------------------------------------------------------
(* Properties                                                              *)

Entries == [key : Range(Key), tx : [p : Payloads, timestamp : 0 .. MaxTime]]

TypeOK ==
    /\ mempool \in Seq(Entries)
    /\ Len(mempool) <= MaxTransactions
    /\ transaction_set \subseteq [p : Payloads] \cup [p : Payloads, timestamp : 0 .. MaxTime]
    /\ now \in 0 .. MaxTime

\* Spec 8: the mempool never holds the same transaction twice; a
\* resubmission must find its id already present.
NoDuplicateTransactions ==
    \A i, j \in 1 .. Len(mempool) : i /= j => mempool[i].tx.p /= mempool[j].tx.p

\* Spec 4.4: expire removes the entries older than the ttl.
CleanupRemovesExpired ==
    [][CleanupExpiredTransactions => \A e \in Range(mempool') : Live(e)]_vars

\* get_transactions sorts the heap list: two entries with equal priority
\* and different dicts make sorted() raise TypeError.  Spec 4.4: ties are
\* broken by admission order, so get_pending always answers.
GetTransactionsAnswers ==
    \A i, j \in 1 .. Len(mempool) :
        i /= j => Cmp(mempool[i], mempool[j]) /= "error"
==============================================================================
