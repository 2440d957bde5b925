-------------------------------- MODULE CF_CList --------------------------------
(***************************************************************************)
(* The doubly linked circular lists of cf_clist.c, as pointers: queues of  *)
(* transactions and history entries, whose lengths are counted beside      *)
(* them, and lists of chunk lists.  A traversal is one step per node,      *)
(* because its callback may change the list that is traversed.             *)
(***************************************************************************)
EXTENDS Integers, FiniteSets, SequencesExt

CONSTANTS Nodes,        \* cl_node of transactions, history entries, chunk lists
          Queues,       \* CF_Channel_t.qs, with q_size
          ChunkLists,   \* CF_Channel_t.cs
          Null

ASSUME ListsAssumption ==
  Queues \cap ChunkLists = {} /\ Null \notin Nodes /\ IsFiniteSet(Nodes)

Lists == Queues \cup ChunkLists

VARIABLES heap,   \* next and prev of every node, head of every list, q_size
          walk    \* the locals of the traversal that runs

vars == <<heap, walk>>

NotWalking == [node |-> Null, start |-> Null, link |-> "next"]
Walking == walk.node # Null

-------------------------------------------------------------------------------
(* cf_clist.c.  An insertion asserts that the node points to itself, which *)
(* is so of a node on no list, and also of one that is alone on a list.    *)

InitNode(h, node) == [h EXCEPT !.next[node] = node, !.prev[node] = node]

(* Between the last node and the head, which the caller moves or does not. *)
LinkedBefore(h, head, node) ==
  LET last == h.prev[head]
  IN  [h EXCEPT !.next[node] = head, !.prev[node] = last,
                !.next[last] = node, !.prev[head] = node]

(* Nothing in the application calls this one. *)
InsertFront(h, l, node) ==
  LET linked == IF h.head[l] = Null THEN h ELSE LinkedBefore(h, h.head[l], node)
  IN  [linked EXCEPT !.head[l] = node]

InsertBack(h, l, node) ==
  IF h.head[l] = Null THEN [h EXCEPT !.head[l] = node]
  ELSE LinkedBefore(h, h.head[l], node)

InsertAfter(h, start, after) ==
  [h EXCEPT !.next[after] = h.next[start], !.next[start] = after,
            !.prev[after] = start, !.prev[h.next[start]] = after]

(* Mutant: the new first node keeps its prev. *)
Remove_StalePrev(h, l, node) ==
  LET after  == h.next[node]
      before == h.prev[node]
  IN  InitNode(
        IF after = node THEN [h EXCEPT !.head[l] = Null]
        ELSE IF h.head[l] = node THEN [h EXCEPT !.next[before] = after, !.head[l] = after]
        ELSE [h EXCEPT !.prev[after] = before, !.next[before] = after], node)

RemoveNode(h, l, node) ==
  LET after  == h.next[node]
      before == h.prev[node]
      around == [h EXCEPT !.prev[after] = before, !.next[before] = after]
  IN  InitNode(
        IF after = node THEN [h EXCEPT !.head[l] = Null]
        ELSE IF h.head[l] = node THEN [around EXCEPT !.head[l] = after]
        ELSE around, node)

(* The heap after CF_CList_Pop, which returns the head. *)
Pop(h, l) == IF h.head[l] = Null THEN h ELSE RemoveNode(h, l, h.head[l])

(* The inline functions of cf_utils.h, with the count that they keep. *)
InsertBack_Ex(h, q, node) == [InsertBack(h, q, node) EXCEPT !.q_size[q] = @ + 1]
InsertAfter_Ex(h, q, start, after) == [InsertAfter(h, start, after) EXCEPT !.q_size[q] = @ + 1]
Remove_Ex(h, q, node) == [RemoveNode(h, q, node) EXCEPT !.q_size[q] = @ - 1]

(* CF_MoveTransaction, and CF_ResetHistory from the history. *)
Move(h, from, to, node) == InsertBack_Ex(Remove_Ex(h, from, node), to, node)

-------------------------------------------------------------------------------
(* What a list holds, read off its pointers. *)

(* The nodes from first on, up to the one whose link leads to stop. *)
Chain(link, first, stop) ==
  LET max == Cardinality(Nodes)
      Nth[i \in 1 .. max] == IF i = 1 THEN first ELSE link[Nth[i - 1]]
      ends == {i \in 1 .. max : link[Nth[i]] = stop}
  IN  [i \in 1 .. Min(ends \cup {max}) |-> Nth[i]]

On(h, l) == IF h.head[l] = Null THEN <<>> ELSE Chain(h.next, h.head[l], h.head[l])

Floating == {n \in Nodes : \A l \in Lists : n \notin ToSet(On(heap, l))}

-------------------------------------------------------------------------------
(* The calls.  The application is single-threaded, and the callbacks of a  *)
(* traversal change no list but by moving the node that they are given.    *)

Init ==
  /\ heap = [next |-> [n \in Nodes |-> n], prev |-> [n \in Nodes |-> n],
             head |-> [l \in Lists |-> Null], q_size |-> [q \in Queues |-> 0]]
  /\ walk = NotWalking

Changed(h) == ~Walking /\ heap' = h /\ UNCHANGED walk

(* CF_FreeTransaction and its like. *)
Enqueue(q, n) == n \in Floating /\ Changed(InsertBack_Ex(heap, q, n))

(* CF_InsertSortPrio, behind the node that CF_PrioSearch found. *)
EnqueueAfter(q, start, n) ==
  start \in ToSet(On(heap, q)) /\ n \in Floating /\ Changed(InsertAfter_Ex(heap, q, start, n))

(* CF_DequeueTransaction, from the queue that q_index names. *)
Dequeue(q, n) == n \in ToSet(On(heap, q)) /\ Changed(Remove_Ex(heap, q, n))

TakeChunkList(l) == Changed(Pop(heap, l))
ReturnChunkList(l, n) ==
  n \in Floating /\ (Changed(InsertBack(heap, l, n)) \/ Changed(InsertFront(heap, l, n)))

-------------------------------------------------------------------------------
(* CF_CList_Traverse from the head of a list, and CF_CList_Traverse_R from *)
(* the node before it: one loop, along next or along prev.                 *)

Begin(l, link) ==
  /\ ~Walking /\ heap.head[l] # Null
  /\ LET first == IF link = "next" THEN heap.head[l] ELSE heap.prev[heap.head[l]]
     IN  walk' = [node |-> first, start |-> first, link |-> link]
  /\ UNCHANGED heap

(* Mutant: the start is not moved. *)
NewStart_Kept(h, node_next) == walk.start

(* A start that has left the list is no longer met. *)
NewStart(h, node_next) ==
  IF walk.start = walk.node /\ h[walk.link][walk.node] # node_next THEN node_next
  ELSE walk.start

(* One iteration, with h the heap after the callback. *)
Visited(h, goOn) ==
  LET node_next == heap[walk.link][walk.node]
      last == node_next = walk.start
  IN  /\ heap' = h
      /\ walk' = IF last \/ ~goOn THEN NotWalking
                 ELSE [walk EXCEPT !.node = node_next, !.start = NewStart(h, node_next)]

(* The callback keeps the node, or recycles its transaction, as that of    *)
(* CF_CFDP_DoTick may, or resets its history entry (CF_PurgeHistory).      *)
Visit ==
  /\ Walking
  /\ \E goOn \in BOOLEAN :
       \/ Visited(heap, goOn)
       \/ \E from \in Queues : \E to \in Queues \ {from} :
            /\ walk.node \in ToSet(On(heap, from))
            /\ Visited(Move(heap, from, to, walk.node), goOn)

Next ==
  \/ \E q \in Queues, n \in Nodes : Enqueue(q, n) \/ Dequeue(q, n)
  \/ \E q \in Queues, start, n \in Nodes : EnqueueAfter(q, start, n)
  \/ \E l \in ChunkLists : TakeChunkList(l) \/ \E n \in Nodes : ReturnChunkList(l, n)
  \/ \E l \in Lists, link \in {"next", "prev"} : Begin(l, link)
  \/ Visit

Spec == Init /\ [][Next]_vars

-------------------------------------------------------------------------------

(***************************************************************************)
(* The pointers are rings, whatever was inserted, removed and moved, also  *)
(* by a traversal: prev undoes next, a node is on one list at most and     *)
(* points to itself when it is on none, which the insertions assert, and   *)
(* q_size, which decides about receive transactions, is the length.        *)
(***************************************************************************)
ListsAreRings ==
  /\ \A n \in Nodes : heap.prev[heap.next[n]] = n /\ heap.next[heap.prev[n]] = n
  /\ \A n \in Floating : heap.next[n] = n
  /\ \A l \in Lists : \A m \in Lists \ {l} :
       ToSet(On(heap, l)) \cap ToSet(On(heap, m)) = {}
  /\ \A q \in Queues : heap.q_size[q] = Len(On(heap, q))

(***************************************************************************)
(* The lists implement the sequences of CF_Queues, and "on traversal it's  *)
(* ok to delete the current node" (cf_clist.h): the traversal comes to     *)
(* every other node once and stops, also when the first node leaves.       *)
(***************************************************************************)
ToVisit ==
  IF Walking THEN Chain(heap[walk.link], walk.node, walk.start) ELSE <<>>

AsQueues == INSTANCE CF_Queues WITH queue <- [l \in Lists |-> On(heap, l)],
                                    todo  <- ToVisit
ImplementsQueues == AsQueues!Spec
===============================================================================
