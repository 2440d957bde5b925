------------------------------- MODULE CF_Queues -------------------------------
(***************************************************************************)
(* What the lists of cf_clist.c promise to their callers: sequences of     *)
(* nodes, and traversals that come to every node of a sequence once, in    *)
(* its order or backwards, although a node may leave when it is visited.   *)
(***************************************************************************)
EXTENDS SequencesExt

CONSTANTS Nodes, Lists

VARIABLES queue,   \* the nodes of each list
          todo     \* the nodes that a traversal has yet to visit

vars == <<queue, todo>>

Idle == todo = <<>>
Free == {n \in Nodes : \A l \in Lists : n \notin ToSet(queue[l])}

Init == queue = [l \in Lists |-> <<>>] /\ todo = <<>>

(* A node that is on no list is put at any place of one. *)
Put ==
  /\ Idle /\ UNCHANGED todo
  /\ \E n \in Free, l \in Lists : \E i \in 1 .. Len(queue[l]) + 1 :
       queue' = [queue EXCEPT ![l] = InsertAt(@, i, n)]

Take ==
  /\ Idle /\ UNCHANGED todo
  /\ \E l \in Lists : \E n \in ToSet(queue[l]) :
       queue' = [queue EXCEPT ![l] = RemoveFirst(@, n)]

Begin ==
  /\ Idle /\ UNCHANGED queue
  /\ \E l \in Lists : todo' \in {queue[l], Reverse(queue[l])}

(* The node stays, or it goes to the end of another list; the traversal    *)
(* goes on with the next node or is broken off.                            *)
Visit ==
  /\ ~Idle /\ todo' \in {Tail(todo), <<>>}
  /\ \/ UNCHANGED queue
     \/ \E l \in Lists : \E m \in Lists \ {l} :
          /\ Head(todo) \in ToSet(queue[l])
          /\ queue' = [queue EXCEPT ![l] = RemoveFirst(@, Head(todo)),
                                    ![m] = Append(@, Head(todo))]

Next == Put \/ Take \/ Begin \/ Visit

Spec == Init /\ [][Next]_vars
===============================================================================
