---------------------------- MODULE MCNativeWork ----------------------------
(***************************************************************************)
(* Calls of both kinds: an operation that works without end until it is    *)
(* told to stop or runs out of memory, and partitions that fit, that pass  *)
(* each limit in turn, and that are long enough to be polled.              *)
(***************************************************************************)
EXTENDS NativeWork

Base == [rows |-> None, token |-> TRUE, expiry |-> None, deadline |-> None, stride |-> 3, input |-> 1,
         max_memory |-> 5, max_temporary |-> 3, max_rows |-> 4, max_bytes |-> 200]

Sessions ==
  {[Base EXCEPT !.expiry = e, !.deadline = d] : e \in {None, 2}, d \in {None, 1}}
  \cup {[Base EXCEPT !.stride = 1]}
  \cup {[Base EXCEPT !.token = FALSE, !.deadline = d, !.max_memory = 4, !.max_temporary = 9] : d \in {None, 2}}
  \cup {[Base EXCEPT !.input = 6]}

Row(t) == [tag |-> t, bytes |-> t]
Tagged(tags) == [i \in DOMAIN tags |-> Row(tags[i])]

\* Source and result of the first list: 60 and 76 bytes; with the postings 160.
Partitions ==
  {[Base EXCEPT !.rows = Tagged(<<7, 2, 7>>), !.stride = 2, !.max_memory = m, !.max_bytes = b, !.expiry = e] :
     m \in {59, 60, 83, 159, 160, None}, b \in {59, 75, 76}, e \in {None, 2}}
  \cup {[Base EXCEPT !.rows = Tagged(r), !.max_memory = None, !.max_rows = 3, !.token = t, !.deadline = 2] :
          r \in {<<>>, <<5>>, <<4, 4>>, <<9, 5, 5>>, <<1, 2, 3, 4>>}, t \in BOOLEAN}

MCJobs == Sessions \cup Partitions
=============================================================================
