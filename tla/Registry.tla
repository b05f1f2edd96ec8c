------------------------------ MODULE Registry ------------------------------
(***************************************************************************)
(* What the main server promises: a set of entries, one per announcement   *)
(* of a node, and answers that are the whole set as it was at one moment.  *)
(* An entry is only ever added by its own announcement.  Removing an entry *)
(* removes it alone, or all others with it: remove_info empties the list   *)
(* when the cell that it removes has no predecessor.                       *)
(***************************************************************************)
CONSTANTS
  Entries,   \* the announcements
  Askers     \* those who ask for the list

VARIABLES
  listed,    \* the entries of the list
  answer     \* answer[c]: what c is being sent, {} if nothing is

Init ==
  /\ listed = {}
  /\ answer = [c \in Askers |-> {}]

\* handle_push_info
Register(e) ==
  /\ e \notin listed
  /\ listed' = listed \cup {e}
  /\ UNCHANGED answer

\* remove_info
Unregister(e) ==
  /\ listed' \in {listed \ {e}, {}}
  /\ UNCHANGED answer

\* handle_get_info: the list is copied, and the copy sent and dropped.
Copy(c) ==
  /\ answer' = [answer EXCEPT ![c] = listed]
  /\ UNCHANGED listed

Sent(c) ==
  /\ answer' = [answer EXCEPT ![c] = {}]
  /\ UNCHANGED listed

Next ==
  \/ \E e \in Entries : Register(e) \/ Unregister(e)
  \/ \E c \in Askers : Copy(c) \/ Sent(c)

Spec == Init /\ [][Next]_<<listed, answer>>
=============================================================================
