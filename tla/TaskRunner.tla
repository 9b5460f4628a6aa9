----------------------------- MODULE TaskRunner -----------------------------
(***************************************************************************)
(* What a message loop promises about the tasks it is given: each source   *)
(* (a thread that posts tasks) has its tasks run at most once each and in  *)
(* the order it posted them.  Nothing is promised across sources.          *)
(***************************************************************************)
EXTENDS Naturals, Sequences

CONSTANT Sources

VARIABLES posted,   \* number of tasks each source has posted
          pending,  \* the ones that have not run, oldest first
          ran       \* the ones that have run, in the order they did

Init ==
  /\ posted = [s \in Sources |-> 0]
  /\ pending = [s \in Sources |-> <<>>]
  /\ ran = [s \in Sources |-> <<>>]

Post(s) ==
  /\ posted' = [posted EXCEPT ![s] = @ + 1]
  /\ pending' = [pending EXCEPT ![s] = Append(@, posted[s] + 1)]
  /\ UNCHANGED ran

Run(s) ==
  /\ pending[s] # <<>>
  /\ ran' = [ran EXCEPT ![s] = Append(@, Head(pending[s]))]
  /\ pending' = [pending EXCEPT ![s] = Tail(@)]
  /\ UNCHANGED posted

Next == \E s \in Sources : Post(s) \/ Run(s)

Spec == Init /\ [][Next]_<<posted, pending, ran>>
=============================================================================
