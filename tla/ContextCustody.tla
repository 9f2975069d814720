--------------------------- MODULE ContextCustody ---------------------------
(***************************************************************************)
(* What the scheduler promises about a thread's registers and stack,       *)
(* without a word on how: a thread's context is in one place, its Context  *)
(* in memory or one core, and a core holds one context at a time.  A       *)
(* context moves only by being stored whole or loaded whole.               *)
(***************************************************************************)
CONSTANTS Threads, Cores, Memory, Nowhere

VARIABLE place        \* where each thread's context is

Empty(c) == \A t \in Threads : place[t] # c

Init == \E c \in Cores, t, u \in Threads :
          place = [v \in Threads |-> CASE v = t -> c
                                       [] v = u -> Memory
                                       [] OTHER -> Nowhere]

\* A thread is born with its context in memory, or is what an empty core
\* was doing already.
Create(t) == place[t] = Nowhere /\ place' = [place EXCEPT ![t] = Memory]

Adopt(t, c) == /\ place[t] = Nowhere /\ Empty(c)
               /\ place' = [place EXCEPT ![t] = c]

Store(t, c) == place[t] = c /\ place' = [place EXCEPT ![t] = Memory]

Load(t, c) == /\ place[t] = Memory /\ Empty(c)
              /\ place' = [place EXCEPT ![t] = c]

Next == \E t \in Threads : \/ Create(t)
                           \/ \E c \in Cores : Adopt(t, c) \/ Store(t, c) \/ Load(t, c)

Spec == Init /\ [][Next]_place
=============================================================================
