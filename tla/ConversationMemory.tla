-------------------------- MODULE ConversationMemory ------------------------
(***************************************************************************)
(* What the conversation store and the agent loop promise together about   *)
(* what a conversation remembers, whatever is summarized or lost:          *)
(*   - a conversation forgets nothing until it is reset or the process     *)
(*     stops;                                                              *)
(*   - its file holds what it remembered at the end of some turn, and a    *)
(*     restart brings back exactly that;                                   *)
(*   - what a reset made it forget never comes back.                       *)
(***************************************************************************)
CONSTANT Keys

VARIABLES
    recall,  \* key -> the messages the conversation knows of, were it asked
    file,    \* key -> those its file knows of
    used     \* all messages there have ever been

vars == <<recall, file, used>>

Init ==
    /\ recall = [k \in Keys |-> {}]
    /\ file = [k \in Keys |-> {}]
    /\ used = {}

\* New messages join a conversation.
Learn(k) ==
    /\ recall[k] \subseteq recall'[k]
    /\ recall'[k] \ recall[k] \subseteq used' \ used
    /\ recall' = [recall EXCEPT ![k] = recall'[k]]
    /\ used \subseteq used'
    /\ UNCHANGED file

\* A reset; the fresh session may already have its first message.
Forget(k) ==
    /\ recall'[k] \subseteq used' \ used
    /\ recall' = [recall EXCEPT ![k] = recall'[k]]
    /\ file' = [file EXCEPT ![k] = {}]
    /\ used \subseteq used'

Persist(k) ==
    /\ file' = [file EXCEPT ![k] = recall[k]]
    /\ UNCHANGED <<recall, used>>

Crash ==
    /\ recall' = file
    /\ UNCHANGED <<file, used>>

Next ==
    \/ \E k \in Keys : Learn(k) \/ Forget(k) \/ Persist(k)
    \/ Crash

Spec == Init /\ [][Next]_vars
=============================================================================
