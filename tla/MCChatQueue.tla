---------------------------- MODULE MCChatQueue ----------------------------
(* Small instances of ChatQueue: every conversation belongs to one account. *)
EXTENDS ChatQueue, TLC

CONSTANTS u1
MCOwnerOf == [c \in Conversation |-> u1]
MCSymmetry == Permutations(Conversation) \cup Permutations(Upload)
              \cup Permutations(Image) \cup Permutations(Request)

(* The steps in which no process dies and no client disconnects.            *)
QuietNext == Next /\ crashes' = crashes
QuietSpec == Init /\ [][QuietNext]_vars /\ Fairness
============================================================================
