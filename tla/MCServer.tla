------------------------------ MODULE MCServer ------------------------------
(* Small instances of what the API server keeps and of the daemon of the    *)
(* microphone array, one part at a time: `part' is the one whose steps are  *)
(* explored.                                                                *)
EXTENDS MCChatQueue, Accounts, VideoCall, MicrophoneDaemon

CONSTANTS u2
VARIABLE part

serverVars == <<vars, authVars, callVars, daemonVars, part>>

Serves(p) ==
  /\ part = p /\ UNCHANGED part
  /\ p # "chat" => UNCHANGED vars
  /\ p # "accounts" => UNCHANGED authVars
  /\ p # "call" => UNCHANGED callVars
  /\ p # "array" => UNCHANGED daemonVars

ServerInit ==
  /\ part \in {"chat", "accounts", "call", "array"}
  /\ Init /\ AccountsInit /\ CallInit /\ DaemonInit

ServerNext ==
  \/ Serves("chat") /\ Next
  \/ Serves("accounts") /\ AccountsNext
  \/ Serves("call") /\ CallNext
  \/ Serves("array") /\ DaemonNext

ServerSpec == ServerInit /\ [][ServerNext]_serverVars
=============================================================================
