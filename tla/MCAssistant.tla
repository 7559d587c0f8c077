---------------------------- MODULE MCAssistant ----------------------------
(* Eight parts of the assistant in one TLC run: the initial state picks    *)
(* the part that moves, and the others stay as they are.                   *)
EXTENDS TaskCreation, McpScope, History, EventGuard, ReplyTurn, WorkMemory, PickupQueue, StoreQuery,
        TLC

VARIABLE part

AssistantInit ==
  /\ Init /\ McpInit /\ HistoryInit /\ GuardInit /\ ReplyInit /\ MemoryInit /\ QueueInit
  /\ StoreQueryInit
  /\ part \in {"creation", "scope", "history", "guard", "reply", "memory", "queue", "query"}
  /\ part # "memory" => persona = CHOOSE p \in Personas : TRUE
  /\ part # "queue" => promised = [o \in Orders |-> CHOOSE m \in Promises : TRUE]
  /\ part # "query" => table = [r \in Records |-> Absent]

AssistantNext ==
  /\ UNCHANGED part
  /\ \/ part = "creation" /\ Next
        /\ UNCHANGED <<mcpVars, historyVars, turns, replyVars, memoryVars, queueVars, storeQueryVars>>
     \/ part = "scope" /\ McpNext
        /\ UNCHANGED <<vars, historyVars, turns, replyVars, memoryVars, queueVars, storeQueryVars>>
     \/ part = "history" /\ HistoryNext
        /\ UNCHANGED <<vars, mcpVars, turns, replyVars, memoryVars, queueVars, storeQueryVars>>
     \/ part = "guard" /\ GuardNext
        /\ UNCHANGED <<vars, mcpVars, historyVars, replyVars, memoryVars, queueVars, storeQueryVars>>
     \/ part = "reply" /\ ReplyNext
        /\ UNCHANGED <<vars, mcpVars, historyVars, turns, memoryVars, queueVars, storeQueryVars>>
     \/ part = "memory" /\ MemoryNext
        /\ UNCHANGED <<vars, mcpVars, historyVars, turns, replyVars, queueVars, storeQueryVars>>
     \/ part = "queue" /\ QueueNext
        /\ UNCHANGED <<vars, mcpVars, historyVars, turns, replyVars, memoryVars, storeQueryVars>>
     \/ part = "query" /\ StoreQueryNext
        /\ UNCHANGED <<vars, mcpVars, historyVars, turns, replyVars, memoryVars, queueVars>>

AssistantSpec ==
  AssistantInit /\ [][AssistantNext]_<<vars, mcpVars, historyVars, turns, replyVars, memoryVars, queueVars,
                                     storeQueryVars, part>>

AssistantSymmetry == Permutations(Calls) \cup Permutations(McpCalls)
=============================================================================
