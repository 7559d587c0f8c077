------------------------------ MODULE McpScope ------------------------------
(***************************************************************************)
(* Calls from the agent to the store data service.  mcp_connection.py puts *)
(* two things into the headers: a session scope, signed for a short time,  *)
(* and the identity token of the process, which its calls share and        *)
(* refresh behind a lock.  mcp_auth.py and server.py check both by the     *)
(* clock of another machine, the token's times having been set by Google's. *)
(*                                                                         *)
(* Time is counted in units, of 30 s in the instance, where the 15 s that  *)
(* the code tolerates are rounded up to one unit.                          *)
(***************************************************************************)
EXTENDS Integers

CONSTANTS
  McpCalls,    \* calls of the tools of one agent process
  Period,      \* issued_at is rounded down to a multiple of it: 60 s
  Lifetime,    \* of a scope: 180 s
  Early,       \* how far issued_at may lie ahead of the verifier: 15 s
  Margin,      \* a token is refreshed that long before its expiry: 2 min
  TokenLife,   \* of a token Google issues: 1 h, cut to 180 s in the instance
  Skew,        \* bound on the difference of either clock from the agent's
  MaxTime      \* bound on the clock of the agent

ASSUME McpAssumption ==
  /\ {Period, Lifetime, Early, Margin, TokenLife, Skew, MaxTime} \subseteq Nat
  /\ Period > 0
  /\ Skew <= Early
  /\ Lifetime <= Period + Margin
  /\ Margin + Skew < TokenLife

VARIABLES
  clock,   \* of the agent
  expiry,  \* of the token in the credentials, 0 before the first one
  mcp      \* mcp[c]: how far the call is, when its headers were begun and
           \* signed for, when its token expires, and the last answer

mcpVars == <<clock, expiry, mcp>>

Unused == [stage |-> "idle", asked |-> 0, issued |-> 0, token |-> 0, at |-> 0, accepted |-> FALSE]

McpInit ==
  /\ clock = 0
  /\ expiry = 0
  /\ mcp = [c \in McpCalls |-> Unused]

\* The scope is made before the token is waited for.
MakeScope(c) ==
  /\ mcp[c].stage = "idle"
  /\ mcp' = [mcp EXCEPT ![c] = [Unused EXCEPT !.stage = "scoped", !.asked = clock,
                                              !.issued = clock - (clock % Period)]]
  /\ UNCHANGED <<clock, expiry>>

\* What LockFree must not be: no lock.
NoLock == TRUE

\* The lock is held for the time of a refresh.
LockFree == \A c \in McpCalls : mcp[c].stage # "refreshing"

\* What RefreshDue must not be: only when the token has expired.
RefreshWhenExpired == expiry <= clock

RefreshDue == expiry <= clock + Margin

UseToken(c) ==
  /\ mcp[c].stage = "scoped" /\ LockFree /\ ~RefreshDue
  /\ mcp' = [mcp EXCEPT ![c].stage = "sent", ![c].token = expiry]
  /\ UNCHANGED <<clock, expiry>>

StartRefresh(c) ==
  /\ mcp[c].stage = "scoped" /\ LockFree /\ RefreshDue
  /\ mcp' = [mcp EXCEPT ![c].stage = "refreshing"]
  /\ UNCHANGED <<clock, expiry>>

\* Google stamps the token with its own clock.
EndRefresh(c) ==
  /\ mcp[c].stage = "refreshing"
  /\ \E iat \in clock - Skew .. clock + Skew :
       /\ expiry' = iat + TokenLife
       /\ mcp' = [mcp EXCEPT ![c].stage = "sent", ![c].token = iat + TokenLife]
  /\ UNCHANGED clock

\* The lock is released, the call fails.
RefreshFails(c) ==
  /\ mcp[c].stage = "refreshing"
  /\ mcp' = [mcp EXCEPT ![c] = Unused]
  /\ UNCHANGED <<clock, expiry>>

\* verify_scope
InWindow(issued, now) == issued <= now + Early /\ now < issued + Lifetime

\* verify_oauth2_token, which is called without a clock skew, refuses a token that
\* has expired and one that is issued in the future.
TokenIssued(c) == mcp[c].token - TokenLife
TokenValid(c, now) == TokenIssued(c) <= now /\ now <= mcp[c].token

\* The service gets the headers, or gets them again, after any delay.
Verify(c) ==
  /\ mcp[c].stage \in {"sent", "answered"}
  /\ \E now \in clock - Skew .. clock + Skew :
       mcp' = [mcp EXCEPT ![c].stage = "answered", ![c].at = clock,
                 ![c].accepted = TokenValid(c, now) /\ InWindow(mcp[c].issued, now)]
  /\ UNCHANGED <<clock, expiry>>

NextCall(c) ==
  /\ mcp[c].stage = "answered"
  /\ mcp' = [mcp EXCEPT ![c] = Unused]
  /\ UNCHANGED <<clock, expiry>>

TickClock ==
  /\ clock < MaxTime
  /\ clock' = clock + 1
  /\ UNCHANGED <<expiry, mcp>>

McpNext ==
  \/ TickClock
  \/ \E c \in McpCalls :
       \/ MakeScope(c) \/ UseToken(c) \/ StartRefresh(c) \/ EndRefresh(c)
       \/ RefreshFails(c) \/ Verify(c) \/ NextCall(c)

McpSpec == McpInit /\ [][McpNext]_mcpVars

(* ------------------------------ properties ------------------------------ *)

\* A call that reaches the service soon after its headers were begun is accepted,
\* scope and token, although the scope aged while the call waited for the token and
\* the clocks differ, once the service's clock must have passed the token's time of
\* issue: the scope may be Early by the verifier's clock, the token may not.
\* Headers older than a scope's life are refused.
ScopeWindow ==
  \A c \in McpCalls : mcp[c].stage = "answered" =>
    LET delay == mcp[c].at - mcp[c].asked
    IN /\ /\ delay <= Lifetime - Period - Skew
          /\ TokenIssued(c) + Skew <= mcp[c].at
          => mcp[c].accepted
       /\ delay >= Lifetime + Skew => ~mcp[c].accepted

\* "Cache workload ID credentials until refresh is needed": a token that has more
\* than two minutes left is not replaced, also not by a call that saw the old one.
RefreshOnlyWhenDue == [][expiry' # expiry => expiry <= clock + Margin]_mcpVars
=============================================================================
