---------------------------- MODULE TurnService ----------------------------
(***************************************************************************)
(* What pager_hf/serving promises to the client of a multi-turn session:   *)
(* a session runs one turn at a time, a turn sees the conversation as the  *)
(* previous one left it and adds its own prompt and tokens at the end, and *)
(* a session cannot be dropped under a running turn.  No thread, queue or  *)
(* lock appears here; Scheduler implements it (ImplementsTurnService).     *)
(***************************************************************************)
EXTENDS Integers, Sequences

CONSTANTS Sessions, Requests, None, MaxTokens

VARIABLES
  open,    \* the sessions that exist
  minted,  \* the session ids ever given out
  asked,   \* the requests that have begun a turn
  turn,    \* the request whose turn a session runs, or None
  log      \* the conversation: the tokens of the turns that ended

vars == <<open, minted, asked, turn, log>>

Init ==
  /\ open = {} /\ minted = {} /\ asked = {}
  /\ turn = [s \in Sessions |-> None]
  /\ log = [s \in Sessions |-> <<>>]

Create(s) ==
  /\ s \notin minted
  /\ open' = open \cup {s}
  /\ minted' = minted \cup {s}
  /\ UNCHANGED <<asked, turn, log>>

Delete(s) ==
  /\ s \in open /\ turn[s] = None
  /\ open' = open \ {s}
  /\ log' = [log EXCEPT ![s] = <<>>]
  /\ UNCHANGED <<minted, asked, turn>>

Begin(s, r) ==
  /\ s \in open /\ turn[s] = None
  /\ r \notin asked
  /\ asked' = asked \cup {r}
  /\ turn' = [turn EXCEPT ![s] = r]
  /\ UNCHANGED <<open, minted, log>>

\* The turn ends, maybe with an error, after n of its tokens.
End(s, n) ==
  /\ turn[s] # None
  /\ log' = [log EXCEPT ![s] = @ \o [k \in 1 .. n + 1 |-> <<turn[s], k - 1>>]]
  /\ turn' = [turn EXCEPT ![s] = None]
  /\ UNCHANGED <<open, minted, asked>>

Next ==
  \E s \in Sessions :
    \/ Create(s) \/ Delete(s)
    \/ \E r \in Requests : Begin(s, r)
    \/ \E n \in 0 .. MaxTokens : End(s, n)

Spec == Init /\ [][Next]_vars
=============================================================================
