---------------------------- MODULE EngineOwnership ----------------------------
(***************************************************************************)
(* What ProcessManager (process.rs) and the commands around it promise of  *)
(* engine processes: the program owns one engine at most, a new one starts *)
(* only after the last one ended or was killed, traffic is served by the   *)
(* engine that is owned, and once the user's last request was a stop that  *)
(* returned there is none until the next request.                          *)
(*                                                                         *)
(* Gates, tickets, tokens, watchers and reapers are not seen here;         *)
(* ProcessManager is shown to implement it.                                *)
(***************************************************************************)
VARIABLES
  engines,  \* engine processes the program owns
  dying,    \* engine processes killed without waiting for their end
  halted,   \* the newest request of the user was a stop, and it returned
  served    \* engines that were accepted as the user's connection

vars == <<engines, dying, halted, served>>

Init == engines = {} /\ dying = {} /\ halted = FALSE /\ served = {}

\* The user asks for something else after a stop.
Request ==
  /\ halted' = FALSE
  /\ UNCHANGED <<engines, dying, served>>

\* A new engine, alone, and never under the identity of another.
Spawn ==
  /\ ~halted /\ engines = {}
  /\ \E n \in engines' : engines' = {n} /\ n \notin dying \cup served
  /\ UNCHANGED <<dying, halted, served>>

\* An engine is accepted: the one that is owned, or it just exited.
Serve ==
  /\ ~halted
  /\ \E n \in served' : engines \subseteq {n} /\ served' = served \cup {n}
  /\ UNCHANGED <<engines, dying, halted>>

\* A process ends, by itself or because it was killed.
Exit ==
  /\ \E n \in engines \cup dying : engines' = engines \ {n} /\ dying' = dying \ {n}
  /\ UNCHANGED <<halted, served>>

\* The engine is killed and nobody waits for it; a reset is then done.
Dismiss ==
  /\ engines # {} /\ engines' = {} /\ dying' = dying \cup engines
  /\ halted' \in {halted, TRUE}
  /\ UNCHANGED served

\* A stop returns when no engine is left.
Halt ==
  /\ engines = {} /\ halted' = TRUE
  /\ UNCHANGED <<engines, dying, served>>

Next == Request \/ Spawn \/ Serve \/ Exit \/ Dismiss \/ Halt

Spec == Init /\ [][Next]_vars
=============================================================================
