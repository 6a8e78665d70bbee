--------------------------------- MODULE Rpc ---------------------------------
(***************************************************************************)
(* What api/globals/libs/server/client3 promises to the callers of         *)
(* Client.exec_command: a call ends at most once, with an answer only if   *)
(* the server executed its command, and the server executes a command at   *)
(* most once, before or after its call has been given up.                  *)
(***************************************************************************)
EXTENDS Naturals

CONSTANT Cmds   \* the commands, one for each call

VARIABLES
    call,       \* idle, waiting, answered or failed
    executed    \* how often the server executed each command

TypeOK == /\ call \in [Cmds -> {"idle", "waiting", "answered", "failed"}]
          /\ executed \in [Cmds -> 0 .. 1]

Init == call = [c \in Cmds |-> "idle"] /\ executed = [c \in Cmds |-> 0]

Become(c, from, to) == call[c] = from /\ call' = [call EXCEPT ![c] = to]

\* A call, accepted or refused at once.
Ask(c) == /\ Become(c, "idle", "waiting") \/ Become(c, "idle", "failed")
          /\ UNCHANGED executed

Execute(c) == /\ call[c] # "idle" /\ executed[c] = 0
              /\ executed' = [executed EXCEPT ![c] = 1]
              /\ UNCHANGED call

Answer(c) == /\ executed[c] = 1
             /\ Become(c, "waiting", "answered")
             /\ UNCHANGED executed

Fail(c) == Become(c, "waiting", "failed") /\ UNCHANGED executed

Next == \E c \in Cmds : Ask(c) \/ Execute(c) \/ Answer(c) \/ Fail(c)

Spec == Init /\ [][Next]_<<call, executed>>
=============================================================================
