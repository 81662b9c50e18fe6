--------------------------- MODULE PermissionCall ---------------------------
(***************************************************************************)
(* What ipc_request_permission() promises its caller (ipc_server.h): the   *)
(* user's answer is an answer to this call, "no client" means that the     *)
(* user was not asked, and a timeout comes only if there is one.  There    *)
(* are no descriptors, threads or messages here; IpcServer implements it.  *)
(***************************************************************************)
EXTENDS Naturals

CONSTANT Timed   \* gui_timeout_ms > 0

VARIABLES
    call,    \* the last call that had somebody to ask
    stage,   \* how far it is, "none" between calls
    result   \* what the call returned, until the caller has acted on it

callVars == <<call, stage, result>>

Init ==
    /\ call = 0
    /\ stage = "none"
    /\ result = "none"

Move(from, to) == stage = from /\ stage' = to

Return(res) ==
    /\ stage' = "none"
    /\ result' = res
    /\ UNCHANGED call

\* There is no GUI, and the call takes no number.
Refuse ==
    /\ stage = "none"
    /\ result = "none"
    /\ Return("no_client")

Begin ==
    /\ Move("none", "begun")
    /\ result = "none"
    /\ call' = call + 1
    /\ UNCHANGED result

\* The GUI goes away before the request is written.
Fail == stage = "begun" /\ Return("no_client")

\* The request is written, once.
Pose == Move("begun", "posed") /\ UNCHANGED <<call, result>>

\* The user answers this request; the caller may still time out.
Say == Move("posed", "said") /\ UNCHANGED <<call, result>>

Answer == stage = "said" /\ Return("answered")

TimeOut ==
    /\ stage \in {"posed", "said"}
    /\ Timed
    /\ Return("timeout")

\* The caller decides and goes on to its next event.
Decide ==
    /\ stage = "none"
    /\ result # "none"
    /\ Return("none")

Next ==
    \/ Refuse
    \/ Begin
    \/ Fail
    \/ Pose
    \/ Say
    \/ Answer
    \/ TimeOut
    \/ Decide

Spec == Init /\ [][Next]_callVars
=============================================================================
