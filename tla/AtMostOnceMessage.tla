-------------------------- MODULE AtMostOnceMessage --------------------------
(***************************************************************************)
(* What the delivery of one executive notification promises, whatever      *)
(* Queue, D1 and Lark do: at most one message is ever posted to the group, *)
(* it is declared sent only once it is there, and an attempt whose outcome *)
(* is unknown is never made again.                                         *)
(***************************************************************************)
EXTENDS Naturals, Sequences

CONSTANT Payload   \* the texts a notification may have

VARIABLES
    phase,    \* how far the delivery came
    posts,    \* the messages posted to the group chat
    arrived   \* which of them are in it

vars == <<phase, posts, arrived>>

Init == phase = "open" /\ posts = <<>> /\ arrived = {}

\* The one attempt is reserved before it is made.
Reserve ==
    /\ phase = "open" /\ phase' = "reserved"
    /\ UNCHANGED <<posts, arrived>>

Post(p) ==
    /\ phase = "reserved" /\ posts = <<>>
    /\ posts' = <<p>>
    /\ UNCHANGED <<phase, arrived>>

\* A message may arrive long after its sender stopped waiting.
Arrive ==
    /\ posts # <<>> /\ arrived = {}
    /\ arrived' = {1}
    /\ UNCHANGED <<phase, posts>>

Confirm ==
    /\ phase = "reserved" /\ arrived # {}
    /\ phase' = "sent"
    /\ UNCHANGED <<posts, arrived>>

GiveUp ==
    /\ phase = "reserved" /\ phase' = "unknown"
    /\ UNCHANGED <<posts, arrived>>

Next == Reserve \/ (\E p \in Payload : Post(p)) \/ Arrive \/ Confirm \/ GiveUp

Spec == Init /\ [][Next]_vars
=============================================================================
