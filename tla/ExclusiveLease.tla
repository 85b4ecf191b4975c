---------------------------- MODULE ExclusiveLease ----------------------------
(***************************************************************************)
(* What a lease that runs out promises to those who work under it.  One    *)
(* client holds it at a time.  A client that is sure of it is the holder,  *)
(* and nobody takes it over meanwhile; every effect is let through by a    *)
(* check of one that is sure.  A client takes the lease once: what it has  *)
(* lost it never holds again, so that the effect it was let through for    *)
(* when it lost it is its last.                                            *)
(***************************************************************************)

CONSTANT Client   \* the runs that want the lease

VARIABLES
    holder,  \* the client that has it, as a set of one or none
    sure,    \* the clients whose check would pass now
    stage    \* how far each client came

vars == <<holder, sure, stage>>

Init ==
    /\ holder = {} /\ sure = {}
    /\ stage = [c \in Client |-> "out"]

To(c, s) == stage' = [stage EXCEPT ![c] = s]

\* Taken by force too, but never from a client that is sure of it.
Take(c) ==
    /\ stage[c] = "out" /\ To(c, "in")
    /\ sure = {}
    /\ holder' = {c} /\ sure' \subseteq {c}

\* Only one that is sure of the lease is let through ...
Check(c) ==
    /\ stage[c] = "in" /\ To(c, "cleared")
    /\ c \in sure
    /\ UNCHANGED <<holder, sure>>

\* ... for one effect, which may come when the lease is lost.
Effect(c) ==
    /\ stage[c] = "cleared" /\ To(c, "in")
    /\ UNCHANGED <<holder, sure>>

\* A client comes to its end; only its own lease may go with it, and one
\* that nobody is sure of.
Finish(c) ==
    /\ stage[c] # "over" /\ To(c, "over")
    /\ holder' \in {holder, {}}
    /\ holder' = {} => sure \subseteq {c}
    /\ sure' \subseteq sure \cap holder'

\* A client that is at its end gives its lease back.
Release(c) ==
    /\ stage[c] = "over" /\ holder = {c}
    /\ holder' = {} /\ sure' = {}
    /\ UNCHANGED stage

\* Time passes, and the lease is renewed or not.
Turn ==
    /\ sure' \subseteq holder
    /\ UNCHANGED <<holder, stage>>

Next ==
    \/ \E c \in Client : Take(c) \/ Check(c) \/ Effect(c) \/ Finish(c) \/ Release(c)
    \/ Turn

Spec == Init /\ [][Next]_vars
===============================================================================
