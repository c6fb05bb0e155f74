----------------------------- MODULE DurableLog -----------------------------
(***************************************************************************)
(* What the output path promises, without buffers, connections or acks: a  *)
(* log of numbered outputs that becomes durable from the bottom up.  An    *)
(* output becomes durable only once every lower number is durable or was   *)
(* given up on, so a reader of the log never meets a hole that fills later *)
(* or is left silently.  A durable output stays durable.  The promise      *)
(* lapses with an accident (sound turns false and stays so).               *)
(***************************************************************************)
EXTENDS Naturals

VARIABLES
    next,     \* the next number
    kept,     \* numbers of the durable outputs
    gone,     \* numbers given up on
    sound     \* no accident yet

vars == <<next, kept, gone, sound>>

Below(n) == {m \in 0 .. n : m < n}

\* Numbers start at 0 or at 1; number 0 is given up on in either case.
Init == next \in {0, 1} /\ kept = {} /\ gone = {0} /\ sound = TRUE

\* An output gets the next number; making room may give up on others.
Number ==
    /\ next' = next + 1
    /\ gone \subseteq gone' /\ gone' \subseteq gone \cup Below(next + 1)
    /\ UNCHANGED <<kept, sound>>

Keep ==
    /\ \E n \in Below(next) :
          /\ Below(n) \subseteq kept \cup gone
          /\ kept' = kept \cup {n}
    /\ UNCHANGED <<next, gone, sound>>

GiveUp ==
    /\ gone \subseteq gone' /\ gone' \subseteq gone \cup Below(next)
    /\ UNCHANGED <<next, kept, sound>>

Lapse == ~sound'

Next == Number \/ Keep \/ GiveUp \/ Lapse

Spec == Init /\ [][Next]_vars
=============================================================================
