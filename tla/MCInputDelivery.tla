-------------------------- MODULE MCInputDelivery --------------------------
(* The bounds are those of a .cfg.  With two browsers the run keeps both at *)
(* work while nothing has gone wrong and until the agent's first report;    *)
(* after that it follows only the states in which one of them is.           *)
EXTENDS InputDelivery, TLC

Swapped == Permutations(Browsers)

AtWork(b) == \/ outbox[b] # <<>> \/ webWire[b] # <<>>
             \/ gated[b] # {} \/ numbering[b] # {} \/ enqueuing[b] # {}

FaultsAlone == \/ faults = 0 /\ Clean /\ \A c \in Conns : reports[c] = <<>>
               \/ \A a, b \in Browsers : AtWork(a) /\ AtWork(b) => a = b
=============================================================================
