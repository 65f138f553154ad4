--------------------------- MODULE EvidenceLedger ---------------------------
(***************************************************************************)
(* What a soak run promises about the evidence in its bundle, whatever the *)
(* process, its crashes and its resumptions do:                            *)
(*                                                                         *)
(*   - while the run is open, the stock of frames a later process reads    *)
(*     back only grows;                                                    *)
(*   - a checkpoint never claims more frames than the stock holds, and     *)
(*     while the run is open the progress and the frames it claims never   *)
(*     go back;                                                            *)
(*   - the run is sealed (its metrics are written) once, when the whole    *)
(*     duration is secured, over exactly the stock;                        *)
(*   - the run is closed once, for good. A run closed by a failure may     *)
(*     have lost the use of its stock, or its checkpoint, but not both,    *)
(*     and neither once it is sealed.                                      *)
(*                                                                         *)
(* SoakRun is shown to implement this module.                              *)
(***************************************************************************)
EXTENDS Integers

CONSTANT Duration  \* ticks of run time the scenario asks for

VARIABLES
  stock,    \* frames a later process reads back from the bundle
  secured,  \* what the newest checkpoint claims: ticks and frames
  sealed,   \* the final metrics: written or not, and over how many frames
  open      \* the run is under way, or can be resumed

vars == <<stock, secured, sealed, open>>

Nothing == [completed |-> 0, frames |-> 0]

Claims == [completed : 0 .. Duration, frames : Nat]

Init ==
  /\ stock = 0
  /\ secured = Nothing
  /\ sealed = [written |-> FALSE, frames |-> 0]
  /\ open = TRUE

Grows == stock' \in Nat /\ stock <= stock'

Collect ==
  /\ open
  /\ ~sealed.written
  /\ Grows
  /\ UNCHANGED <<secured, sealed, open>>

Secure ==
  /\ open
  /\ ~sealed.written
  /\ secured' \in Claims
  /\ secured.completed <= secured'.completed
  /\ secured.frames <= secured'.frames
  /\ secured'.frames <= stock
  /\ UNCHANGED <<stock, sealed, open>>

Seal ==
  /\ open
  /\ ~sealed.written
  /\ secured.completed = Duration
  /\ sealed' = [written |-> TRUE, frames |-> stock]
  /\ UNCHANGED <<stock, secured, open>>

Close ==
  /\ open
  /\ open' = FALSE
  /\ \/ UNCHANGED <<stock, secured>>
     \/ ~sealed.written /\ (Grows \/ stock' = 0) /\ UNCHANGED secured
     \/ ~sealed.written /\ secured' = Nothing /\ UNCHANGED stock
  /\ UNCHANGED sealed

Next == Collect \/ Secure \/ Seal \/ Close

Spec == Init /\ [][Next]_vars
=============================================================================
