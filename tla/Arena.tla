-------------------------------- MODULE Arena --------------------------------
(***************************************************************************)
(* What whoever allocates may expect of a heap of Capacity units: a        *)
(* request is granted at once if it fits; if it does not, some of what is  *)
(* in use goes away once, and then the request is granted or, if it still  *)
(* does not fit, the process ends.                                         *)
(***************************************************************************)
EXTENDS Integers

CONSTANTS
  Capacity,  \* units of memory
  Sizes      \* the units that a request may ask for

VARIABLES
  used,    \* units in use
  asked,   \* the request that a collection was made for; 0: none
  refused

vars == <<used, asked, refused>>

Init == used = 0 /\ asked = 0 /\ refused = FALSE

Fits(n) == used + n <= Capacity

Grant(n) ==
  /\ asked = 0
  /\ Fits(n)
  /\ used' = used + n
  /\ UNCHANGED <<asked, refused>>

Collect(n) ==
  /\ asked = 0
  /\ ~Fits(n)
  /\ used' \in 0..used
  /\ asked' = n
  /\ UNCHANGED refused

GrantAsked ==
  /\ asked # 0
  /\ Fits(asked)
  /\ used' = used + asked
  /\ asked' = 0
  /\ UNCHANGED refused

Refuse ==
  /\ asked # 0
  /\ ~Fits(asked)
  /\ refused' = TRUE
  /\ UNCHANGED <<used, asked>>

Next ==
  \/ \E n \in Sizes : Grant(n) \/ Collect(n)
  \/ GrantAsked
  \/ Refuse

Spec == Init /\ [][Next]_vars
=============================================================================
