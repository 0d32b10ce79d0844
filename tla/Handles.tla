------------------------------ MODULE Handles ------------------------------
(***************************************************************************)
(* The Handles of gc.hpp: the C++ side's roots.  Every Handle links itself *)
(* into a circular list when it is constructed and unlinks itself when it  *)
(* is destroyed; gcCollect follows the list and scavenges each pointer.    *)
(*                                                                         *)
(* Handles live on the C++ stack, in temporaries and in members, so they   *)
(* are destroyed in any order, and the memory of a dead one keeps its old  *)
(* links until a new Handle is constructed there.                          *)
(***************************************************************************)
EXTENDS FiniteSets

CONSTANTS
  Cells,  \* the places in memory where a Handle may be constructed
  handleHead    \* the cell of ThreadState::handleHead

ASSUME HandlesAssumption == handleHead \notin Cells

VARIABLES
  live,        \* the cells that hold a Handle now
  next, prev,
  current,     \* the cells whose ptr is where its object is now, or NULL
  phase,       \* "mutator" or "scan"
  iter,        \* of gcCollect
  older        \* history: <<g, h>> when g was constructed before h

vars == <<live, next, prev, current, phase, iter, older>>

Ring == live \cup {handleHead}

\* create and initFromThreadState: the head is alone in the list.
Init ==
  /\ live = {}
  /\ next = [h \in Cells \cup {handleHead} |-> handleHead]
  /\ prev = [h \in Cells \cup {handleHead} |-> handleHead]
  /\ current = {}
  /\ phase = "mutator"
  /\ iter = handleHead
  /\ older = {}

\* Mutants: the last Handle is not linked to the new one; the new one comes
\* first; the new one is linked to the first one instead of the head.
Construct_LastNotLinked(h) ==
  /\ phase = "mutator"
  /\ h \in Cells \ live
  /\ live' = live \cup {h}
  /\ next' = [next EXCEPT ![h] = handleHead]
  /\ prev' = [prev EXCEPT ![h] = prev[handleHead], ![handleHead] = h]
  /\ current' = current \cup {h}
  /\ older' = older \cup (live \X {h})
  /\ UNCHANGED <<phase, iter>>

Construct_First(h) ==
  /\ phase = "mutator"
  /\ h \in Cells \ live
  /\ live' = live \cup {h}
  /\ next' = [next EXCEPT ![h] = next[handleHead], ![handleHead] = h]
  /\ prev' = [prev EXCEPT ![h] = handleHead, ![next[handleHead]] = h]
  /\ current' = current \cup {h}
  /\ older' = older \cup (live \X {h})
  /\ UNCHANGED <<phase, iter>>

Construct_NextIsFirst(h) ==
  /\ phase = "mutator"
  /\ h \in Cells \ live
  /\ live' = live \cup {h}
  /\ next' = [next EXCEPT ![h] = next[handleHead], ![prev[handleHead]] = h]
  /\ prev' = [prev EXCEPT ![h] = prev[handleHead], ![handleHead] = h]
  /\ current' = current \cup {h}
  /\ older' = older \cup (live \X {h})
  /\ UNCHANGED <<phase, iter>>

\* The constructors, through initPtr: the new Handle is inserted before the
\* head.  Its pointer was read from a Handle or just returned by gcAlloc.
Construct(h) ==
  /\ phase = "mutator"
  /\ h \in Cells \ live
  /\ live' = live \cup {h}
  /\ next' = [next EXCEPT ![h] = handleHead, ![prev[handleHead]] = h]
  /\ prev' = [prev EXCEPT ![h] = prev[handleHead], ![handleHead] = h]
  /\ current' = current \cup {h}
  /\ older' = older \cup (live \X {h})
  /\ UNCHANGED <<phase, iter>>

\* Mutant: only the successor learns that h is gone.
Destroy_PrevNotLinked(h) ==
  /\ phase = "mutator"
  /\ h \in live
  /\ live' = live \ {h}
  /\ prev' = [prev EXCEPT ![next[h]] = prev[h]]
  /\ current' = current \ {h}
  /\ older' = {p \in older : h \notin {p[1], p[2]}}
  /\ UNCHANGED <<next, phase, iter>>

\* ~Handle.
Destroy(h) ==
  /\ phase = "mutator"
  /\ h \in live
  /\ live' = live \ {h}
  /\ next' = [next EXCEPT ![prev[h]] = next[h]]
  /\ prev' = [prev EXCEPT ![next[h]] = prev[h]]
  /\ current' = current \ {h}
  /\ older' = {p \in older : h \notin {p[1], p[2]}}
  /\ UNCHANGED <<phase, iter>>

\* operator=: h points to what g points to, and stays where it is linked.
Assign(h, g) ==
  /\ phase = "mutator"
  /\ h \in live /\ g \in live
  /\ current' = IF g \in current THEN current \cup {h} ELSE current \ {h}
  /\ UNCHANGED <<live, next, prev, phase, iter, older>>

\* gcCollect moves every object; gcScavenge updates one Handle at a time.
BeginScan ==
  /\ phase = "mutator"
  /\ phase' = "scan"
  /\ iter' = next[handleHead]
  /\ current' = {}
  /\ UNCHANGED <<live, next, prev, older>>

ScanOne ==
  /\ phase = "scan"
  /\ iter # handleHead
  /\ current' = current \cup {iter}
  /\ iter' = next[iter]
  /\ UNCHANGED <<live, next, prev, phase, older>>

EndScan ==
  /\ phase = "scan"
  /\ iter = handleHead
  /\ phase' = "mutator"
  /\ UNCHANGED <<live, next, prev, current, iter, older>>

Next ==
  \/ \E h \in Cells : Construct(h)
  \/ \E h \in Cells : Destroy(h)
  \/ \E h, g \in Cells : Assign(h, g)
  \/ BeginScan
  \/ ScanOne
  \/ EndScan

Spec == Init /\ [][Next]_vars

\* gcCollect runs to its end before its caller goes on.
FairSpec == Spec /\ WF_vars(ScanOne \/ EndScan)

-----------------------------------------------------------------------------
(***************************************************************************)
(* Properties.                                                             *)
(***************************************************************************)
\* The types of the variables; gcCollect only ever stands on the head or on a
\* Handle that is still alive.
TypeOK ==
  /\ live \subseteq Cells
  /\ next \in [Cells \cup {handleHead} -> Cells \cup {handleHead}]
  /\ prev \in [Cells \cup {handleHead} -> Cells \cup {handleHead}]
  /\ current \subseteq live
  /\ phase \in {"mutator", "scan"}
  /\ iter \in Ring
  /\ older \subseteq live \X live

\* No Handle is left with the old address of its object when gcCollect goes
\* on, whatever the order in which Handles came and went before.
HandlesAreCurrent == phase = "mutator" => current = live

Before(g, h) == <<g, h>> \in older

\* The list leads from the head through the live Handles, the oldest first,
\* back to the head, and backwards along the same way.
IsSuccessor(h, n) ==
  /\ n # handleHead => h = handleHead \/ Before(h, n)
  /\ \A g \in live :
       h = handleHead \/ Before(h, g) => n # handleHead /\ (g = n \/ Before(n, g))

RingIsInOrder ==
  \A h \in Ring :
    /\ {next[h], prev[h]} \subseteq Ring
    /\ IsSuccessor(h, next[h])
    /\ prev[next[h]] = h
    /\ next[prev[h]] = h

\* A scan comes to its end.
ScanEnds == phase = "scan" ~> phase = "mutator"
=============================================================================
