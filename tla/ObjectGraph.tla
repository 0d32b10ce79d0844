---------------------------- MODULE ObjectGraph ----------------------------
(***************************************************************************)
(* What the memory system promises the compiler, the runtime and the       *)
(* compiled program: objects have an identity that no collection changes,  *)
(* a field holds what was last stored in it, and an object may only go     *)
(* away while no root leads to it.  There are no addresses and there is no *)
(* collector here: a collection is the single action Reclaim.              *)
(***************************************************************************)
EXTENDS Words, Sequences

CONSTANTS
  Roots,      \* the places outside the heap that may hold a word
  Ids,        \* object identities
  InternTable,\* the root that holds the symbol intern table
  Requests    \* the allocations that clients may ask for

VARIABLES
  roots,      \* the word in each root; the upper part of a pointer is an Id
  graph,      \* for each existing object, its tag and its fields
  stopped     \* TRUE once the process has exited for lack of memory

vars == <<roots, graph, stopped>>

Init ==
  /\ roots = [r \in Roots |-> IF r = InternTable THEN Nil ELSE Null]
  /\ graph = [o \in {} |-> <<>>]
  /\ stopped = FALSE

Node(r) == graph[roots[r].upper]

IsUnlinked(r) == roots[r].tag = "closure" /\ Node(r).fields = <<>>

\* A client may ask for an object when the words it needs are in roots.
\* "function" is the vector of constant offsets that completes a closure.
MayRequest(q) ==
  /\ \A i \in DOMAIN q.srcs : roots[q.srcs[i]] # Null
  /\ q.tag = "function" =>
       /\ IsUnlinked(q.dst)
       /\ roots[q.srcs[1]].tag = "symbol"
       /\ \A i \in 2..Len(q.srcs) : IsHeapAllocated(roots[q.srcs[i]])

InitialFields(q) ==
  CASE q.tag = "pair"     -> <<roots[q.srcs[1]], roots[q.srcs[2]]>>
    [] q.tag = "vector"   -> [i \in 1..q.n |-> Nil]
    [] q.tag = "function" -> [i \in 1..q.n |-> Fixnum(i)]
    [] OTHER              -> <<>>

NewNode(q) ==
  [tag    |-> IF q.tag = "function" THEN "vector" ELSE q.tag,
   fields |-> InitialFields(q)]

\* A linked closure refers to its name, its offsets and its code constants.
LinkedNode(q, offsets) ==
  [tag    |-> "closure",
   fields |-> <<roots[q.srcs[1]], offsets>>
                \o [i \in 1..q.n |-> roots[q.srcs[i + 1]]]]

New(q) ==
  /\ ~stopped
  /\ MayRequest(q)
  /\ \E o \in Ids \ DOMAIN graph :
       LET new == NewNode(q)
           linked == roots[q.dst].upper
       IN  IF q.tag = "function"
           THEN /\ graph' = [x \in DOMAIN graph \cup {o} |->
                               IF x = o THEN new
                               ELSE IF x = linked
                                    THEN LinkedNode(q, Pointer("vector", o))
                                    ELSE graph[x]]
                /\ UNCHANGED roots
           ELSE /\ graph' = [x \in DOMAIN graph \cup {o} |->
                               IF x = o THEN new ELSE graph[x]]
                /\ roots' = [roots EXCEPT ![q.dst] = Pointer(new.tag, o)]
  /\ UNCHANGED stopped

Put(dst, w) ==
  /\ ~stopped
  /\ roots' = [roots EXCEPT ![dst] = w]
  /\ UNCHANGED <<graph, stopped>>

\* The second reference of a closure, its offsets, is not a client's to read.
Load(dst, src) ==
  /\ ~stopped
  /\ IsHeapAllocated(roots[src])
  /\ \E i \in DOMAIN Node(src).fields :
       /\ ~(roots[src].tag = "closure" /\ i = 2)
       /\ roots' = [roots EXCEPT ![dst] = Node(src).fields[i]]
  /\ UNCHANGED <<graph, stopped>>

Store(obj, src) ==
  /\ ~stopped
  /\ roots[obj].tag \in {"pair", "vector"}
  /\ roots[src] # Null
  /\ \E i \in DOMAIN Node(obj).fields :
       graph' = [graph EXCEPT ![roots[obj].upper].fields[i] = roots[src]]
  /\ UNCHANGED <<roots, stopped>>

\* Objects may disappear as long as what stays contains every object a root
\* points to and every object that a staying object points to.
ClosedUnderReference(keep) ==
  /\ \A r \in Roots : IsHeapAllocated(roots[r]) => roots[r].upper \in keep
  /\ \A o \in keep : \A i \in DOMAIN graph[o].fields :
       LET w == graph[o].fields[i] IN IsHeapAllocated(w) => w.upper \in keep

Reclaim ==
  /\ ~stopped
  /\ \E keep \in SUBSET DOMAIN graph :
       /\ ClosedUnderReference(keep)
       /\ graph' = [o \in keep |-> graph[o]]
  /\ UNCHANGED <<roots, stopped>>

Exit ==
  /\ ~stopped
  /\ stopped' = TRUE
  /\ UNCHANGED <<roots, graph>>

Next ==
  \/ \E q \in Requests : New(q)
  \/ \E dst, src \in Roots : Put(dst, roots[src])
  \/ \E dst \in Roots, w \in {Null, Nil} : Put(dst, w)
  \/ \E dst, src \in Roots : Load(dst, src)
  \/ \E obj, src \in Roots : Store(obj, src)
  \/ Reclaim
  \/ Exit

Spec == Init /\ [][Next]_vars
=============================================================================
