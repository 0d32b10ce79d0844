------------------------------- MODULE Words -------------------------------
(***************************************************************************)
(* The machine words of the runtime (object.hpp): a 64-bit word whose low  *)
(* four bits are a tag and whose upper bits are either a 16-byte-aligned   *)
(* heap address (counted here in 16-byte units), or the payload of an      *)
(* immediate.  A word is modelled as the pair of those two parts, so that  *)
(* untagging, tagWith and the fixnum shift are record selection and        *)
(* construction, and a word with the wrong tag is a different word.        *)
(***************************************************************************)
EXTENDS Integers

\* The tags of words that point into the garbage-collected heap.
HeapTags == {"pair", "symbol", "closure", "vector"}

\* The tags of words whose payload is the word itself.
ImmediateTags == {"fixnum", "singleton"}

\* kForeignPtrTag is never given to a word by any caller, so it is left out.
Tags == HeapTags \cup ImmediateTags \cup {"null"}

Word == [tag : Tags, upper : Int]

\* The C++ NULL: no tag, no payload.
Null == [tag |-> "null", upper |-> 0]

Fixnum(n) == [tag |-> "fixnum", upper |-> n]

Nil   == [tag |-> "singleton", upper |-> 0]
True  == [tag |-> "singleton", upper |-> 1]
False == [tag |-> "singleton", upper |-> 2]
Void  == [tag |-> "singleton", upper |-> 3]

\* The vector of global values.  There is one, and code refers to it.
GlobalVector == [tag |-> "vector", upper |-> 0]

Bool(p) == IF p THEN True ELSE False

Pointer(tag, addr) == [tag |-> tag, upper |-> addr]

IsHeapAllocated(w) == w.tag \in HeapTags
=============================================================================
