--------------------------- MODULE BreakpointList ---------------------------
(***************************************************************************)
(* The list of breakpoints (src/src/breakpoint.cpp): a vector of pointers  *)
(* to Breakpoint objects, here a sequence of records.  Only the operators  *)
(* are defined; the list itself is a variable of DebugSession.             *)
(*                                                                         *)
(* A breakpoint number is a property of the entry and not its position:    *)
(* it is the length of the list plus one at the time of the insertion, and *)
(* it does not change when an earlier entry is erased.                     *)
(***************************************************************************)
EXTENDS Naturals, Sequences, SequencesExt

(* The members of class Breakpoint.                                        *)
BreakpointType(address, word) ==
  [address : address, origdata : word, number : Nat \ {0}, enabled : BOOLEAN]

----------------------------------------------------------------------------
(* What the searches return: the first entry that matches.                 *)

WithNumber(li, n)  == {i \in DOMAIN li : li[i].number = n}
WithAddress(li, a) == {i \in DOMAIN li : li[i].address = a}

(* Mutants: the number is the old length; the patched word is saved.       *)
AppendElementFromZero(li, a, word) ==
  Append(li, [address |-> a, origdata |-> word,
              number |-> Len(li), enabled |-> TRUE])

AppendElementPatched(li, a, word) ==
  Append(li, [address |-> a, origdata |-> [word EXCEPT ![0] = 204],
              number |-> Len(li) + 1, enabled |-> TRUE])

(* BreakpointList::AppendElement: the new entry is enabled and takes the   *)
(* number GetNoOfBreakpoints() + 1.                                        *)
AppendElement(li, a, word) ==
  Append(li, [address |-> a, origdata |-> word,
              number |-> Len(li) + 1, enabled |-> TRUE])

(* The guard of BreakpointList::RemoveElement and the search behind it: a  *)
(* number above the length of the list is refused even when it is listed.  *)
Removable(li, n) == n \in 1 .. Len(li) /\ WithNumber(li, n) # {}

RemovePosition(li, n) == Min(WithNumber(li, n))

(* Mutant: erase(it) for erase(it + i).                                    *)
RemoveElementFirst(li, n) == Tail(li)

(* The list behind BreakpointList::RemoveElement.                          *)
RemoveElement(li, n) == RemoveAt(li, RemovePosition(li, n))

(* BreakpointList::GetElementByBreakpointNumber returns nullptr unless     *)
(* this holds.  Its guard has no lower bound, but no entry has a number    *)
(* below one.                                                              *)
FoundByNumber(li, n) == n <= Len(li) /\ WithNumber(li, n) # {}

(* Breakpoint::DisableBreakpoint on the entry that number n selects.       *)
DisableElement(li, n) == [li EXCEPT ![Min(WithNumber(li, n))].enabled = FALSE]

(* BreakpointList::GetElementByAddress, and when it is not nullptr.        *)
IsListed(li, a) == WithAddress(li, a) # {}
GetElementByAddress(li, a) == li[Min(WithAddress(li, a))]
=============================================================================
