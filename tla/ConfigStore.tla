----------------------------- MODULE ConfigStore -----------------------------
(***************************************************************************)
(* What ini_puts promises of the configuration file, and what it does not. *)
(*                                                                         *)
(* A reader of the file sees `store`.  A put replaces one entry of it and  *)
(* keeps every other, but not in one step: the old file is removed before  *)
(* the new one takes its name, and a reader in between finds nothing.  If  *)
(* the power fails there, it stays so.  What the card does not take, or    *)
(* does not give back, is missing afterwards, and no caller is told.       *)
(***************************************************************************)
CONSTANTS
    Entries,        \* what a file may hold a value of
    Values,         \* what may be put
    None            \* the value of an entry that the file does not hold

VARIABLES
    store,          \* what a reader of the file finds
    request,        \* the entry and the value of the put under way
    next,           \* what will be found once the new file has its name
    interrupted,    \* a put was cut off earlier
    incomplete,     \* the card has refused bytes of the put under way, or kept some back
    result          \* what the last put to return returned

vars == <<store, request, next, interrupted, incomplete, result>>

Nothing == <<>>

Empty == [e \in Entries |-> None]

Init ==
    /\ request = Nothing /\ next = Nothing
    /\ interrupted = FALSE /\ incomplete = FALSE /\ result = 1

Begin ==
    /\ request = Nothing /\ request' \in Entries \X Values
    /\ incomplete' = FALSE
    /\ UNCHANGED <<store, next, interrupted, result>>

Pending == request # Nothing /\ next = Nothing

Asked(e) == IF e = request[1] THEN request[2] ELSE store[e]

\* What a put that was cut off has left behind may come to light with a later
\* one, but never in the place of an entry that the file holds.
Faithful(s) ==
    \A e \in Entries : s[e] = Asked(e) \/ (Asked(e) = None /\ interrupted)

\* A file that was not read or not written whole: entries are missing, one is cut.
CutOff(s) ==
    \E cut \in Entries : \A e \in Entries \ {cut} : s[e] \in {Asked(e), None}

\* A file that did not exist is written in place.
WriteNew ==
    /\ Pending /\ store = Empty
    /\ Faithful(store') \/ (incomplete' /\ CutOff(store'))
    /\ incomplete => incomplete'
    /\ UNCHANGED <<request, next, interrupted, result>>

Fill ==
    /\ Pending
    /\ incomplete' = TRUE
    /\ UNCHANGED <<store, request, next, interrupted, result>>

Vanish ==
    /\ Pending
    /\ next' # Nothing /\ (Faithful(next') \/ (incomplete /\ CutOff(next')))
    /\ store' = Empty
    /\ UNCHANGED <<request, interrupted, incomplete, result>>

Appear ==
    /\ next # Nothing
    /\ store' = next
    /\ request' = Nothing /\ next' = Nothing /\ result' = 1
    /\ UNCHANGED <<interrupted, incomplete>>

\* The put returns: it is in effect, or it was refused and has changed nothing.
Return ==
    /\ Pending
    /\ \/ result' = 1 /\ (store[request[1]] = request[2] \/ incomplete)
       \/ result' = 0
    /\ request' = Nothing
    /\ UNCHANGED <<store, next, interrupted, incomplete>>

Interrupt ==
    /\ request # Nothing
    /\ interrupted' = TRUE
    /\ request' = Nothing /\ next' = Nothing
    /\ UNCHANGED <<store, incomplete, result>>

Next ==
    \/ Begin \/ WriteNew \/ Fill \/ Vanish \/ Appear \/ Return \/ Interrupt

Spec == Init /\ [][Next]_vars
=============================================================================
