------------------------------- MODULE Overlay -------------------------------
(***************************************************************************)
(* What ZeroVSH Patcher promises about an open or a getstat of a flash     *)
(* file: it is served once, by the file of the same name in the card's     *)
(* redirection directory if that was there when it was tried, and          *)
(* otherwise by the flash, for a stated reason.  Redirect implements it.   *)
(***************************************************************************)
CONSTANTS
    Threads,        \* callers of the flash driver
    Files,          \* paths on the flash
    Flash,          \* the paths that exist there
    Names,          \* file names
    Base,           \* the file name of a path
    Redirectable,   \* paths of a redirected kind with a usable name
    Font            \* the file name the blacklist withholds

VARIABLES
    card,           \* file names in the redirection directory
    banned,         \* the blacklist is in force
    ready,          \* flash calls can be redirected
    phase,          \* of each thread's call
    file,           \* the path it asks for
    barred,         \* the blacklist was in force when it began
    why,            \* why it was left to the flash
    result          \* what served it

vars == <<card, banned, ready, phase, file, barred, why, result>>

Reasons == {"none", "notReady", "ineligible", "noMemory", "absent"}

Init ==
    /\ card \in SUBSET Names
    /\ banned = FALSE /\ ready = FALSE
    /\ phase = [t \in Threads |-> "idle"]
    /\ file \in [Threads -> Files]
    /\ barred = [t \in Threads |-> FALSE]
    /\ why = [t \in Threads |-> "none"]
    /\ result = [t \in Threads |-> "none"]

Begin(t, f) ==
    /\ phase[t] = "idle"
    /\ phase' = [phase EXCEPT ![t] = "begun"]
    /\ file' = [file EXCEPT ![t] = f]
    /\ barred' = [barred EXCEPT ![t] = banned]
    /\ why' = [why EXCEPT ![t] = "none"]
    /\ result' = [result EXCEPT ![t] = "none"]
    /\ UNCHANGED <<card, banned, ready>>

Eligible(t) == file[t] \in Redirectable /\ ~(banned /\ Base[file[t]] = Font)

ServeFromCard(t) ==
    /\ phase[t] = "begun"
    /\ ready
    /\ file[t] \in Redirectable
    /\ Base[file[t]] \in card
    /\ ~(barred[t] /\ Base[file[t]] = Font)
    /\ phase' = [phase EXCEPT ![t] = "served"]
    /\ result' = [result EXCEPT ![t] = "card"]
    /\ UNCHANGED <<card, banned, ready, file, barred, why>>

\* The call is left to the flash; only a want of memory needs no other excuse.
LeaveToFlash(t, reason) ==
    /\ phase[t] = "begun"
    /\ reason = "notReady" => ~ready
    /\ reason = "ineligible" => ~Eligible(t)
    /\ reason = "absent" => ready /\ Base[file[t]] \notin card
    /\ phase' = [phase EXCEPT ![t] = "left"]
    /\ why' = [why EXCEPT ![t] = reason]
    /\ UNCHANGED <<card, banned, ready, file, barred, result>>

ServeFromFlash(t) ==
    /\ phase[t] = "left"
    /\ phase' = [phase EXCEPT ![t] = "served"]
    /\ result' = [result EXCEPT ![t] = IF file[t] \in Flash THEN "flash" ELSE "none"]
    /\ UNCHANGED <<card, banned, ready, file, barred, why>>

Return(t) ==
    /\ phase[t] = "served"
    /\ phase' = [phase EXCEPT ![t] = "idle"]
    /\ UNCHANGED <<card, banned, ready, file, barred, why, result>>

\* The card, the blacklist and the hooks change under the calls.
Environment ==
    /\ card' \in SUBSET Names
    /\ banned => banned'
    /\ ready => ready'
    /\ banned' \in BOOLEAN /\ ready' \in BOOLEAN
    /\ UNCHANGED <<phase, file, barred, why, result>>

Next ==
    \/ Environment
    \/ \E t \in Threads :
         \/ \E f \in Files : Begin(t, f)
         \/ ServeFromCard(t)
         \/ \E reason \in Reasons \ {"none"} : LeaveToFlash(t, reason)
         \/ ServeFromFlash(t)
         \/ Return(t)

Spec == Init /\ [][Next]_vars
=============================================================================
